----------------------- MODULE ConversationCacheProofs -----------------------
(***************************************************************************)
(* Theorems about ConversationCache for any conversations, any number of   *)
(* overlapping turns, any limit and any times: types, the size is bounded, *)
(* conversations do not mix, a turn builds on the progress made before it, *)
(* and eviction is earned.                                                 *)
(***************************************************************************)
EXTENDS ConversationCache, FiniteSetTheorems, TLAPS

USE DEF turnVars

\* A turn that has not begun has nothing; one that has holds an entry of its
\* own conversation, and has seen only other turns end.
TurnsPlaced ==
  \A t \in Turns :
    /\ pc[t] = "idle" => conv[t] = None /\ entry[t] = None
    /\ pc[t] # "idle" => /\ conv[t] \in Convs /\ entry[t] \in Turns
                         /\ pc[entry[t]] # "idle" /\ conv[entry[t]] = conv[t]
    /\ pc[t] \in {"idle", "acquired"} => acked[t] = NoState /\ base[t] = NoState
    /\ acked[t] # NoState => acked[t].turn = t
    /\ \A u \in before[t] : pc[u] = "done" /\ u # t

\* The entry cached for a conversation was created by a turn of it.
CachePlaced ==
  \A c \in Convs : cache[c] # None => pc[cache[c]] # "idle" /\ conv[cache[c]] = c

\* The turns an acknowledged state comes from.
Of(state) == state.refs \cup ({state.turn} \ {None})

Owned ==
  /\ \A e \in Turns : \A u \in heap[e].blobs \cup Of(heap[e].checkpoint) :
       pc[e] # "idle" /\ conv[u] = conv[e]
  /\ \A t \in Turns : \A u \in Of(acked[t]) \cup Of(base[t]) : conv[u] = conv[t]

\* An entry that a turn holds was used when the turn began, or later.
Timed ==
  /\ \A e \in Turns : heap[e].lastAccess <= now
  /\ \A t \in Turns : InFlight(t) =>
       began[t] <= heap[entry[t]].lastAccess

\* No older than what turn u made of it.
AtLeast(state, u) == state # NoState /\ state.turn \notin before[u]

\* What is acknowledged stays in the entry for as long as it is cached, and
\* for a turn that has acquired it.
Progress ==
  \A u \in Turns : acked[u] # NoState =>
    /\ pc[u] = "done" /\ cache[conv[u]] = entry[u] => AtLeast(heap[entry[u]].checkpoint, u)
    /\ \A t \in Turns : pc[t] = "acquired" /\ u \in before[t] /\ entry[u] = entry[t] =>
         AtLeast(heap[entry[t]].checkpoint, u)

LEMMA NoStateIsState == NoState \in State /\ NoState.refs = {} /\ NoState.turn = None
BY DEF NoState, State

LEMMA OfTurns ==
  /\ \A state \in State : Of(state) \subseteq Turns
  /\ Of(NoState) = {}
BY NoStateIsState DEF Of, State

LEMMA NewEntryIsEntry ==
  ASSUME NEW time \in 0..MaxTime
  PROVE  NewEntry(time) \in Entry
BY NoStateIsState DEF NewEntry, Entry

LEMMA NoneIsOther == None \notin Convs /\ None \notin Turns
BY ConvsAssumption
-----------------------------------------------------------------------------
(* acquire.                                                                *)

LEMMA EntryForType ==
  ASSUME TypeOK, NEW t \in Turns, NEW c \in Convs
  PROVE  EntryFor(t, c) \in Turns
BY DEF TypeOK, EntryFor

LEMMA TouchedType ==
  ASSUME TypeOK, NEW t \in Turns, NEW c \in Convs
  PROVE  /\ Touched(t, c) \in Entry
         /\ Touched(t, c).lastAccess = now
         /\ cache[c] # None => /\ Touched(t, c).blobs = heap[cache[c]].blobs
                               /\ Touched(t, c).checkpoint = heap[cache[c]].checkpoint
         /\ cache[c] = None => Touched(t, c).blobs = {} /\ Touched(t, c).checkpoint = NoState
<1>1. now \in 0..MaxTime
  BY DEF TypeOK
<1>2. CASE cache[c] # None
  <2>1. heap[cache[c]] \in Entry
    BY <1>2 DEF TypeOK
  <2>2. Touched(t, c) = [heap[cache[c]] EXCEPT !.lastAccess = now]
    BY <1>2 DEF Touched
  <2> QED
    BY <1>1, <1>2, <2>1, <2>2 DEF Entry
<1>3. CASE cache[c] = None
  BY <1>1, <1>3, NewEntryIsEntry DEF Touched, NewEntry
<1> QED
  BY <1>2, <1>3

\* What acquire does to the cache: the acquired entry is in it, and every
\* other is as it was or gone.
LEMMA AcquireCaches ==
  ASSUME TypeOK, NEW t \in Turns, NEW c \in Convs, Acquire(t, c)
  PROVE  /\ cache' \in [Convs -> Turns \cup {None}]
         /\ cache'[c] = EntryFor(t, c)
         /\ \A d \in Convs : d # c => cache'[d] \in {None, cache[d]}
         /\ \E E \in Overflow(c, (Cached \ Stale(c)) \cup {c}) :
              /\ Cached' = ((Cached \ Stale(c)) \cup {c}) \ E
              /\ Cached \ Cached' \subseteq Stale(c) \cup E
<1>1. PICK E \in Overflow(c, (Cached \ Stale(c)) \cup {c}) :
        cache' = [d \in Convs |-> IF d = c THEN EntryFor(t, c)
                                  ELSE IF d \in Stale(c) \cup E THEN None ELSE cache[d]]
  BY DEF Acquire
<1>2. E \subseteq ((Cached \ Stale(c)) \cup {c}) \ {c}
  BY <1>1 DEF Overflow
<1>3. EntryFor(t, c) \in Turns
  BY EntryForType
<1>4. Cached' = ((Cached \ Stale(c)) \cup {c}) \ E
  BY <1>1, <1>2, <1>3, NoneIsOther DEF Cached, Stale, TypeOK
<1>5. Cached \ Cached' \subseteq Stale(c) \cup E
  BY <1>4
<1>6. cache' \in [Convs -> Turns \cup {None}]
  BY <1>1, <1>3 DEF TypeOK
<1> QED
  BY <1>1, <1>4, <1>5, <1>6

\* What it does to the rest.
LEMMA AcquireTakes ==
  ASSUME TypeOK, NEW t \in Turns, NEW c \in Convs, Acquire(t, c)
  PROVE  /\ pc[t] = "idle" /\ pc'[t] = "acquired" /\ conv'[t] = c
         /\ entry'[t] = EntryFor(t, c) /\ began'[t] = now /\ before'[t] = Done
         /\ heap'[EntryFor(t, c)] = Touched(t, c)
         /\ \A u \in Turns \ {t} : /\ pc'[u] = pc[u] /\ conv'[u] = conv[u]
                                   /\ entry'[u] = entry[u] /\ began'[u] = began[u]
                                   /\ before'[u] = before[u]
         /\ \A e \in Turns \ {EntryFor(t, c)} : heap'[e] = heap[e]
         /\ UNCHANGED <<now, base, acked>>
BY EntryForType DEF Acquire, TypeOK

LEMMA InitInv ==
  Init => TypeOK /\ TurnsPlaced /\ CachePlaced /\ Owned /\ Timed /\ Progress
            /\ SizeBounded /\ BuildsOnProgress
<1> SUFFICES ASSUME Init
             PROVE  TypeOK /\ TurnsPlaced /\ CachePlaced /\ Owned /\ Timed /\ Progress
                      /\ SizeBounded /\ BuildsOnProgress
  OBVIOUS
<1>1. 0 \in 0..MaxTime /\ NewEntry(0) \in Entry
  BY TimesAssumption, NewEntryIsEntry
<1>2. TypeOK
  BY <1>1, NoStateIsState DEF Init, TypeOK
<1>3. TurnsPlaced /\ CachePlaced
  BY DEF Init, TurnsPlaced, CachePlaced
<1>4. Owned
  BY OfTurns DEF Init, Owned, NewEntry
<1>5. Timed
  BY DEF Init, Timed, InFlight, NewEntry
<1>6. Progress /\ BuildsOnProgress
  BY DEF Init, Progress, BuildsOnProgress
<1>7. Cached = {}
  BY DEF Init, Cached
<1>8. SizeBounded
  BY <1>7, FS_EmptySet, MaxEntriesAssumption DEF SizeBounded
<1> QED
  BY <1>2, <1>3, <1>4, <1>5, <1>6, <1>8

LEMMA TypeStep == TypeOK /\ TurnsPlaced /\ [Next]_vars => TypeOK'
<1> SUFFICES ASSUME TypeOK, TurnsPlaced, [Next]_vars PROVE TypeOK'
  OBVIOUS
<1> USE NoStateIsState DEF TypeOK
<1>1. ASSUME NEW t \in Turns, NEW c \in Convs, Acquire(t, c) PROVE TypeOK'
  <2>1. cache' \in [Convs -> Turns \cup {None}]
    BY <1>1, AcquireCaches
  <2>2. heap' \in [Turns -> Entry]
    BY <1>1, TouchedType, EntryForType DEF Acquire
  <2>3. Done \subseteq Turns
    BY DEF Done
  <2> QED
    BY <1>1, <2>1, <2>2, <2>3, EntryForType DEF Acquire
<1>2. ASSUME NEW t \in Turns, Build(t) PROVE TypeOK'
  <2>1. heap[entry[t]].checkpoint \in State
    BY <1>2 DEF Build, TurnsPlaced, Entry
  <2> QED
    BY <1>2, <2>1 DEF Build
<1>3. ASSUME NEW t \in Turns, BuildFails(t) PROVE TypeOK'
  BY <1>3 DEF BuildFails
<1>4. ASSUME NEW t \in Turns, ServerSetsBlob(t) PROVE TypeOK'
  <2>1. entry[t] \in Turns
    BY <1>4 DEF ServerSetsBlob, TurnsPlaced
  <2>2. [heap[entry[t]] EXCEPT !.blobs = @ \cup {t}] \in Entry
    BY <2>1 DEF Entry
  <2>3. heap' = [heap EXCEPT ![entry[t]] = [heap[entry[t]] EXCEPT !.blobs = @ \cup {t}]]
    BY <1>4 DEF ServerSetsBlob
  <2> QED
    BY <1>4, <2>1, <2>2, <2>3 DEF ServerSetsBlob
<1>5. ASSUME NEW t \in Turns, NEW refs \in SUBSET Turns, ServerAcks(t, refs) PROVE TypeOK'
  <2>1. [turn |-> t, refs |-> refs] \in State
    BY DEF State
  <2> QED
    BY <1>5, <2>1 DEF ServerAcks
<1>6. ASSUME NEW t \in Turns, Retry(t) PROVE TypeOK'
  BY <1>6 DEF Retry
<1>7. ASSUME NEW t \in Turns, StoreCheckpoint(t) PROVE TypeOK'
  <2>1. CASE Stores(t)
    <3> DEFINE e == cache[conv[t]]
               new == [heap[e] EXCEPT !.checkpoint = acked[t], !.lastAccess = now]
    <3>1. e \in Turns
      BY <1>7, <2>1 DEF StoreCheckpoint, Stores, TurnsPlaced
    <3>2. heap[e] \in Entry /\ acked[t] \in State /\ now \in 0..MaxTime
      BY <3>1
    <3>3. new \in Entry
      BY <3>2 DEF Entry
    <3>4. heap' = [heap EXCEPT ![e] = new]
      BY <1>7, <2>1, <3>1 DEF StoreCheckpoint
    <3> QED
      BY <1>7, <3>1, <3>3, <3>4 DEF StoreCheckpoint
  <2>2. CASE ~Stores(t)
    BY <1>7, <2>2 DEF StoreCheckpoint
  <2> QED
    BY <2>1, <2>2
<1>8. CASE Tick
  BY <1>8, TimesAssumption DEF Tick
<1>9. CASE UNCHANGED vars
  BY <1>9 DEF vars
<1> QED
  BY <1>1, <1>2, <1>3, <1>4, <1>5, <1>6, <1>7, <1>8, <1>9 DEF Next, Finished
-----------------------------------------------------------------------------
(* Turns and entries.                                                      *)

LEMMA PlacedStep ==
  TypeOK /\ TurnsPlaced /\ CachePlaced /\ [Next]_vars => TurnsPlaced' /\ CachePlaced'
<1> SUFFICES ASSUME TypeOK, TurnsPlaced, CachePlaced, [Next]_vars
             PROVE  TurnsPlaced' /\ CachePlaced'
  OBVIOUS
<1> USE NoneIsOther
<1>1. ASSUME NEW t \in Turns, NEW c \in Convs, Acquire(t, c)
      PROVE  TurnsPlaced' /\ CachePlaced'
  <2> DEFINE e == EntryFor(t, c)
  <2>1. e \in Turns /\ pc'[e] # "idle" /\ conv'[e] = c
    BY <1>1, EntryForType, AcquireTakes DEF EntryFor, CachePlaced
  <2>2. t \notin Done /\ \A u \in Done : pc'[u] = "done"
    BY <1>1, AcquireTakes DEF Done
  <2> HIDE DEF e
  <2>3. \A u \in Turns : pc[u] # "idle" => pc'[u] = pc[u] /\ conv'[u] = conv[u]
    BY <1>1, AcquireTakes
  <2>4. TurnsPlaced'
    <3> SUFFICES ASSUME NEW u \in Turns
                 PROVE  /\ pc'[u] = "idle" => conv'[u] = None /\ entry'[u] = None
                        /\ pc'[u] # "idle" => /\ conv'[u] \in Convs /\ entry'[u] \in Turns
                                              /\ pc'[entry'[u]] # "idle"
                                              /\ conv'[entry'[u]] = conv'[u]
                        /\ pc'[u] \in {"idle", "acquired"} =>
                             acked'[u] = NoState /\ base'[u] = NoState
                        /\ acked'[u] # NoState => acked'[u].turn = u
                        /\ \A v \in before'[u] : pc'[v] = "done" /\ v # u
      BY DEF TurnsPlaced
    <3>1. CASE u = t
      BY <1>1, <2>1, <2>2, <3>1, AcquireTakes DEF e, TurnsPlaced
    <3>2. CASE u # t
      <4>1. /\ pc'[u] = pc[u] /\ conv'[u] = conv[u] /\ entry'[u] = entry[u]
            /\ before'[u] = before[u] /\ acked'[u] = acked[u] /\ base'[u] = base[u]
        BY <1>1, <3>2, AcquireTakes
      <4>2. \A v \in before[u] : v \in Turns /\ pc[v] = "done" /\ v # u
        BY DEF TurnsPlaced, TypeOK
      <4> QED
        BY <2>3, <4>1, <4>2 DEF TurnsPlaced
    <3> QED
      BY <3>1, <3>2
  <2>5. CachePlaced'
    <3> SUFFICES ASSUME NEW d \in Convs, cache'[d] # None
                 PROVE  pc'[cache'[d]] # "idle" /\ conv'[cache'[d]] = d
      BY DEF CachePlaced
    <3>1. CASE d = c
      <4>1. cache'[d] = e
        BY <1>1, <3>1, AcquireCaches DEF e
      <4> QED
        BY <2>1, <3>1, <4>1
    <3>2. CASE d # c
      <4>1. cache'[d] = cache[d]
        BY <1>1, <3>2, AcquireCaches
      <4> QED
        BY <2>3, <4>1 DEF CachePlaced, TypeOK
    <3> QED
      BY <3>1, <3>2
  <2> QED
    BY <2>4, <2>5
<1>2. ASSUME NEW t \in Turns, Build(t) PROVE TurnsPlaced' /\ CachePlaced'
  BY <1>2 DEF Build, TurnsPlaced, CachePlaced, TypeOK
<1>3. ASSUME NEW t \in Turns, pc[t] \in {"acquired", "running"}, pc' = [pc EXCEPT ![t] = "done"],
             UNCHANGED <<cache, conv, entry, before, acked, base>>
      PROVE  TurnsPlaced' /\ CachePlaced'
  BY <1>3 DEF TurnsPlaced, CachePlaced, TypeOK
<1>4. ASSUME NEW t \in Turns, BuildFails(t) \/ StoreCheckpoint(t) PROVE TurnsPlaced' /\ CachePlaced'
  <2>1. /\ pc[t] \in {"acquired", "running"} /\ pc' = [pc EXCEPT ![t] = "done"]
        /\ UNCHANGED <<cache, conv, entry, before, acked, base>>
    BY <1>4 DEF BuildFails, StoreCheckpoint
  <2> QED
    BY <1>3, <2>1
<1>5. ASSUME NEW t \in Turns, NEW refs \in SUBSET Turns, ServerAcks(t, refs)
      PROVE  TurnsPlaced' /\ CachePlaced'
  BY <1>5 DEF ServerAcks, TurnsPlaced, CachePlaced, TypeOK
<1>6. ASSUME NEW t \in Turns, Retry(t) PROVE TurnsPlaced' /\ CachePlaced'
  BY <1>6 DEF Retry, TurnsPlaced, CachePlaced, TypeOK
<1>7. CASE UNCHANGED <<cache, turnVars>>
  BY <1>7 DEF TurnsPlaced, CachePlaced
<1> QED
  BY <1>1, <1>2, <1>5, <1>6, <1>7, <1>4 DEF Next, ServerSetsBlob, Tick, Finished, vars

\* What storeCheckpoint does to the heap: nothing, or the checkpoint of the
\* entry cached for the turn's conversation is what Cursor acknowledged.
LEMMA StoreTakes ==
  ASSUME TypeOK, TurnsPlaced, NEW t \in Turns, StoreCheckpoint(t)
  PROVE  /\ conv[t] \in Convs
         /\ ~Stores(t) => heap' = heap
         /\ Stores(t) => LET e == cache[conv[t]] IN
              /\ e \in Turns
              /\ heap'[e].checkpoint = acked[t] /\ heap'[e].lastAccess = now
              /\ heap'[e].blobs = heap[e].blobs
              /\ \A d \in Turns \ {e} : heap'[d] = heap[d]
<1>1. conv[t] \in Convs
  BY DEF StoreCheckpoint, TurnsPlaced
<1>2. CASE Stores(t)
  <2> DEFINE e == cache[conv[t]]
             new == [heap[e] EXCEPT !.checkpoint = acked[t], !.lastAccess = now]
  <2>1. e \in Turns
    BY <1>1, <1>2 DEF Stores, TypeOK
  <2>2. heap' = [heap EXCEPT ![e] = new]
    BY <1>2, <2>1 DEF StoreCheckpoint, TypeOK
  <2>3. heap[e] \in Entry /\ heap \in [Turns -> Entry]
    BY <2>1 DEF TypeOK
  <2>4. new.checkpoint = acked[t] /\ new.lastAccess = now /\ new.blobs = heap[e].blobs
    BY <2>3 DEF Entry
  <2> QED
    BY <1>1, <1>2, <2>1, <2>2, <2>3, <2>4
<1>3. CASE ~Stores(t)
  BY <1>1, <1>3 DEF StoreCheckpoint
<1> QED
  BY <1>2, <1>3

LEMMA SetsBlobTakes ==
  ASSUME TypeOK, TurnsPlaced, NEW t \in Turns, ServerSetsBlob(t)
  PROVE  LET e == entry[t] IN
         /\ e \in Turns /\ heap'[e].blobs = heap[e].blobs \cup {t}
         /\ heap'[e].checkpoint = heap[e].checkpoint
         /\ heap'[e].lastAccess = heap[e].lastAccess
         /\ \A d \in Turns \ {e} : heap'[d] = heap[d]
<1>1. entry[t] \in Turns
  BY DEF ServerSetsBlob, TurnsPlaced
<1>2. heap[entry[t]] \in Entry /\ heap \in [Turns -> Entry]
  BY <1>1 DEF TypeOK
<1> QED
  BY <1>1, <1>2 DEF ServerSetsBlob, Entry

\* The conversation of a turn under way never changes.
LEMMA ConvKept ==
  ASSUME TypeOK, TurnsPlaced, [Next]_vars, NEW u \in Turns, pc[u] # "idle"
  PROVE  conv'[u] = conv[u] /\ entry'[u] = entry[u] /\ began'[u] = began[u]
           /\ before'[u] = before[u] /\ pc'[u] # "idle"
<1>1. ASSUME NEW t \in Turns, NEW c \in Convs, Acquire(t, c)
      PROVE  conv'[u] = conv[u] /\ entry'[u] = entry[u] /\ began'[u] = began[u]
               /\ before'[u] = before[u] /\ pc'[u] # "idle"
  BY <1>1, AcquireTakes
<1> QED
  BY <1>1 DEF Next, Build, BuildFails, ServerSetsBlob, ServerAcks, Retry, StoreCheckpoint,
              Tick, Finished, vars, TypeOK

\* Turns of a conversation remain of it.
LEMMA AllKept ==
  ASSUME TypeOK, TurnsPlaced, [Next]_vars, NEW S \in SUBSET Turns, NEW c \in Convs,
         \A u \in S : conv[u] = c
  PROVE  \A u \in S : conv'[u] = c
<1>1. \A u \in S : pc[u] # "idle"
  BY NoneIsOther DEF TurnsPlaced
<1> QED
  BY <1>1, ConvKept

LEMMA OwnedStep ==
  TypeOK /\ TurnsPlaced /\ CachePlaced /\ Owned /\ [Next]_vars => Owned'
<1> SUFFICES ASSUME TypeOK, TurnsPlaced, CachePlaced, Owned, [Next]_vars PROVE Owned'
  OBVIOUS
<1> DEFINE Holds(e) == heap[e].blobs \cup Of(heap[e].checkpoint)
           Carries(t) == Of(acked[t]) \cup Of(base[t])
<1>1. \A e \in Turns : Holds(e) \subseteq Turns /\ Carries(e) \subseteq Turns
  BY OfTurns DEF TypeOK, Entry
\* Before the step's own change, all that is held is still of its place.
<1>2. ASSUME NEW e \in Turns
      PROVE  \A u \in Holds(e) : pc'[e] # "idle" /\ conv'[u] = conv'[e]
  <2>1. CASE pc[e] = "idle"
    BY <2>1 DEF Owned
  <2>2. CASE pc[e] # "idle"
    <3>1. conv[e] \in Convs /\ conv'[e] = conv[e] /\ pc'[e] # "idle"
      BY <2>2, ConvKept DEF TurnsPlaced
    <3>2. \A u \in Holds(e) : conv[u] = conv[e]
      BY DEF Owned
    <3> HIDE DEF Holds
    <3> QED
      BY <1>1, <3>1, <3>2, AllKept
  <2> QED
    BY <2>1, <2>2
<1>3. ASSUME NEW t \in Turns PROVE \A u \in Carries(t) : conv'[u] = conv'[t]
  <2>1. CASE pc[t] = "idle"
    BY <2>1, OfTurns DEF TurnsPlaced
  <2>2. CASE pc[t] # "idle"
    <3>1. conv[t] \in Convs /\ conv'[t] = conv[t]
      BY <2>2, ConvKept DEF TurnsPlaced
    <3>2. \A u \in Carries(t) : conv[u] = conv[t]
      BY DEF Owned
    <3> HIDE DEF Carries
    <3> QED
      BY <1>1, <3>1, <3>2, AllKept
  <2> QED
    BY <2>1, <2>2
<1> DEFINE Heap == \A e \in Turns : \A u \in Holds(e)' : pc'[e] # "idle" /\ conv'[u] = conv'[e]
           Carried == \A t \in Turns : \A u \in Carries(t)' : conv'[u] = conv'[t]
<1>4. SUFFICES Heap /\ Carried
  BY DEF Owned
<1>5. ASSUME NEW t \in Turns, NEW c \in Convs, Acquire(t, c) PROVE Heap /\ Carried
  <2>1. Carried
    BY <1>3, <1>5, AcquireTakes
  <2>2. PICK e \in Turns : e = EntryFor(t, c)
    BY EntryForType
  <2>3. \A d \in Turns \ {e} : heap'[d] = heap[d]
    BY <1>5, <2>2, AcquireTakes
  <2>4. Holds(e)' = IF cache[c] # None THEN Holds(e) ELSE {}
    BY <1>5, <2>2, AcquireTakes, TouchedType, OfTurns DEF EntryFor
  <2>5. Heap
    BY <1>2, <2>3, <2>4
  <2> QED
    BY <2>1, <2>5
<1>6. ASSUME heap' = heap PROVE Heap
  BY <1>2, <1>6
<1>7. ASSUME NEW t \in Turns, Build(t) PROVE Heap /\ Carried
  <2>1. Heap
    BY <1>6, <1>7 DEF Build
  <2>2. /\ entry[t] \in Turns /\ conv[entry[t]] = conv[t] /\ conv' = conv
    BY <1>7 DEF Build, TurnsPlaced
  <2>3. /\ Of(base'[t]) \subseteq Holds(entry[t]) /\ acked' = acked
        /\ \A u \in Turns \ {t} : base'[u] = base[u]
    BY <1>7 DEF Build, TypeOK
  <2>4. \A u \in Of(base'[t]) : conv'[u] = conv'[t]
    BY <1>2, <2>2, <2>3
  <2>5. Carried
    BY <1>3, <2>3, <2>4
  <2> QED
    BY <2>1, <2>5
<1>8. ASSUME NEW t \in Turns, BuildFails(t) PROVE Heap /\ Carried
  <2>1. Heap
    BY <1>6, <1>8 DEF BuildFails
  <2> QED
    BY <1>3, <1>8, <2>1 DEF BuildFails
<1>9. ASSUME NEW t \in Turns, ServerSetsBlob(t) PROVE Heap /\ Carried
  <2>1. PICK e \in Turns : e = entry[t]
    BY <1>9 DEF ServerSetsBlob, TurnsPlaced
  <2>2. /\ pc[e] # "idle" /\ conv[e] = conv[t] /\ UNCHANGED <<pc, conv, acked, base>>
    BY <1>9, <2>1 DEF ServerSetsBlob, TurnsPlaced
  <2>3. /\ Holds(e)' = Holds(e) \cup {t}
        /\ \A d \in Turns \ {e} : heap'[d] = heap[d]
    BY <1>9, <2>1, SetsBlobTakes
  <2>4. Heap
    BY <1>2, <2>2, <2>3
  <2> QED
    BY <1>3, <2>2, <2>4
<1>10. ASSUME NEW t \in Turns, NEW refs \in SUBSET Turns, ServerAcks(t, refs)
       PROVE  Heap /\ Carried
  <2>1. Heap
    BY <1>6, <1>10 DEF ServerAcks
  <2>2. /\ UNCHANGED <<conv, base>> /\ conv'[t] = conv[t]
        /\ acked'[t] = [turn |-> t, refs |-> refs]
        /\ \A u \in Turns \ {t} : acked'[u] = acked[u]
        /\ refs \subseteq base[t].refs \cup {t}
    BY <1>10 DEF ServerAcks, Known, TypeOK
  <2>3. Of(acked'[t]) \subseteq Of(base[t]) \cup {t}
    BY <2>2 DEF Of
  <2>4. Carried
    BY <1>3, <2>2, <2>3
  <2> QED
    BY <2>1, <2>4
<1>11. ASSUME NEW t \in Turns, Retry(t) PROVE Heap /\ Carried
  <2>1. Heap
    BY <1>6, <1>11 DEF Retry
  <2>2. /\ UNCHANGED <<conv, base>> /\ Of(acked'[t]) = {}
        /\ \A u \in Turns \ {t} : acked'[u] = acked[u]
    BY <1>11, OfTurns DEF Retry, TypeOK
  <2>3. Carried
    BY <1>3, <2>2
  <2> QED
    BY <2>1, <2>3
<1>12. ASSUME NEW t \in Turns, StoreCheckpoint(t) PROVE Heap /\ Carried
  <2>1. UNCHANGED <<conv, acked, base>> /\ \A e \in Turns : pc[e] # "idle" => pc'[e] # "idle"
    BY <1>12 DEF StoreCheckpoint, TypeOK
  <2>2. Carried
    BY <1>3, <2>1
  <2>3. CASE ~Stores(t)
    BY <1>6, <1>12, <2>2, <2>3, StoreTakes
  <2>4. CASE Stores(t)
    <3>1. PICK e \in Turns : e = cache[conv[t]]
      BY <1>12, <2>4, StoreTakes
    <3>2. pc[e] # "idle" /\ conv[e] = conv[t]
      BY <1>12, <2>4, <3>1, StoreTakes DEF CachePlaced, Stores
    <3>3. /\ Holds(e)' = heap[e].blobs \cup Of(acked[t])
          /\ \A d \in Turns \ {e} : heap'[d] = heap[d]
      BY <1>12, <2>4, <3>1, StoreTakes
    <3>4. \A u \in Holds(e)' : conv'[u] = conv'[e]
      BY <1>2, <1>3, <2>1, <3>2, <3>3
    <3> QED
      BY <1>2, <2>1, <2>2, <3>2, <3>3, <3>4
  <2> QED
    BY <2>3, <2>4
<1>13. CASE UNCHANGED <<heap, turnVars>>
  <2>1. UNCHANGED <<conv, acked, base, heap>>
    BY <1>13
  <2> QED
    BY <1>3, <1>6, <2>1
<1> QED
  BY <1>5, <1>7, <1>8, <1>9, <1>10, <1>11, <1>12, <1>13 DEF Next, Tick, Finished, vars
-----------------------------------------------------------------------------
(* Time, progress and size.                                                *)

LEMMA TimedStep ==
  TypeOK /\ TurnsPlaced /\ CachePlaced /\ Timed /\ [Next]_vars => Timed'
<1> SUFFICES ASSUME TypeOK, TurnsPlaced, CachePlaced, Timed, [Next]_vars PROVE Timed'
  OBVIOUS
<1> USE DEF InFlight
<1>1. \A e \in Turns : heap[e].lastAccess \in Nat /\ began[e] \in Nat
  BY TimesAssumption DEF TypeOK, Entry
<1>2. now \in Nat
  BY TimesAssumption DEF TypeOK
\* A step in which the clock stands still and no access is taken back.
<1>3. ASSUME now' = now,
             \A e \in Turns : heap'[e].lastAccess \in {heap[e].lastAccess, now},
             \A t \in Turns : InFlight(t)' => /\ InFlight(t) /\ entry'[t] = entry[t]
                                              /\ began'[t] = began[t]
      PROVE  Timed'
  <2>1. \A e \in Turns : heap'[e].lastAccess <= now /\ heap[e].lastAccess <= heap'[e].lastAccess
    BY <1>1, <1>2, <1>3 DEF Timed
  <2>2. ASSUME NEW t \in Turns, InFlight(t)'
        PROVE  began'[t] <= heap'[entry'[t]].lastAccess
    <3>1. /\ InFlight(t) /\ entry'[t] = entry[t] /\ began'[t] = began[t] /\ entry[t] \in Turns
      BY <1>3, <2>2 DEF TurnsPlaced
    <3>2. began[t] <= heap[entry[t]].lastAccess
      BY <3>1 DEF Timed
    <3>3. heap'[entry[t]].lastAccess \in Nat
      BY <1>1, <1>2, <1>3, <3>1
    <3> QED
      BY <1>1, <1>3, <2>1, <3>1, <3>2, <3>3
  <2> QED
    BY <1>3, <2>1, <2>2 DEF Timed
<1>4. ASSUME NEW t \in Turns, NEW c \in Convs, Acquire(t, c) PROVE Timed'
  <2>1. PICK e \in Turns : e = EntryFor(t, c)
    BY EntryForType
  <2>2. /\ \A d \in Turns \ {e} : heap'[d] = heap[d]
        /\ heap'[e].lastAccess = now /\ now' = now
    BY <1>4, <2>1, AcquireTakes, TouchedType
  <2>3. \A d \in Turns : heap'[d].lastAccess <= now /\ heap[d].lastAccess <= heap'[d].lastAccess
                           /\ heap'[d].lastAccess \in Nat
    BY <1>1, <1>2, <2>2 DEF Timed
  <2>4. began'[t] = now /\ entry'[t] = e
    BY <1>4, <2>1, AcquireTakes
  <2>5. ASSUME NEW u \in Turns \ {t}, InFlight(u)'
        PROVE  began'[u] <= heap'[entry'[u]].lastAccess
    <3>1. /\ InFlight(u) /\ entry'[u] = entry[u] /\ began'[u] = began[u] /\ entry[u] \in Turns
      BY <1>4, <2>5, AcquireTakes DEF TurnsPlaced
    <3>2. began[u] <= heap[entry[u]].lastAccess
      BY <3>1 DEF Timed
    <3> QED
      BY <1>1, <2>2, <2>3, <3>1, <3>2
  <2> QED
    BY <1>2, <2>2, <2>3, <2>4, <2>5 DEF Timed
<1>5. ASSUME NEW t \in Turns, StoreCheckpoint(t) PROVE Timed'
  <2>1. \A e \in Turns : heap'[e].lastAccess \in {heap[e].lastAccess, now}
    BY <1>5, StoreTakes
  <2>2. now' = now /\ \A u \in Turns : InFlight(u)' => InFlight(u) /\ entry'[u] = entry[u]
                                                          /\ began'[u] = began[u]
    BY <1>5 DEF StoreCheckpoint, TypeOK
  <2> QED
    BY <1>3, <2>1, <2>2
<1>6. ASSUME NEW t \in Turns, ServerSetsBlob(t) PROVE Timed'
  <2>1. \A e \in Turns : heap'[e].lastAccess \in {heap[e].lastAccess, now}
    BY <1>6, SetsBlobTakes
  <2> QED
    BY <1>3, <1>6, <2>1 DEF ServerSetsBlob
<1>7. ASSUME NEW t \in Turns, Build(t) \/ BuildFails(t) PROVE Timed'
  BY <1>3, <1>7 DEF Build, BuildFails, TypeOK
<1>8. ASSUME NEW t \in Turns, Retry(t) \/ \E refs \in SUBSET Turns : ServerAcks(t, refs) PROVE Timed'
  BY <1>3, <1>8 DEF Retry, ServerAcks
<1>9. CASE Tick
  <2>1. now' = now + 1 /\ UNCHANGED <<heap, pc, entry, began>>
    BY <1>9 DEF Tick
  <2>2. \A e \in Turns : heap'[e].lastAccess <= now'
    BY <1>1, <1>2, <2>1 DEF Timed
  <2> QED
    BY <2>1, <2>2 DEF Timed
<1>10. CASE UNCHANGED vars
  BY <1>10 DEF vars, Timed
<1> QED
  BY <1>4, <1>5, <1>6, <1>7, <1>8, <1>9, <1>10 DEF Next, Finished

\* The checkpoint of an entry changes only to what a running turn had
\* acknowledged, and that is no older than what turns that are over made.
LEMMA CheckpointStep ==
  ASSUME TypeOK, TurnsPlaced, NEW t \in Turns, StoreCheckpoint(t), NEW e \in Turns, NEW u \in Turns,
         AtLeast(heap[e].checkpoint, u)
  PROVE  AtLeast(heap'[e].checkpoint, u)
<1>1. CASE heap'[e].checkpoint = heap[e].checkpoint
  BY <1>1 DEF AtLeast
<1>2. CASE heap'[e].checkpoint # heap[e].checkpoint
  <2>1. Stores(t) /\ heap'[e].checkpoint = acked[t]
    BY <1>2, StoreTakes
  <2>2. acked[t] # NoState /\ acked[t].turn = t
    BY <2>1 DEF Stores, TurnsPlaced
  <2>3. t \notin before[u]
    BY DEF StoreCheckpoint, TurnsPlaced
  <2> QED
    BY <2>1, <2>2, <2>3 DEF AtLeast
<1> QED
  BY <1>1, <1>2

LEMMA ProgressStep ==
  TypeOK /\ TurnsPlaced /\ CachePlaced /\ Progress /\ [Next]_vars => Progress'
<1> SUFFICES ASSUME TypeOK, TurnsPlaced, CachePlaced, Progress, [Next]_vars PROVE Progress'
  OBVIOUS
<1> USE NoneIsOther
<1> DEFINE Kept(u) ==
      /\ pc'[u] = "done" /\ cache'[conv'[u]] = entry'[u] => AtLeast(heap'[entry'[u]].checkpoint, u)
      /\ \A t \in Turns : pc'[t] = "acquired" /\ u \in before'[t] /\ entry'[u] = entry'[t] =>
           AtLeast(heap'[entry'[t]].checkpoint, u)
<1>1. SUFFICES ASSUME NEW u \in Turns, acked'[u] # NoState PROVE Kept(u)
  <2>1. TurnsPlaced'
    BY PlacedStep
  <2>2. \A u \in Turns : acked'[u] # NoState => before'[u] = before[u]
    <3> SUFFICES ASSUME NEW u \in Turns, acked'[u] # NoState, before'[u] # before[u] PROVE FALSE
      OBVIOUS
    <3>1. pc[u] = "idle"
      BY ConvKept
    <3>2. acked[u] = NoState
      BY <3>1 DEF TurnsPlaced
    <3> QED
      BY <3>1, <3>2 DEF Next, Acquire, Build, BuildFails, ServerSetsBlob, ServerAcks, Retry,
                        StoreCheckpoint, Tick, Finished, vars, TypeOK
  <2> QED
    BY <1>1, <2>2 DEF Progress, AtLeast
\* A step that leaves the cache, the checkpoints, and u and its observers alone.
<1>2. ASSUME acked'[u] = acked[u], pc'[u] = pc[u],
             UNCHANGED <<cache, conv, entry, before>>,
             \A t \in Turns : pc'[t] = "acquired" => pc[t] = "acquired",
             \A e \in Turns : AtLeast(heap[e].checkpoint, u) => AtLeast(heap'[e].checkpoint, u)
      PROVE  Kept(u)
  <2>1. entry[u] \in Turns \/ pc[u] # "done"
    BY DEF TurnsPlaced
  <2>2. \A t \in Turns : pc[t] = "acquired" => entry[t] \in Turns
    BY DEF TurnsPlaced
  <2> QED
    BY <1>1, <1>2, <2>1, <2>2 DEF Progress
<1>3. ASSUME NEW t0 \in Turns, NEW c \in Convs, Acquire(t0, c) PROVE Kept(u)
  <2>1. PICK e \in Turns : e = EntryFor(t0, c)
    BY EntryForType
  <2>2. /\ acked[u] # NoState /\ pc[u] \in {"running", "done"} /\ u # t0
        /\ entry[u] \in Turns /\ conv[u] \in Convs /\ pc[entry[u]] # "idle" /\ entry[u] # t0
        /\ conv[entry[u]] = conv[u]
    BY <1>1, <1>3, AcquireTakes DEF TurnsPlaced, TypeOK
  <2>3. \A d \in Turns : pc[d] # "idle" => heap'[d].checkpoint = heap[d].checkpoint
    BY <1>3, <2>1, AcquireTakes, TouchedType DEF EntryFor
  <2>4. /\ pc'[u] = pc[u] /\ conv'[u] = conv[u] /\ entry'[u] = entry[u]
    BY <1>3, <2>2, AcquireTakes
  <2>5. entry[u] = e => cache[c] = e /\ conv[u] = c
    BY <2>1, <2>2 DEF EntryFor, CachePlaced
  <2>6. ASSUME pc'[u] = "done", cache'[conv'[u]] = entry'[u]
        PROVE  AtLeast(heap'[entry'[u]].checkpoint, u)
    <3>1. cache[conv[u]] = entry[u]
      <4>1. cache'[conv[u]] = entry[u]
        BY <2>4, <2>6
      <4>2. CASE conv[u] = c
        <5>1. cache'[c] = EntryFor(t0, c)
          BY <1>3, AcquireCaches
        <5>2. entry[u] = e
          BY <2>1, <4>1, <4>2, <5>1
        <5> QED
          BY <2>5, <4>2, <5>2
      <4>3. CASE conv[u] # c
        <5>1. cache'[conv[u]] \in {None, cache[conv[u]]}
          BY <1>3, <2>2, <4>3, AcquireCaches
        <5> QED
          BY <2>2, <4>1, <5>1
      <4> QED
        BY <4>2, <4>3
    <3> QED
      BY <2>2, <2>3, <2>4, <2>6, <3>1 DEF Progress
  <2>7. ASSUME NEW t \in Turns, pc'[t] = "acquired", u \in before'[t], entry'[u] = entry'[t]
        PROVE  AtLeast(heap'[entry'[t]].checkpoint, u)
    <3>1. CASE t = t0
      <4>1. pc[u] = "done" /\ entry[u] = e /\ entry'[t] = e
        BY <1>3, <2>1, <2>4, <2>7, <3>1, AcquireTakes DEF Done
      <4>2. AtLeast(heap[e].checkpoint, u)
        BY <2>2, <2>5, <4>1 DEF Progress
      <4> QED
        BY <2>2, <2>3, <4>1, <4>2
    <3>2. CASE t # t0
      <4>1. pc[t] = "acquired" /\ before'[t] = before[t] /\ entry'[t] = entry[t]
        BY <1>3, <2>7, <3>2, AcquireTakes
      <4> QED
        BY <2>2, <2>3, <2>4, <2>7, <4>1 DEF Progress
    <3> QED
      BY <3>1, <3>2
  <2> QED
    BY <2>6, <2>7
<1>4. ASSUME NEW t \in Turns, Build(t) \/ BuildFails(t) PROVE Kept(u)
  <2>1. acked' = acked /\ pc[t] = "acquired" /\ u # t
    BY <1>1, <1>4 DEF Build, BuildFails, TurnsPlaced
  <2> QED
    BY <1>2, <1>4, <2>1 DEF Build, BuildFails, TypeOK
<1>5. ASSUME NEW t \in Turns, ServerSetsBlob(t) PROVE Kept(u)
  <2>1. \A e \in Turns : heap'[e].checkpoint = heap[e].checkpoint
    BY <1>5, SetsBlobTakes
  <2> QED
    BY <1>2, <1>5, <2>1 DEF ServerSetsBlob
<1>6. ASSUME NEW t \in Turns, Retry(t) \/ \E refs \in SUBSET Turns : ServerAcks(t, refs) PROVE Kept(u)
  <2>1. pc[t] = "running" /\ UNCHANGED <<cache, heap, pc, conv, entry, before>>
          /\ \A v \in Turns \ {t} : acked'[v] = acked[v]
    BY <1>6 DEF Retry, ServerAcks, TypeOK
  <2>2. CASE u = t
    BY <2>1, <2>2 DEF TurnsPlaced
  <2>3. CASE u # t
    BY <1>2, <2>1, <2>3
  <2> QED
    BY <2>2, <2>3
<1>7. ASSUME NEW t0 \in Turns, StoreCheckpoint(t0) PROVE Kept(u)
  <2>1. /\ pc[t0] = "running" /\ UNCHANGED <<cache, conv, entry, before, acked>>
        /\ \A v \in Turns \ {t0} : pc'[v] = pc[v]
        /\ pc'[t0] = "done"
    BY <1>7 DEF StoreCheckpoint, TypeOK
  <2>2. CASE u # t0
    BY <1>2, <1>7, <2>1, <2>2, CheckpointStep
  <2>3. CASE u = t0
    <3>1. \A t \in Turns : u \notin before'[t]
      BY <2>1, <2>3 DEF TurnsPlaced
    <3>2. ASSUME cache'[conv'[u]] = entry'[u] PROVE AtLeast(heap'[entry'[u]].checkpoint, u)
      <4>1. entry[u] \in Turns /\ cache[conv[u]] = entry[u] /\ entry'[u] = entry[u]
        BY <2>1, <2>3, <3>2 DEF TurnsPlaced
      <4>2. Stores(u)
        BY <1>1, <2>1, <4>1 DEF Stores
      <4>3. heap'[entry[u]].checkpoint = acked[u]
        BY <1>7, <2>3, <4>1, <4>2, StoreTakes
      <4>4. acked[u].turn = u /\ u \notin before[u] /\ acked[u] # NoState
        BY <1>1, <2>1 DEF TurnsPlaced
      <4> QED
        BY <4>1, <4>3, <4>4 DEF AtLeast
    <3> QED
      BY <3>1, <3>2
  <2> QED
    BY <2>2, <2>3
<1>8. CASE UNCHANGED <<cache, heap, turnVars>>
  BY <1>2, <1>8
<1> QED
  BY <1>3, <1>4, <1>5, <1>6, <1>7, <1>8 DEF Next, Tick, Finished, vars

LEMMA BuildsStep ==
  TypeOK /\ TurnsPlaced /\ Progress /\ BuildsOnProgress /\ [Next]_vars => BuildsOnProgress'
<1> SUFFICES ASSUME TypeOK, TurnsPlaced, Progress, BuildsOnProgress, [Next]_vars,
                    NEW t \in Turns, NEW u \in Turns, pc'[t] = "running", u \in before'[t],
                    entry'[u] = entry'[t], acked'[u] # NoState
             PROVE  base'[t] # NoState /\ base'[t].turn \notin before'[u]
  BY DEF BuildsOnProgress
<1>1. pc[t] \in {"acquired", "running"}
  <2> USE DEF TypeOK
  <2>1. CASE \E v \in Turns, c \in Convs : Acquire(v, c)
    BY <2>1 DEF Acquire
  <2>2. CASE \E v \in Turns : Build(v) \/ BuildFails(v) \/ StoreCheckpoint(v)
    BY <2>2 DEF Build, BuildFails, StoreCheckpoint
  <2>3. CASE UNCHANGED pc
    BY <2>3
  <2> QED
    BY <2>1, <2>2, <2>3 DEF Next, ServerSetsBlob, ServerAcks, Retry, Tick, Finished, vars
<1>2. before'[t] = before[t] /\ entry'[t] = entry[t]
  BY <1>1, ConvKept
<1>3. pc[u] = "done"
  BY <1>2 DEF TurnsPlaced
<1>4. before'[u] = before[u] /\ entry'[u] = entry[u] /\ acked'[u] = acked[u]
  BY <1>3, ConvKept
     DEF Next, Acquire, Build, BuildFails, ServerSetsBlob, ServerAcks, Retry, StoreCheckpoint,
         Tick, Finished, vars, TypeOK
<1>5. CASE pc[t] = "running"
  <2>1. base'[t] = base[t]
    <3>1. CASE \E v \in Turns : Build(v)
      BY <1>5, <3>1 DEF Build, TypeOK
    <3>2. CASE UNCHANGED base
      BY <3>2
    <3> QED
      BY <3>1, <3>2 DEF Next, Acquire, BuildFails, ServerSetsBlob, ServerAcks, Retry,
                        StoreCheckpoint, Tick, Finished, vars
  <2> QED
    BY <1>2, <1>4, <1>5, <2>1 DEF BuildsOnProgress
<1>6. CASE pc[t] = "acquired"
  <2>1. Build(t)
    BY <1>6 DEF Next, Acquire, Build, BuildFails, ServerSetsBlob, ServerAcks, Retry,
                StoreCheckpoint, Tick, Finished, vars, TypeOK
  <2>2. base'[t] = heap[entry[t]].checkpoint
    BY <2>1 DEF Build, TypeOK
  <2> QED
    BY <1>2, <1>4, <1>6, <2>2 DEF Progress, AtLeast
<1> QED
  BY <1>1, <1>5, <1>6

\* Acquiring leaves as many entries as the limit allows; exactly that many
\* when it evicts one that was not stale.
LEMMA AcquireSize ==
  ASSUME NEW c \in Convs, NEW S \in SUBSET Convs, c \in S, NEW E \in Overflow(c, S)
  PROVE  /\ Cardinality(S \ E) <= MaxEntries
         /\ E # {} => Cardinality(S \ E) = MaxEntries
<1>1. E \subseteq S /\ IsFiniteSet(S) /\ IsFiniteSet(E)
  BY FS_Subset, ConvsAssumption DEF Overflow
<1>2. S \cap E = E
  BY <1>1
<1>3. Cardinality(S \ E) = Cardinality(S) - Cardinality(E)
  BY <1>1, <1>2, FS_Difference
<1>4. Cardinality(S) \in Nat /\ Cardinality(E) \in Nat /\ (Cardinality(E) = 0 <=> E = {})
  BY <1>1, FS_CardinalityType, FS_EmptySet
<1>5. Cardinality(E) = IF Cardinality(S) > MaxEntries THEN Cardinality(S) - MaxEntries ELSE 0
  BY DEF Overflow
<1> QED
  BY <1>3, <1>4, <1>5, MaxEntriesAssumption

LEMMA SizeStep == TypeOK /\ SizeBounded /\ [Next]_vars => SizeBounded'
<1> SUFFICES ASSUME TypeOK, SizeBounded, [Next]_vars PROVE SizeBounded'
  OBVIOUS
<1>1. ASSUME NEW t \in Turns, NEW c \in Convs, Acquire(t, c) PROVE SizeBounded'
  <2> DEFINE S == (Cached \ Stale(c)) \cup {c}
  <2>1. PICK E \in Overflow(c, S) : Cached' = S \ E
    BY <1>1, AcquireCaches
  <2>2. S \in SUBSET Convs /\ c \in S
    BY DEF Cached
  <2> HIDE DEF S
  <2>3. Cardinality(S \ E) <= MaxEntries
    BY <2>1, <2>2, AcquireSize
  <2> QED
    BY <2>1, <2>3 DEF SizeBounded
<1>2. CASE cache' = cache
  BY <1>2 DEF SizeBounded, Cached
<1> QED
  BY <1>1, <1>2 DEF Next, Build, BuildFails, ServerSetsBlob, ServerAcks, Retry, StoreCheckpoint,
                    Tick, Finished, vars
-----------------------------------------------------------------------------
Inv == /\ TypeOK /\ TurnsPlaced /\ CachePlaced /\ Owned /\ Timed /\ Progress
       /\ SizeBounded /\ BuildsOnProgress

LEMMA Invariance == Spec => []Inv
<1>1. Init => Inv
  BY InitInv DEF Inv
<1>2. Inv /\ [Next]_vars => Inv'
  BY TypeStep, PlacedStep, OwnedStep, TimedStep, ProgressStep, SizeStep, BuildsStep DEF Inv
<1> QED
  BY <1>1, <1>2, PTL DEF Spec

\* The cache, the entries and the turns keep their types.
THEOREM TypeCorrect == Spec => []TypeOK
<1>1. Inv => TypeOK
  BY DEF Inv
<1> QED
  BY <1>1, Invariance, PTL

\* "a long running host cannot grow this cache without limit"
\* (conversation.go:37-38).
THEOREM SizeStaysBounded == Spec => []SizeBounded
<1>1. Inv => SizeBounded
  BY DEF Inv
<1> QED
  BY <1>1, Invariance, PTL

\* A turn builds on the progress of those before it (conversation.go:104-105).
THEOREM TurnsBuildOnProgress == Spec => []BuildsOnProgress
<1>1. Inv => BuildsOnProgress
  BY DEF Inv
<1> QED
  BY <1>1, Invariance, PTL

\* However turns of different conversations overlap, none reads what another
\* conversation has left.
THEOREM ConversationsStayApart == Spec => []ConversationsDoNotMix
<1>1. ASSUME TypeOK, TurnsPlaced, Owned PROVE ConversationsDoNotMix
  <2> SUFFICES ASSUME NEW t \in Turns, entry[t] # None,
                      NEW u \in heap[entry[t]].blobs \cup heap[entry[t]].checkpoint.refs
                                  \cup ({heap[entry[t]].checkpoint.turn} \ {None})
               PROVE  conv[u] = conv[t]
    BY DEF ConversationsDoNotMix
  <2>1. entry[t] \in Turns /\ conv[entry[t]] = conv[t]
    BY <1>1 DEF TurnsPlaced
  <2> QED
    BY <1>1, <2>1 DEF Owned, Of
<1>2. Inv => ConversationsDoNotMix
  BY <1>1 DEF Inv
<1> QED
  BY <1>2, Invariance, PTL

\* Eviction is earned: an entry leaves only for its age or for the limit, and
\* that of a turn in flight only for the limit or when the turn is older than
\* the TTL.
THEOREM EvictionStaysEarned == Spec => EvictionIsEarned
<1> DEFINE Left(c) == \/ now - LastAccess(c) > TTL
                      \/ Cardinality({d \in Cached' : heap'[cache'[d]].lastAccess >= LastAccess(c)})
                           >= MaxEntries
           Earned == /\ \A c \in Cached : cache'[c] = None => Left(c)
                     /\ \A t \in Turns :
                          InFlight(t) /\ cache[conv[t]] = entry[t] /\ cache'[conv[t]] # entry[t] =>
                            Cardinality(Cached') = MaxEntries \/ now - began[t] > TTL
<1>1. ASSUME Inv, NEW t0 \in Turns, NEW c \in Convs, Acquire(t0, c) PROVE Earned
  <2> USE NoneIsOther
  <2> DEFINE S == (Cached \ Stale(c)) \cup {c}
  <2>1. TypeOK /\ TurnsPlaced /\ CachePlaced /\ Timed
    BY <1>1 DEF Inv
  <2>2. PICK E \in Overflow(c, S) : Cached' = S \ E /\ Cached \ Cached' \subseteq Stale(c) \cup E
    BY <1>1, <2>1, AcquireCaches
  <2>3. S \in SUBSET Convs /\ c \in S /\ E \subseteq S \ {c}
    BY <2>2 DEF Cached, Overflow
  <2>4. E # {} => Cardinality(Cached') = MaxEntries
    <3> HIDE DEF S
    <3> QED
      BY <2>2, <2>3, AcquireSize
  <2>5. PICK e \in Turns : e = EntryFor(t0, c)
    BY <2>1, EntryForType
  <2>6. heap'[e].lastAccess = now /\ \A d \in Turns \ {e} : heap'[d] = heap[d]
    BY <1>1, <2>1, <2>5, AcquireTakes, TouchedType
  <2>7. ASSUME NEW d \in E PROVE \A k \in Cached' : heap'[cache'[k]].lastAccess >= LastAccess(d)
    <3> SUFFICES ASSUME NEW k \in Cached' PROVE heap'[cache'[k]].lastAccess >= LastAccess(d)
      OBVIOUS
    <3>1. d \in Cached /\ k \in Convs
      BY <2>2, <2>3 DEF Cached
    <3>2. LastAccess(d) <= now /\ LastAccess(d) \in Nat /\ now \in Nat
      BY <2>1, <3>1 DEF Timed, LastAccess, Cached, TypeOK, Entry
    <3>3. CASE k = c
      <4>1. cache'[k] = e
        BY <1>1, <2>1, <2>5, <3>3, AcquireCaches
      <4> QED
        BY <2>6, <3>2, <4>1
    <3>4. CASE k # c
      <4>1. k \in S \ (E \cup {c})
        BY <2>2, <3>4
      <4>2. LastAccess(d) <= LastAccess(k)
        BY <2>2, <4>1 DEF Overflow
      <4>3. k \in Cached /\ cache'[k] = cache[k]
        BY <1>1, <2>1, <3>1, <3>4, <4>1, AcquireCaches DEF Cached
      <4>4. cache[k] \in Turns \ {e}
        BY <1>1, <2>1, <2>5, <3>1, <3>4, <4>3 DEF Cached, CachePlaced, EntryFor, Acquire, TypeOK
      <4>5. heap'[cache'[k]].lastAccess = LastAccess(k) /\ LastAccess(k) \in Nat
        BY <2>1, <2>6, <4>3, <4>4 DEF LastAccess, TypeOK, Entry
      <4> QED
        BY <3>2, <4>2, <4>5
    <3> QED
      BY <3>3, <3>4
  <2>8. ASSUME NEW d \in Cached, cache'[d] = None PROVE d \in Stale(c) \cup E
    BY <2>2, <2>8 DEF Cached
  <2>9. ASSUME NEW d \in Cached, cache'[d] = None PROVE Left(d)
    <3>1. CASE d \in Stale(c)
      BY <3>1 DEF Stale
    <3>2. CASE d \in E
      <4>1. {k \in Cached' : heap'[cache'[k]].lastAccess >= LastAccess(d)} = Cached'
        BY <2>7, <3>2
      <4>2. Cardinality(Cached') = MaxEntries
        BY <2>4, <3>2
      <4>3. MaxEntries >= MaxEntries
        BY MaxEntriesAssumption
      <4> QED
        BY <4>1, <4>2, <4>3, Zenon
    <3> QED
      BY <2>8, <2>9, <3>1, <3>2
  <2>10. ASSUME NEW t \in Turns, InFlight(t), cache[conv[t]] = entry[t], cache'[conv[t]] # entry[t]
         PROVE  Cardinality(Cached') = MaxEntries \/ now - began[t] > TTL
    <3>1. conv[t] \in Convs /\ entry[t] \in Turns
      BY <2>1, <2>10 DEF TurnsPlaced, InFlight
    <3>2. conv[t] # c
      BY <1>1, <2>1, <2>10, <3>1, AcquireCaches DEF EntryFor
    <3>3. conv[t] \in Cached /\ cache'[conv[t]] = None
      BY <1>1, <2>1, <2>10, <3>1, <3>2, AcquireCaches DEF Cached
    <3>4. began[t] <= LastAccess(conv[t])
      BY <2>1, <2>10 DEF Timed, LastAccess
    <3>5. began[t] \in Nat /\ now \in Nat /\ LastAccess(conv[t]) \in Nat
      BY <2>1, <2>10, <3>1 DEF TypeOK, Entry, LastAccess
    <3>6. conv[t] \in Stale(c) => now - began[t] > TTL
      BY <3>4, <3>5, TimesAssumption DEF Stale
    <3> QED
      BY <2>4, <2>8, <3>3, <3>6
  <2> QED
    BY <2>9, <2>10
<1>2. ASSUME Inv, UNCHANGED cache, UNCHANGED conv \/ UNCHANGED vars PROVE Earned
  BY <1>2 DEF Cached
<1>3. Inv /\ [Next]_vars => [Earned]_vars
  BY <1>1, <1>2 DEF Next, Build, BuildFails, ServerSetsBlob, ServerAcks, Retry, StoreCheckpoint,
                    Tick, Finished, vars
<1> QED
  BY <1>3, Invariance, PTL DEF Spec, EvictionIsEarned
=============================================================================
