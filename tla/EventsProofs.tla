---------------------------- MODULE EventsProofs ----------------------------
(***************************************************************************)
(* Proofs about what stands behind input events, for every number of       *)
(* handlers, devices and slots, and every bound of the queue.              *)
(*                                                                         *)
(* Event dispatch: the registry counts its handlers and keeps the poll     *)
(* timers with them, also while the queue's notification and the handlers  *)
(* it calls come between the statements of a registration or of a removal; *)
(* the walk over the list keeps its footing; and every event is told to    *)
(* those that listened when it was queued, once, and to nobody else.  The  *)
(* buttons of a pointer: the listeners know what the handler knows, except *)
(* what memory ran out for, and clicks are earned.  The devices: a poll    *)
(* asks those that are there, whichever lookups fail.  The pointer shim:   *)
(* movement is told once, and a hook finds the slot it belongs to, though  *)
(* devices leave unannounced.                                              *)
(***************************************************************************)
EXTENDS MCEvents, SequenceLemmas

----------------------------------------------------------------------------
(* The registry. *)

Info == [Registered : BOOLEAN, Ready : BOOLEAN, EventType : SUBSET Kind]
Timer == [current : BOOLEAN, live : 0 .. MaxTimers]
Number == 0 .. CounterRange - 1

RegistryShape ==
  /\ mEventHandles \in Seq(Handle) /\ IsInjective(mEventHandles)
  /\ info \in [Handle -> Info]
  /\ \A h \in Handle : h \notin Listed \cup InFlight => info[h] = Freed
  /\ timers \in [Kind -> Timer]
  /\ mNumberOfEventHandles \in Number
  /\ handleLost \in BOOLEAN /\ miscounted \in BOOLEAN /\ pollsCut \in BOOLEAN

RegistryInv == RegistryShape /\ CounterMatchesList /\ PollsFollowHandlers

\* Where the application can be in a call of its own.
Calls ==
  [pc : {"idle", "polls", "cancel"}] \cup [pc : {"sweep"}, at : Handle]
    \cup [pc : {"free"}, at : Handle, then : SUBSET Handle]
    \cup [pc : {"allocate"}, first : BOOLEAN]
    \cup [pc : {"count"}, h : Handle, n : Number]
    \cup [pc : {"link"}, h : Handle, tail : SUBSET Handle] \cup [pc : {"back"}, h : Handle]
    \cup [pc : {"find"}, at : Handle, names : SUBSET Handle]
    \cup [pc : {"uncount"}, at : Handle, names : SUBSET Handle, n : Number]

\* What the application knows of the entry it frees, and of the one it makes.
CallKnows ==
  ~wild => /\ app.pc = "free" => ~info[app.at].Registered /\ app.at \notin app.then
           /\ app.pc \in {"count", "link"} => info[app.h].Registered

\* Between the application's look at the counter and its increment the polls run that the
\* new handler needs, unless the last of the others left meanwhile; and a callback that
\* leaves nobody registered has cancelled them.
NeedsPolls == app.pc = "allocate" \/ (app.pc = "count" /\ mNumberOfEventHandles = app.n)
PollsKnown ==
  ~miscounted =>
    /\ ~selfReplaced => /\ NeedsPolls /\ ~pollsCut => timers["key"].current
                        /\ app.pc = "allocate" /\ ~app.first /\ mNumberOfEventHandles = 0
                             /\ ~handleLost => \A k \in Kind : ~timers[k].current
    /\ app.pc = "count" /\ app.n = 0 => drain.pc # "callback" /\ Registered = {}
    /\ drain.pc = "callback" /\ mNumberOfEventHandles = 0 /\ ~handleLost =>
         \A k \in Kind : ~timers[k].current

CallInv == app \in Calls /\ CallKeepsFooting /\ CallKnows /\ PollsKnown

LEMMA RegisteredFacts ==
  ASSUME RegistryShape
  PROVE  /\ Registered \subseteq Listed /\ Listed \subseteq Handle
         /\ IsFiniteSet(Registered) /\ Cardinality(Registered) \in Nat
         /\ Cardinality(Registered) <= Cardinality(Handle)
         /\ Cardinality(Handle) \in Nat /\ IsFiniteSet(Handle)
<1>1. Listed \subseteq Handle /\ Registered \subseteq Listed
  BY DEF RegistryShape, Listed, Registered, Range
<1>2. IsFiniteSet(Handle)
  BY EventAssumption
<1> QED
  BY <1>1, <1>2, FS_Subset, FS_CardinalityType

\* A list without some of its entries keeps the others in their order.
LEMMA KeepsFacts ==
  ASSUME RegistryShape, NEW T
  PROVE  /\ Only(mEventHandles, T) \in Seq(Handle) /\ IsInjective(Only(mEventHandles, T))
         /\ Range(Only(mEventHandles, T)) = Listed \cap T
         /\ \A p \in DOMAIN mEventHandles : mEventHandles[p] \in T =>
              \E q \in DOMAIN Only(mEventHandles, T) :
                /\ Only(mEventHandles, T)[q] = mEventHandles[p]
                /\ Before(Only(mEventHandles, T), q) = Before(mEventHandles, p) \cap T
                /\ After(Only(mEventHandles, T), q) = After(mEventHandles, p) \cap T
<1> DEFINE kept == Only(mEventHandles, T)
<1>1. mEventHandles \in Seq(Handle) /\ IsInjective(mEventHandles)
  BY DEF RegistryShape
<1>2. DOMAIN mEventHandles = 1 .. Len(mEventHandles)
  BY <1>1
<1>3. OnlyRight(Handle, mEventHandles, T, kept, Len(mEventHandles))
  BY <1>1, OnlyFacts
<1>4. {mEventHandles[i] : i \in 1 .. Len(mEventHandles)} = Listed
  BY <1>2 DEF Listed, Range
<1> HIDE DEF kept
<1> QED
  BY <1>2, <1>3, <1>4 DEF OnlyRight, After, kept

\* The list keeps those registered, in their order.
LEMMA KeptFacts ==
  ASSUME RegistryShape
  PROVE  /\ Kept \in Seq(Handle) /\ IsInjective(Kept) /\ Range(Kept) = Registered
         /\ \A p \in DOMAIN mEventHandles : mEventHandles[p] \in Registered =>
              \E q \in DOMAIN Kept :
                /\ Kept[q] = mEventHandles[p]
                /\ Before(Kept, q) = Before(mEventHandles, p) \cap Registered
                /\ After(Kept, q) = After(mEventHandles, p) \cap Registered
<1>1. Listed \cap Registered = Registered
  BY DEF Registered
<1> QED
  BY <1>1, KeepsFacts DEF Kept

\* A registration frees the entries that wait for it and puts the new handle behind the others.
LEMMA RelistFacts ==
  ASSUME RegistryShape, NEW h \in Handle \ (Registered \cup InFlight),
         NEW types \in SUBSET Kind, NEW ok \in BOOLEAN, Relist(h, types, ok), UNCHANGED app
  PROVE  /\ mEventHandles' \in Seq(Handle) /\ IsInjective(mEventHandles')
         /\ mEventHandles' = IF ok THEN Append(Kept, h) ELSE Kept
         /\ info' \in [Handle -> Info]
         /\ Registered' = IF ok THEN Registered \cup {h} ELSE Registered
         /\ Listed' = Registered' /\ InFlight' = InFlight
         /\ \A g \in Handle : g \notin Listed' \cup InFlight' => info'[g] = Freed
         /\ \A g \in Registered \cup (InFlight \cap Handle) : info'[g] = info[g]
         /\ ok => ~info'[h].Ready
         /\ wild' \in BOOLEAN /\ (~wild' => Held \subseteq Registered)
<1>1. /\ Kept \in Seq(Handle) /\ IsInjective(Kept) /\ Range(Kept) = Registered
      /\ DOMAIN Kept = 1 .. Len(Kept) /\ Len(Kept) \in Nat
  BY KeptFacts, LenProperties
<1>2. mEventHandles' = IF ok THEN Append(Kept, h) ELSE Kept
  BY DEF Relist
<1>3. \A i \in 1 .. Len(Kept) : Kept[i] # h
  BY <1>1 DEF Range
<1>4. mEventHandles' \in Seq(Handle) /\ IsInjective(mEventHandles')
  BY <1>1, <1>2, <1>3, AppendNewInjective, AppendFacts
<1>5. Listed' = IF ok THEN Registered \cup {h} ELSE Registered
  <2>1. CASE ok
    <3>1. /\ DOMAIN Append(Kept, h) = 1 .. (Len(Kept) + 1)
          /\ \A i \in 1 .. Len(Kept) : Append(Kept, h)[i] = Kept[i]
          /\ Append(Kept, h)[Len(Kept) + 1] = h
      BY <1>1, AppendFacts
    <3>2. 1 .. (Len(Kept) + 1) = (1 .. Len(Kept)) \cup {Len(Kept) + 1}
      BY <1>1
    <3>3. Range(Append(Kept, h)) = Range(Kept) \cup {h}
      BY <1>1, <3>1, <3>2 DEF Range
    <3> QED
      BY <1>1, <1>2, <2>1, <3>3 DEF Listed
  <2>2. CASE ~ok
    BY <1>1, <1>2, <2>2 DEF Listed
  <2> QED
    BY <2>1, <2>2
<1>6. \A g \in Handle : info'[g] = IF ok /\ g = h THEN New(types)
                                   ELSE IF g \in Registered \cup InFlight THEN info[g] ELSE Freed
  BY DEF Relist
<1>7. info' \in [Handle -> Info]
  <2>1. \A g \in Handle : info'[g] \in Info
    <3>1. Freed \in Info /\ New(types) \in Info
      BY DEF Info, Freed, New
    <3>2. \A g \in Handle : info[g] \in Info
      BY DEF RegistryShape
    <3> QED
      BY <1>6, <3>1, <3>2
  <2> QED
    BY <2>1 DEF Relist
<1>8. Registered' = Listed'
  <2>1. \A g \in Listed' : info'[g].Registered
    <3>1. \A g \in Registered : g \in Handle /\ info[g].Registered
      BY RegisteredFacts DEF Registered
    <3> QED
      BY <1>5, <1>6, <3>1 DEF New
  <2> QED
    BY <2>1 DEF Registered
<1>9. InFlight' = InFlight
  BY DEF InFlight
<1>10. \A g \in Handle : g \notin Listed' \cup InFlight' => info'[g] = Freed
  BY <1>5, <1>6, <1>9
<1>11. /\ \A g \in Registered \cup (InFlight \cap Handle) : info'[g] = info[g]
       /\ ok => ~info'[h].Ready
  BY <1>6, RegisteredFacts DEF New
<1>12. wild' \in BOOLEAN /\ (~wild' => Held \subseteq Registered)
  BY DEF Relist
<1> QED
  BY <1>2, <1>4, <1>5, <1>7, <1>8, <1>9, <1>10, <1>11, <1>12

LEMMA PollsCreatedFacts ==
  ASSUME timers \in [Kind -> Timer], NEW outcome \in Outcome,
         outcome # "noPointerTimer" => \A k \in Kind : timers[k].live < MaxTimers,
         \A k \in Kind : timers[k].current => timers[k].live > 0
  PROVE  /\ PollsCreated(outcome) \in [Kind -> Timer]
         /\ \A k \in Kind : PollsCreated(outcome)[k].current => PollsCreated(outcome)[k].live > 0
         /\ outcome \in {"ok", "noHandle"} => PollsCreated(outcome)["key"].current
         /\ (\A k \in Kind : ~timers[k].current /\ timers[k].live = 0) =>
              \A k \in Kind : /\ PollsCreated(outcome)[k].live =
                                   IF PollsCreated(outcome)[k].current THEN 1 ELSE 0
                              /\ PollsCreated(outcome)[k].current => outcome \in {"ok", "noHandle"}
<1> DEFINE p == timers["pointer"]
           k == timers["key"]
           Both(a, b) == [x \in Kind |-> IF x = "pointer" THEN a ELSE b]
           yes == outcome \in {"ok", "noHandle"}
<1>1. /\ p.current \in BOOLEAN /\ p.live \in Nat /\ p.live <= MaxTimers
      /\ k.current \in BOOLEAN /\ k.live \in Nat /\ k.live <= MaxTimers
      /\ p.current => p.live > 0
      /\ k.current => k.live > 0
      /\ outcome # "noPointerTimer" => p.live < MaxTimers /\ k.live < MaxTimers
      /\ MaxTimers \in Nat
  BY EventAssumption DEF Kind, Timer
<1>2. timers = Both(p, k) /\ k \in Timer
  BY DEF Kind
<1>3. Created(p, FALSE) = [current |-> FALSE, live |-> p.live]
  BY DEF Created
<1>4. Created(p, TRUE) = [current |-> TRUE, live |-> p.live + 1]
  BY DEF Created
<1>5. Cancelled(Created(p, TRUE)) = [current |-> FALSE, live |-> p.live]
  <2>1. PICK n \in Nat : p.live = n
    BY <1>1
  <2>2. PICK m \in Nat : m = n + 1
    OBVIOUS
  <2>3. Cancelled([current |-> TRUE, live |-> m]) = [current |-> FALSE, live |-> m - 1]
    BY DEF Cancelled
  <2>4. m - 1 = n
    BY <2>2
  <2> QED
    BY <1>4, <2>1, <2>2, <2>3, <2>4
<1>6. \E a, b \in Timer :
        /\ PollsCreated(outcome) = Both(a, b)
        /\ a.current => yes /\ a.live > 0
        /\ b.current => b.live > 0
        /\ yes => b.current /\ a.current /\ a.live = p.live + 1 /\ b.live = k.live + 1
        /\ ~yes => a.live = p.live /\ b.live = k.live /\ (b.current => k.current)
  <2>1. CASE outcome = "noPointerTimer"
    <3> DEFINE a == [current |-> FALSE, live |-> p.live]
    <3>1. a \in Timer
      BY <1>1 DEF Timer
    <3>2. PollsCreated(outcome) = Both(a, k)
      BY <1>2, <1>3, <2>1 DEF PollsCreated, Kind
    <3> QED
      BY <1>1, <1>2, <2>1, <3>1, <3>2
  <2>2. CASE outcome = "noKeyMap"
    <3> DEFINE a == [current |-> FALSE, live |-> p.live]
    <3>1. a \in Timer
      BY <1>1 DEF Timer
    <3>2. PollsCreated(outcome) = Both(a, k)
      BY <1>2, <1>5, <2>2 DEF PollsCreated, Kind
    <3> QED
      BY <1>1, <1>2, <2>2, <3>1, <3>2
  <2>3. CASE outcome = "noKeyTimer"
    <3> DEFINE a == [current |-> FALSE, live |-> p.live]
               b == [current |-> FALSE, live |-> k.live]
    <3>1. a \in Timer /\ b \in Timer
      BY <1>1 DEF Timer
    <3>2. Created(k, FALSE) = b
      BY DEF Created
    <3>3. PollsCreated(outcome) = Both(a, b)
      BY <1>2, <1>5, <2>3, <3>2 DEF PollsCreated, Kind
    <3> QED
      BY <1>1, <1>2, <2>3, <3>1, <3>3
  <2>4. CASE yes
    <3> DEFINE a == [current |-> TRUE, live |-> p.live + 1]
               b == [current |-> TRUE, live |-> k.live + 1]
    <3>1. a \in Timer /\ b \in Timer
      BY <1>1, <2>4 DEF Timer
    <3>2. Created(k, TRUE) = b
      BY DEF Created
    <3>3. PollsCreated(outcome) = Both(a, b)
      BY <1>2, <1>4, <2>4, <3>2 DEF PollsCreated, Kind
    <3> QED
      BY <1>1, <2>4, <3>1, <3>3
  <2> QED
    BY <2>1, <2>2, <2>3, <2>4 DEF Outcome
<1>7. PICK a, b \in Timer :
        /\ PollsCreated(outcome) = Both(a, b)
        /\ a.current => yes /\ a.live > 0
        /\ b.current => b.live > 0
        /\ yes => b.current /\ a.current /\ a.live = p.live + 1 /\ b.live = k.live + 1
        /\ ~yes => a.live = p.live /\ b.live = k.live /\ (b.current => k.current)
  BY <1>6
<1>8. a.current \in BOOLEAN /\ b.current \in BOOLEAN /\ Both(a, b) \in [Kind -> Timer]
  BY DEF Timer
<1>9. Both(a, b)["pointer"] = a /\ Both(a, b)["key"] = b
  BY DEF Kind
<1> HIDE DEF Both
<1> QED
  BY <1>1, <1>7, <1>8, <1>9 DEF Kind

\* The timers of both kinds after the last handler is gone.
LEMMA CancelledFacts ==
  ASSUME NEW t \in Timer, t.current => t.live > 0
  PROVE  /\ Cancelled(t) \in Timer /\ ~Cancelled(t).current
         /\ (t.live = IF t.current THEN 1 ELSE 0) => Cancelled(t).live = 0
<1>1. t.current \in BOOLEAN /\ t.live \in 0 .. MaxTimers /\ MaxTimers \in Nat
  BY EventAssumption DEF Timer
<1>2. t.current => t.live - 1 \in 0 .. MaxTimers
  BY <1>1
<1> QED
  BY <1>1, <1>2 DEF Cancelled, Timer

\* A registration, whatever fails in it, leaves the registry in order; the handlers that
\* were registered stay so, and the new one waits for the next wake-up.
\* The counter while it is right, and how far it is from its limit.
LEMMA CounterFacts ==
  ASSUME RegistryInv, ~miscounted
  PROVE  /\ mNumberOfEventHandles \in Nat /\ CounterRange \in Nat
         /\ Cardinality(Registered) \in Nat /\ IsFiniteSet(Registered)
         /\ app.pc \in {"link", "uncount"} =>
              mNumberOfEventHandles = Cardinality(Registered) + 1
         /\ app.pc \notin {"link", "uncount"} => mNumberOfEventHandles = Cardinality(Registered)
         /\ Registered # {} => mNumberOfEventHandles > 0
         /\ mNumberOfEventHandles = 0 => Registered = {}
         /\ Registered # Handle => mNumberOfEventHandles + 1 < CounterRange
<1>1. /\ mNumberOfEventHandles \in Nat /\ CounterRange \in Nat
      /\ CounterRange > Cardinality(Handle) + 1
  BY EventAssumption DEF RegistryInv, RegistryShape, Number
<1>2. /\ Registered \subseteq Handle /\ IsFiniteSet(Registered) /\ Cardinality(Registered) \in Nat
      /\ Cardinality(Handle) \in Nat /\ IsFiniteSet(Handle)
  BY RegisteredFacts DEF RegistryInv
<1>3. /\ app.pc \in {"link", "uncount"} => mNumberOfEventHandles = Cardinality(Registered) + 1
      /\ app.pc \notin {"link", "uncount"} => mNumberOfEventHandles = Cardinality(Registered)
  BY <1>2 DEF RegistryInv, CounterMatchesList
<1>4. Registered # {} => Cardinality(Registered) # 0
  BY <1>2, FS_EmptySet
<1>5. Registered # Handle => Cardinality(Registered) + 1 <= Cardinality(Handle)
  <2> SUFFICES ASSUME Registered # Handle PROVE Cardinality(Registered) + 1 <= Cardinality(Handle)
    OBVIOUS
  <2>1. PICK h \in Handle : h \notin Registered
    BY <1>2
  <2>2. Cardinality(Registered \cup {h}) = Cardinality(Registered) + 1
    BY <1>2, <2>1, FS_AddElement
  <2>3. Cardinality(Registered \cup {h}) <= Cardinality(Handle)
    BY <1>2, FS_Subset
  <2> QED
    BY <2>2, <2>3
<1> QED
  BY <1>1, <1>2, <1>3, <1>4, <1>5

\* A callback's registration, whatever fails in it, leaves the registry in order; the
\* handlers that were registered stay so, and the new one waits for the next wake-up.
LEMMA RegisterFacts ==
  ASSUME RegistryInv, CallInv, ~wild, drain.pc = "callback",
         NEW h \in Handle, NEW types \in SUBSET Kind, NEW outcome \in Outcome,
         EventRegisterHandler(h, types, outcome),
         UNCHANGED <<app, drain, miscounted>>,
         selfReplaced' = (selfReplaced \/ drain.at \notin Registered)
  PROVE  /\ RegistryInv' /\ CallInv' /\ h \notin Registered
         /\ \/ Registered' = Registered /\ mEventHandles' = Kept
            \/ /\ Registered' = Registered \cup {h} /\ mEventHandles' = Append(Kept, h)
               /\ ~info'[h].Ready
         /\ \A g \in Registered : info'[g] = info[g]
         /\ wild' \in BOOLEAN
<1> DEFINE first == mNumberOfEventHandles = 0
           ok == (first => outcome \in {"ok", "noHandle"}) /\ outcome # "noHandle"
<1>1. /\ h \in Handle \ (Registered \cup InFlight) /\ ok \in BOOLEAN
      /\ first /\ outcome # "noPointerTimer" => \A k \in Kind : timers[k].live < MaxTimers
      /\ ~first => outcome \in {"ok", "noHandle"}
      /\ Relist(h, types, ok)
      /\ timers' = IF first THEN PollsCreated(outcome) ELSE timers
      /\ pollsCut' = (pollsCut /\ ~first)
      /\ mNumberOfEventHandles' = IF ok THEN Up(mNumberOfEventHandles)
                                        ELSE mNumberOfEventHandles
      /\ handleLost' = (handleLost \/ (first /\ outcome = "noHandle"))
      /\ UNCHANGED app
  BY DEF EventRegisterHandler
<1>2. RegistryShape /\ mNumberOfEventHandles \in Number /\ app \in Calls
  BY DEF RegistryInv, RegistryShape, CallInv
<1>3. /\ mEventHandles' \in Seq(Handle) /\ IsInjective(mEventHandles')
      /\ mEventHandles' = IF ok THEN Append(Kept, h) ELSE Kept
      /\ info' \in [Handle -> Info]
      /\ Registered' = IF ok THEN Registered \cup {h} ELSE Registered
      /\ Listed' = Registered' /\ InFlight' = InFlight
      /\ \A g \in Handle : g \notin Listed' \cup InFlight' => info'[g] = Freed
      /\ \A g \in Registered \cup (InFlight \cap Handle) : info'[g] = info[g]
      /\ ok => ~info'[h].Ready
      /\ wild' \in BOOLEAN /\ (~wild' => Held \subseteq Registered)
  <2> HIDE DEF ok
  <2> QED
    BY <1>1, <1>2, RelistFacts
<1> HIDE DEF ok
<1>4. CounterRange \in Nat /\ mNumberOfEventHandles' \in Number
  BY <1>1, <1>2, EventAssumption DEF Up, Number
<1>5. ~miscounted => /\ ok => mNumberOfEventHandles' = mNumberOfEventHandles + 1
                     /\ ~ok => mNumberOfEventHandles' = mNumberOfEventHandles
                     /\ mNumberOfEventHandles \in Nat
  <2> SUFFICES ASSUME ~miscounted
               PROVE  /\ ok => mNumberOfEventHandles' = mNumberOfEventHandles + 1
                      /\ ~ok => mNumberOfEventHandles' = mNumberOfEventHandles
                      /\ mNumberOfEventHandles \in Nat
    OBVIOUS
  <2>1. /\ mNumberOfEventHandles + 1 < CounterRange
        /\ mNumberOfEventHandles \in Nat /\ CounterRange \in Nat
    BY <1>1, CounterFacts
  <2> QED
    BY <1>1, <2>1 DEF Up
<1>6. CounterMatchesList'
  <2> SUFFICES ASSUME ~miscounted PROVE CounterMatchesList'
    BY DEF CounterMatchesList
  <2>1. Cardinality(Registered \cup {h}) = Cardinality(Registered) + 1
    BY <1>1, CounterFacts, FS_AddElement
  <2>2. /\ app.pc \in {"link", "uncount"} =>
             mNumberOfEventHandles = Cardinality(Registered) + 1
        /\ app.pc \notin {"link", "uncount"} => mNumberOfEventHandles = Cardinality(Registered)
        /\ Cardinality(Registered) \in Nat
    BY CounterFacts
  <2>3. CASE ok
    BY <1>3, <1>5, <2>1, <2>2, <2>3 DEF CounterMatchesList
  <2>4. CASE ~ok
    BY <1>3, <1>5, <2>2, <2>4 DEF CounterMatchesList
  <2> QED
    BY <2>3, <2>4
<1>7. timers \in [Kind -> Timer] /\ \A k \in Kind : timers[k].current => timers[k].live > 0
  BY <1>2 DEF RegistryInv, RegistryShape, PollsFollowHandlers
<1>8. first => (ok <=> outcome = "ok")
  BY DEF ok, Outcome
<1>9. ~miscounted /\ first => Registered = {} /\ app.pc \notin {"link", "uncount"}
  BY CounterFacts
<1>10. handleLost' \in BOOLEAN /\ pollsCut' \in BOOLEAN /\ wild' \in BOOLEAN
       /\ miscounted' \in BOOLEAN
  BY <1>1, <1>2, <1>3 DEF RegistryShape
<1>11. CallKeepsFooting' /\ CallKnows'
  <2> SUFFICES ASSUME ~wild' PROVE CallKeepsFooting' /\ CallKnows'
    BY DEF CallKeepsFooting, CallKnows
  <2>1. Held \subseteq Registered /\ Held' = Held
    BY <1>3 DEF Held
  <2>2. Held' \subseteq Listed' /\ InFlight' \cap Listed' = {}
    <3>1. InFlight \cap Registered = {} /\ Registered \subseteq Registered'
      BY <1>3 DEF CallInv, CallKeepsFooting, Registered
    <3> QED
      BY <1>1, <1>3, <2>1, <3>1
  <2>3. app.pc # "free"
    <3> SUFFICES ASSUME app.pc = "free" PROVE FALSE
      OBVIOUS
    <3>1. app.at \in Held
      BY DEF Held
    <3> QED
      BY <2>1, <3>1 DEF CallInv, CallKnows, Registered
  <2>4. app.pc \in {"count", "link"} => info'[app.h] = info[app.h]
    <3> SUFFICES ASSUME app.pc \in {"count", "link"} PROVE info'[app.h] = info[app.h]
      OBVIOUS
    <3>1. app.h \in InFlight /\ app.h \in Handle
      BY <1>2 DEF InFlight, Calls
    <3> QED
      BY <1>3, <3>1
  <2> QED
    BY <2>2, <2>3, <2>4 DEF CallInv, CallKnows, CallKeepsFooting
<1>12. CASE first
  <2>1. /\ PollsCreated(outcome) \in [Kind -> Timer]
        /\ \A k \in Kind : PollsCreated(outcome)[k].current => PollsCreated(outcome)[k].live > 0
        /\ outcome \in {"ok", "noHandle"} => PollsCreated(outcome)["key"].current
        /\ (\A k \in Kind : ~timers[k].current /\ timers[k].live = 0) =>
             \A k \in Kind : /\ PollsCreated(outcome)[k].live =
                                  IF PollsCreated(outcome)[k].current THEN 1 ELSE 0
                             /\ PollsCreated(outcome)[k].current => outcome \in {"ok", "noHandle"}
    BY <1>1, <1>7, <1>12, PollsCreatedFacts
  <2>2. timers' = PollsCreated(outcome) /\ ~pollsCut'
    BY <1>1, <1>12
  <2>3. ~miscounted /\ ~handleLost => \A k \in Kind : ~timers[k].current /\ timers[k].live = 0
    <3>1. ~miscounted /\ ~handleLost =>
            \A k \in Kind : ~timers[k].current /\ timers[k].live = IF timers[k].current THEN 1 ELSE 0
      BY <1>12 DEF RegistryInv, PollsFollowHandlers, CallInv, PollsKnown
    <3> QED
      BY <3>1
  <2>4. ~miscounted => mNumberOfEventHandles' = IF outcome = "ok" THEN 1 ELSE 0
    BY <1>5, <1>8, <1>12
  <2>5. ~handleLost' => ~handleLost /\ outcome # "noHandle"
    BY <1>1, <1>12
  <2>6. timers' \in [Kind -> Timer] /\ PollsFollowHandlers'
    <3> HIDE DEF first
    <3> QED
      BY <2>1, <2>2, <2>3, <2>4, <2>5 DEF PollsFollowHandlers
  <2>7. PollsKnown'
    <3> SUFFICES ASSUME ~miscounted PROVE PollsKnown'
      BY DEF PollsKnown
    <3>1. selfReplaced'
      BY <1>9, <1>12
    <3>2. ~(app.pc = "count" /\ app.n = 0)
      BY DEF CallInv, PollsKnown
    <3>3. mNumberOfEventHandles' = 0 /\ ~handleLost' => \A k \in Kind : ~timers'[k].current
      BY <2>1, <2>2, <2>3, <2>4, <2>5 DEF Outcome
    <3> QED
      BY <3>1, <3>2, <3>3 DEF PollsKnown
  <2> QED
    BY <1>1, <1>2, <1>3, <1>4, <1>6, <1>10, <1>11, <2>6, <2>7
       DEF RegistryInv, RegistryShape, CallInv
<1>13. CASE ~first
  <2>1. UNCHANGED <<timers, pollsCut>> /\ handleLost' = handleLost
    BY <1>1, <1>2, <1>13 DEF RegistryShape
  <2>2. ~miscounted => mNumberOfEventHandles > 0 /\ mNumberOfEventHandles' > 0
    BY <1>5, <1>13
  <2>3. PollsFollowHandlers'
    BY <2>1, <2>2 DEF RegistryInv, PollsFollowHandlers
  <2>4. PollsKnown'
    <3> SUFFICES ASSUME ~miscounted PROVE PollsKnown'
      BY DEF PollsKnown
    <3>1. ~(app.pc = "count" /\ app.n = 0)
      BY DEF CallInv, PollsKnown
    <3>2. ~pollsCut => timers["key"].current
      BY <2>2 DEF RegistryInv, PollsFollowHandlers
    <3> QED
      BY <2>1, <2>2, <3>1, <3>2 DEF PollsKnown
  <2> QED
    BY <1>1, <1>2, <1>3, <1>4, <1>6, <1>7, <1>10, <1>11, <2>1, <2>3, <2>4
       DEF RegistryInv, RegistryShape, CallInv
<1> QED
  BY <1>1, <1>3, <1>10, <1>12, <1>13

\* Who unregisters stays in the list, and with the last handler the timers go.
LEMMA UnregisterFacts ==
  ASSUME RegistryInv, CallInv, ~wild, drain.pc = "callback", NEW names,
         EventUnregisterHandler(names), UNCHANGED <<app, drain, selfReplaced, wild>>
  PROVE  /\ RegistryInv' /\ CallInv' /\ UNCHANGED mEventHandles /\ Listed' = Listed
         /\ Registered' = Registered \ names
         /\ \A g \in Registered' : info'[g] = info[g]
<1> DEFINE hits == names \cap Listed
           n == mNumberOfEventHandles
           k == Cardinality(hits)
<1>1. /\ info' = [h \in Handle |-> [info[h] EXCEPT !.Registered = @ /\ h \notin hits]]
      /\ n' = Down(n, k)
      /\ timers' = IF n' = 0 THEN PollsCancelled ELSE timers
      /\ miscounted' = (miscounted \/ ~(hits \subseteq Registered))
      /\ pollsCut' = IF n' = 0 THEN app.pc = "allocate" ELSE pollsCut
      /\ UNCHANGED <<mEventHandles, handleLost>>
  BY DEF EventUnregisterHandler
<1>2. /\ RegistryShape /\ n \in Number /\ info \in [Handle -> Info] /\ app \in Calls
  BY DEF RegistryInv, RegistryShape, CallInv
<1>3. Listed' = Listed /\ InFlight' = InFlight
  BY <1>1 DEF Listed, InFlight
<1>4. /\ Registered \subseteq Listed /\ Listed \subseteq Handle
      /\ IsFiniteSet(Registered) /\ IsFiniteSet(Handle)
  BY <1>2, RegisteredFacts
<1>5. \A h \in Handle : /\ info'[h] = [info[h] EXCEPT !.Registered = @ /\ h \notin hits]
                        /\ info[h] \in Info
  BY <1>1, <1>2
<1>6. info' \in [Handle -> Info]
  <2>1. \A h \in Handle : info'[h] \in Info
    BY <1>5 DEF Info
  <2> QED
    BY <1>1, <2>1
<1>7. \A h \in Handle : /\ info'[h].Registered <=> info[h].Registered /\ h \notin hits
                        /\ h \notin hits => info'[h] = info[h]
  <2> SUFFICES ASSUME NEW h \in Handle
               PROVE  /\ info'[h].Registered <=> info[h].Registered /\ h \notin hits
                      /\ h \notin hits => info'[h] = info[h]
    OBVIOUS
  <2> HIDE DEF hits
  <2>1. PICK r \in BOOLEAN, y \in BOOLEAN, t \in SUBSET Kind :
          info[h] = [Registered |-> r, Ready |-> y, EventType |-> t]
    BY <1>5 DEF Info
  <2>2. PICK b \in BOOLEAN : b = (info[h].Registered /\ h \notin hits)
    BY Zenon
  <2>3. b <=> info[h].Registered /\ h \notin hits
    BY <2>2, Zenon
  <2>4. info'[h] = [info[h] EXCEPT !.Registered = b]
    BY <1>5, <2>2, Zenon
  <2>5. info'[h] = [Registered |-> b, Ready |-> y, EventType |-> t] /\ info[h].Registered = r
    BY <2>1, <2>4
  <2>6. h \notin hits => b = r
    BY <2>3, <2>5
  <2> QED
    BY <2>1, <2>3, <2>5, <2>6
<1>8. Registered' = Registered \ names
  <2>1. Registered' = {h \in Listed : info'[h].Registered}
    BY <1>3 DEF Registered
  <2> QED
    BY <1>4, <1>7, <2>1 DEF Registered
<1>9. \A g \in Registered' : info'[g] = info[g]
  BY <1>4, <1>7, <1>8
<1>10. k \in Nat /\ k < CounterRange /\ CounterRange \in Nat /\ n \in Nat /\ n < CounterRange
  <2>1. k \in Nat /\ k <= Cardinality(Handle) /\ Cardinality(Handle) \in Nat
    <3>1. hits \subseteq Handle
      BY <1>4
    <3> HIDE DEF hits
    <3> QED
      BY <1>4, <3>1, FS_Subset, FS_CardinalityType
  <2> QED
    BY <1>2, <2>1, EventAssumption DEF Number
<1> HIDE DEF k
<1>11. n' \in Number /\ (k <= n => n' = n - k)
  BY <1>1, <1>10 DEF Down, Number
<1>12. miscounted' \in BOOLEAN /\ pollsCut' \in BOOLEAN
  BY <1>1, <1>2 DEF RegistryShape
<1>13. ~miscounted' =>
         /\ ~miscounted /\ k <= n /\ n' = n - k
         /\ Cardinality(Registered') \in Nat
         /\ Cardinality(Registered') = Cardinality(Registered) - k
         /\ Cardinality(Registered) \in Nat
  <2> SUFFICES ASSUME ~miscounted'
               PROVE  /\ ~miscounted /\ k <= n /\ n' = n - k
                      /\ Cardinality(Registered') \in Nat
                      /\ Cardinality(Registered') = Cardinality(Registered) - k
                      /\ Cardinality(Registered) \in Nat
    OBVIOUS
  <2>1. ~miscounted /\ hits \subseteq Registered
    BY <1>1
  <2>2. Registered \cap hits = hits /\ Registered' = Registered \ hits
    BY <1>4, <1>8, <2>1
  <2>3. /\ Cardinality(Registered \ hits) = Cardinality(Registered) - Cardinality(Registered \cap hits)
        /\ IsFiniteSet(Registered \ hits)
    BY <1>4, FS_Difference
  <2>4. Cardinality(Registered \ hits) \in Nat /\ Cardinality(Registered) \in Nat
    BY <1>4, <2>3, FS_CardinalityType
  <2>5. Cardinality(Registered') = Cardinality(Registered) - k
    BY <2>2, <2>3 DEF k
  <2>6. Cardinality(Registered) <= n
    BY <1>10, <2>1, CounterFacts
  <2> QED
    BY <1>10, <1>11, <2>1, <2>2, <2>4, <2>5, <2>6
<1>14. CounterMatchesList'
  <2> SUFFICES ASSUME ~miscounted' PROVE CounterMatchesList'
    BY DEF CounterMatchesList
  <2>1. /\ app.pc \in {"link", "uncount"} => n = Cardinality(Registered) + 1
        /\ app.pc \notin {"link", "uncount"} => n = Cardinality(Registered)
    BY <1>13, CounterFacts
  <2> QED
    BY <1>10, <1>13, <2>1 DEF CounterMatchesList
<1>15. \A g \in Handle : g \notin Listed' \cup InFlight' => info'[g] = Freed
  BY <1>2, <1>3, <1>7 DEF RegistryShape
<1>16. \A i \in Kind : timers[i] \in Timer /\ (timers[i].current => timers[i].live > 0)
  BY <1>2 DEF RegistryShape, RegistryInv, PollsFollowHandlers
<1>17. timers' \in [Kind -> Timer] /\ PollsFollowHandlers' /\ (n' = 0 => \A i \in Kind : ~timers'[i].current)
  <2>1. CASE n' = 0
    <3>1. \A i \in Kind : /\ timers'[i] = Cancelled(timers[i])
                          /\ Cancelled(timers[i]) \in Timer /\ ~Cancelled(timers[i]).current
                          /\ (timers[i].live = IF timers[i].current THEN 1 ELSE 0) =>
                                Cancelled(timers[i]).live = 0
      BY <1>1, <1>16, <2>1, CancelledFacts DEF PollsCancelled
    <3>2. timers' \in [Kind -> Timer]
      BY <1>1, <2>1, <3>1 DEF PollsCancelled
    <3>3. ~miscounted' /\ ~handleLost' =>
            \A i \in Kind : timers[i].live = IF timers[i].current THEN 1 ELSE 0
      BY <1>1 DEF RegistryInv, PollsFollowHandlers
    <3> QED
      BY <2>1, <3>1, <3>2, <3>3 DEF PollsFollowHandlers
  <2>2. CASE n' # 0
    <3>1. UNCHANGED <<timers, handleLost, pollsCut>>
      BY <1>1, <2>2
    <3>2. ~miscounted' => n > 0 /\ n' > 0 /\ ~miscounted
      BY <1>10, <1>11, <1>13, <2>2 DEF Number
    <3> QED
      BY <1>2, <2>2, <3>1, <3>2 DEF RegistryInv, RegistryShape, PollsFollowHandlers
  <2> QED
    BY <2>1, <2>2
<1>18. CallKeepsFooting' /\ CallKnows'
  <2>1. Held' = Held
    BY DEF Held
  <2>2. app.pc = "free" => app.at \in Handle
    BY <1>2 DEF Calls
  <2>3. app.pc \in {"count", "link"} => app.h \in Handle /\ app.h \in InFlight
    BY <1>2 DEF Calls, InFlight
  <2>4. InFlight \cap Listed = {}
    BY DEF CallInv, CallKeepsFooting
  <2>5. app.pc = "free" => ~info'[app.at].Registered
    BY <1>7, <2>2 DEF CallInv, CallKnows
  <2>6. app.pc \in {"count", "link"} => info'[app.h].Registered
    BY <1>7, <2>3, <2>4 DEF CallInv, CallKnows
  <2> QED
    BY <1>3, <2>1, <2>5, <2>6 DEF CallInv, CallKnows, CallKeepsFooting
<1>19. PollsKnown'
  <2> SUFFICES ASSUME ~miscounted' PROVE PollsKnown'
    BY DEF PollsKnown
  <2>1. ~miscounted
    BY <1>13
  <2>2. ~(app.pc = "count" /\ app.n = 0)
    BY <2>1 DEF CallInv, PollsKnown
  <2>3. n' = 0 => pollsCut' \/ app.pc # "allocate"
    BY <1>1
  <2>4. n' # 0 => (~pollsCut' => timers'["key"].current)
    BY <1>11, <1>17 DEF PollsFollowHandlers, Number
  <2>5. n' = 0 => ~(NeedsPolls' /\ ~pollsCut')
    BY <2>2, <2>3 DEF NeedsPolls
  <2> QED
    BY <1>17, <2>2, <2>4, <2>5 DEF PollsKnown
<1> QED
  BY <1>1, <1>2, <1>3, <1>6, <1>8, <1>9, <1>11, <1>12, <1>14, <1>15, <1>17, <1>18, <1>19
     DEF RegistryInv, RegistryShape, CallInv

----------------------------------------------------------------------------
(* The queue and the walk. *)

Event == [EventType : Kind, birth : SUBSET Handle, told : SUBSET Handle]
First == Head(mQueue)
Walking == drain.pc \in {"walk", "callback"}

\* Who has to be called for the event at the front.
Due == {h \in Registered \cap First.birth : First.EventType \in info[h].EventType}

QueueShape ==
  /\ drain \in [pc : {"idle", "event"}] \cup [pc : {"walk", "callback"}, at : Handle]
  /\ mQueue \in Seq(Event) /\ Len(mQueue) <= MaxQueue
  /\ signaled \in BOOLEAN /\ selfReplaced \in BOOLEAN /\ wild \in BOOLEAN

\* While events come in nobody registers, so that those who are registered are those who
\* listened; from the wake-up on it is the flag that tells them from the newcomers.
QueueKnowsListeners ==
  /\ Walking => mQueue # << >>
  /\ selfReplaced => drain.pc = "callback"
  /\ drain.pc = "idle" /\ mQueue # << >> => signaled
  /\ \A i \in DOMAIN mQueue :
       /\ drain.pc = "idle" => mQueue[i].birth = Registered
       /\ drain.pc # "idle" => \A h \in Registered : h \in mQueue[i].birth <=> info[h].Ready
       /\ i # 1 \/ ~Walking => mQueue[i].told = {}

\* The walk stands on an entry of the list: everybody before it who is due has been told,
\* and nobody behind it has.
WalkAt(p) ==
  /\ mEventHandles[p] = drain.at
  /\ Before(mEventHandles, p) \cap Due \subseteq First.told
  /\ After(mEventHandles, p) \cap First.told = {}
  /\ drain.pc = "callback" <=> drain.at \in First.told

WalkHasPlace == Walking /\ ~selfReplaced => \E p \in DOMAIN mEventHandles : WalkAt(p)

QueueInv == QueueShape /\ QueueKnowsListeners /\ WalkHasPlace
EventInv == RegistryInv /\ CallInv /\ QueueInv

\* What the invariant is for.
LEMMA EventInvSuffices == EventInv => HandlersRight
<1> SUFFICES ASSUME EventInv PROVE HandlersRight
  OBVIOUS
<1> USE DEF EventInv, RegistryInv, QueueInv, CallInv
<1>1. mNumberOfEventHandles \in 0 .. CounterRange - 1
  BY DEF RegistryShape, Number
<1>2. \A h \in Handle : /\ info[h].Registered \in BOOLEAN /\ info[h].Ready \in BOOLEAN
                        /\ info[h].EventType \subseteq Kind
  BY DEF RegistryShape, Info
<1>3. \A k \in Kind : timers[k].current \in BOOLEAN /\ timers[k].live \in 0 .. MaxTimers
  BY DEF RegistryShape, Timer
<1>4. TypeOK
  BY <1>1, <1>2, <1>3 DEF TypeOK, RegistryShape, QueueShape
<1>5. WalkKeepsFooting
  BY DEF WalkKeepsFooting, WalkHasPlace, WalkAt, Walking, Listed, Range
<1> QED
  BY <1>4, <1>5 DEF HandlersRight

LEMMA EventInitInv == Init => EventInv
<1> SUFFICES ASSUME Init PROVE EventInv
  OBVIOUS
<1> USE DEF Init
<1>1. Listed = {} /\ Registered = {} /\ app.pc = "idle" /\ InFlight = {} /\ Held = {}
  BY DEF Listed, Registered, Range, InFlight, Held
<1>2. RegistryShape
  <2>1. Freed \in Info
    BY DEF Freed, Info
  <2>2. info \in [Handle -> Info] /\ \A h \in Handle : info[h] = Freed
    BY <2>1
  <2>3. mEventHandles \in Seq(Handle) /\ IsInjective(mEventHandles)
    BY DEF IsInjective
  <2>4. timers \in [Kind -> Timer]
    BY EventAssumption DEF Timer
  <2>5. mNumberOfEventHandles \in Number
    <3>1. Cardinality(Handle) \in Nat
      BY EventAssumption, FS_CardinalityType
    <3> QED
      BY <3>1, EventAssumption DEF Number
  <2> QED
    BY <2>2, <2>3, <2>4, <2>5 DEF RegistryShape
<1>3. CounterMatchesList
  BY <1>1, FS_EmptySet DEF CounterMatchesList
<1>4. PollsFollowHandlers
  BY DEF PollsFollowHandlers
<1>5. CallInv
  BY <1>1 DEF CallInv, Calls, CallKeepsFooting, CallKnows, PollsKnown, NeedsPolls
<1>6. QueueInv
  <2>1. drain.pc = "idle" /\ mQueue = << >>
    OBVIOUS
  <2>2. mQueue \in Seq(Event) /\ Len(mQueue) <= MaxQueue /\ DOMAIN mQueue = {}
    BY EventAssumption
  <2>3. QueueShape
    BY <2>1, <2>2 DEF QueueShape
  <2>4. QueueKnowsListeners /\ WalkHasPlace
    BY <2>1, <2>2 DEF QueueKnowsListeners, WalkHasPlace, Walking
  <2> QED
    BY <2>3, <2>4 DEF QueueInv
<1> QED
  BY <1>2, <1>3, <1>4, <1>5, <1>6 DEF EventInv, RegistryInv

----------------------------------------------------------------------------
(* The calls of the application. *)

\* The application goes on while no event waits and no notification runs.
Undisturbed ==
  /\ RegistryInv /\ CallInv /\ wild \in BOOLEAN /\ ~wild
  /\ ~selfReplaced /\ drain.pc = "idle"
  /\ UNCHANGED <<drain, selfReplaced>>

LEMMA SweepAtFacts ==
  ASSUME NEW S \in SUBSET Handle, app' = SweepAt(S)
  PROVE  /\ app' \in Calls /\ app'.pc \in {"polls", "sweep"}
         /\ Held' \subseteq S /\ InFlight' = {}
<1>1. CASE S = {}
  BY <1>1 DEF SweepAt, Calls, Held, InFlight
<1>2. CASE S # {}
  <2>1. PICK h \in S : app' = [pc |-> "sweep", at |-> h]
    BY <1>2 DEF SweepAt
  <2> QED
    BY <2>1 DEF Calls, Held, InFlight
<1> QED
  BY <1>1, <1>2

LEMMA FindAtFacts ==
  ASSUME NEW S \in SUBSET Handle, NEW names \in SUBSET Handle, app' = FindAt(S, names)
  PROVE  /\ app' \in Calls /\ app'.pc \in {"cancel", "find"}
         /\ Held' \subseteq S /\ InFlight' = {}
<1>1. CASE S = {}
  BY <1>1 DEF FindAt, Calls, Held, InFlight
<1>2. CASE S # {}
  <2>1. PICK h \in S : app' = [pc |-> "find", at |-> h, names |-> names]
    BY <1>2 DEF FindAt
  <2> QED
    BY <2>1 DEF Calls, Held, InFlight
<1> QED
  BY <1>1, <1>2

\* The ends of the list, and what is behind an entry.
LEMMA BehindFacts ==
  ASSUME RegistryShape
  PROVE  /\ FirstOf \subseteq Listed /\ LastOf \subseteq Listed
         /\ \A h : Behind(h) \subseteq Listed /\ h \notin Behind(h)
<1>1. /\ mEventHandles \in Seq(Handle) /\ Len(mEventHandles) \in Nat
      /\ DOMAIN mEventHandles = 1 .. Len(mEventHandles) /\ IsInjective(mEventHandles)
  BY LenProperties DEF RegistryShape
<1>2. mEventHandles # << >> => Len(mEventHandles) > 0
  BY <1>1, EmptySeq
<1>3. FirstOf \subseteq Listed
  BY <1>1, <1>2 DEF FirstOf, Listed, Range
<1>4. LastOf \subseteq Listed
  <2>1. mEventHandles # << >> => Last(mEventHandles) = mEventHandles[Len(mEventHandles)]
    BY DEF Last
  <2>2. mEventHandles # << >> => Len(mEventHandles) \in DOMAIN mEventHandles
    BY <1>1, <1>2
  <2> QED
    BY <2>1, <2>2 DEF LastOf, Listed, Range
<1>5. ASSUME NEW h
      PROVE  Behind(h) \subseteq Listed /\ h \notin Behind(h)
  <2>1. ASSUME NEW i \in 1 .. Len(mEventHandles) - 1, mEventHandles[i] = h
        PROVE  mEventHandles[i + 1] \in Listed /\ mEventHandles[i + 1] # h
    <3>1. i \in DOMAIN mEventHandles /\ i + 1 \in DOMAIN mEventHandles /\ i # i + 1
      BY <1>1
    <3> QED
      BY <1>1, <2>1, <3>1 DEF Listed, Range, IsInjective
  <2> QED
    BY <2>1 DEF Behind
<1> QED
  BY <1>3, <1>4, <1>5

\* A step that only moves the application on.
LEMMA RegistryKept ==
  ASSUME RegistryInv, UNCHANGED registry, InFlight' = InFlight,
         app.pc \notin {"link", "uncount"}, app'.pc \notin {"link", "uncount"},
         app.pc \in {"allocate", "count", "find", "cancel"} =>
           app'.pc \in {"allocate", "count", "find", "cancel"}
  PROVE  RegistryInv' /\ Registered' = Registered /\ Listed' = Listed
<1>1. /\ UNCHANGED <<mEventHandles, info, mNumberOfEventHandles, timers, handleLost, miscounted,
                     pollsCut>>
      /\ Registered' = Registered /\ Listed' = Listed
  BY DEF registry, Registered, Listed
<1>2. RegistryShape'
  BY <1>1 DEF RegistryInv, RegistryShape
<1>3. CounterMatchesList'
  BY <1>1 DEF RegistryInv, CounterMatchesList
<1>4. PollsFollowHandlers'
  BY <1>1 DEF RegistryInv, PollsFollowHandlers
<1> QED
  BY <1>1, <1>2, <1>3, <1>4 DEF RegistryInv

\* Walking the list: nothing changes but the place.
LEMMA WalkingInv ==
  ASSUME Undisturbed,
         \/ RegisterBegin \/ SweepEntry \/ LinkBack
         \/ \E names \in Names : UnregisterBegin(names)
         \/ FindEntry /\ app.at \notin app.names
  PROVE  RegistryInv' /\ CallInv' /\ wild' \in BOOLEAN
<1>1. RegistryInv /\ RegistryShape /\ app \in Calls /\ ~wild /\ drain'.pc = "idle"
  BY DEF Undisturbed, RegistryInv, CallInv
<1>2. Listed \subseteq Handle
  BY <1>1, RegisteredFacts
<1>3. /\ FirstOf \subseteq Listed /\ \A h : Behind(h) \subseteq Listed /\ h \notin Behind(h)
  BY <1>1, BehindFacts
<1>4. /\ UNCHANGED <<registry, wild>> /\ app' \in Calls /\ Held' \subseteq Listed /\ InFlight' = {}
      /\ app.pc \in {"idle", "sweep", "back", "find"}
      /\ app'.pc \in {"idle", "sweep", "polls", "free", "find", "cancel"}
      /\ app.pc = "find" => app'.pc \in {"find", "cancel"}
      /\ app'.pc = "free" => ~info[app'.at].Registered /\ app'.at \notin app'.then
  <2>1. CASE RegisterBegin
    BY <1>2, <1>3, <2>1, SweepAtFacts DEF RegisterBegin
  <2>2. CASE SweepEntry /\ info[app.at].Registered
    <3>1. app' = SweepAt(Behind(app.at)) /\ app.pc = "sweep" /\ UNCHANGED <<registry, wild>>
      BY <2>2 DEF SweepEntry
    <3>2. Behind(app.at) \subseteq Listed
      BY <1>3
    <3> QED
      BY <1>2, <3>1, <3>2, SweepAtFacts
  <2>3. CASE SweepEntry /\ ~info[app.at].Registered
    <3>1. /\ app' = [pc |-> "free", at |-> app.at, then |-> Behind(app.at)] /\ app.pc = "sweep"
          /\ UNCHANGED <<registry, wild>>
      BY <2>3 DEF SweepEntry
    <3>2. app.at \in Listed
      BY <1>1, <3>1 DEF Undisturbed, CallInv, CallKeepsFooting, Held
    <3>3. Held' = {app.at} \cup Behind(app.at) /\ InFlight' = {}
      BY <3>1 DEF Held, InFlight
    <3>4. app' \in Calls
      BY <1>2, <1>3, <3>1, <3>2 DEF Calls
    <3> QED
      BY <1>3, <2>3, <3>1, <3>2, <3>3, <3>4
  <2>4. CASE LinkBack
    BY <2>4 DEF LinkBack, Calls, Held, InFlight
  <2>5. ASSUME NEW names \in Names, UnregisterBegin(names)
        PROVE  /\ UNCHANGED <<registry, wild>> /\ app' \in Calls /\ Held' \subseteq Listed
               /\ InFlight' = {} /\ app.pc = "idle" /\ app'.pc \in {"find", "cancel"}
    <3>1. names \in SUBSET Handle
      BY <1>2 DEF Names
    <3> QED
      BY <1>2, <1>3, <2>5, <3>1, FindAtFacts DEF UnregisterBegin
  <2>6. CASE FindEntry /\ app.at \notin app.names
    <3>1. app.pc = "find" /\ app' = FindAt(Behind(app.at), app.names)
          /\ UNCHANGED <<registry, wild>>
      BY <2>6 DEF FindEntry, registry
    <3>2. app.names \in SUBSET Handle
      BY <1>1, <3>1 DEF Calls
    <3>3. Behind(app.at) \subseteq Listed
      BY <1>3
    <3> QED
      BY <1>2, <3>1, <3>2, <3>3, FindAtFacts
  <2> QED
    BY <2>1, <2>2, <2>3, <2>4, <2>5, <2>6
<1>5. InFlight = {}
  BY <1>4 DEF InFlight
<1>6. RegistryInv' /\ Registered' = Registered /\ Listed' = Listed
  BY <1>1, <1>4, <1>5, RegistryKept
<1>7. UNCHANGED <<info, wild>>
  BY <1>4 DEF registry
<1>8. CallKeepsFooting' /\ CallKnows'
  BY <1>4, <1>6, <1>7 DEF CallKeepsFooting, CallKnows
<1>9. PollsKnown'
  BY <1>1, <1>4 DEF PollsKnown, NeedsPolls
<1>10. wild' \in BOOLEAN
  BY <1>7 DEF Undisturbed
<1> QED
  BY <1>4, <1>6, <1>8, <1>9, <1>10 DEF CallInv

\* An unregistered entry is freed, and the walk goes on behind it.
LEMMA FreeEntryInv ==
  ASSUME Undisturbed, FreeEntry
  PROVE  RegistryInv' /\ CallInv' /\ wild' \in BOOLEAN
<1> DEFINE T == Handle \ {app.at}
<1>1. /\ app.pc = "free" /\ mEventHandles' = Only(mEventHandles, T)
      /\ info' = [info EXCEPT ![app.at] = Freed] /\ app' = SweepAt(app.then)
      /\ UNCHANGED <<mNumberOfEventHandles, timers, handleLost, miscounted, pollsCut, wild>>
  BY DEF FreeEntry
<1>2. /\ RegistryInv /\ RegistryShape /\ CallInv /\ app \in Calls /\ ~wild /\ wild \in BOOLEAN
      /\ drain'.pc = "idle"
  BY DEF Undisturbed, RegistryInv, CallInv
<1>3. app.at \in Handle /\ app.then \in SUBSET Handle
  BY <1>1, <1>2 DEF Calls
<1>4. /\ app.at \in Listed /\ app.then \subseteq Listed /\ app.at \notin app.then
      /\ ~info[app.at].Registered /\ InFlight = {}
  BY <1>1, <1>2 DEF CallInv, CallKeepsFooting, CallKnows, Held, InFlight
<1>5. /\ mEventHandles' \in Seq(Handle) /\ IsInjective(mEventHandles')
      /\ Listed' = Listed \cap T
  <2> HIDE DEF T
  <2> QED
    BY <1>1, <1>2, KeepsFacts DEF Listed
<1>6. Listed \subseteq Handle
  BY <1>2, RegisteredFacts
<1>7. \A h \in Handle : info'[h] = IF h = app.at THEN Freed ELSE info[h]
  BY <1>1, <1>2, <1>3 DEF RegistryShape
<1>8. info' \in [Handle -> Info]
  <2>1. Freed \in Info
    BY DEF Freed, Info
  <2> QED
    BY <1>1, <1>2, <2>1 DEF RegistryShape
<1>9. Registered' = Registered
  BY <1>4, <1>5, <1>6, <1>7 DEF Registered, Freed
<1>10. /\ app' \in Calls /\ app'.pc \in {"polls", "sweep"}
       /\ Held' \subseteq app.then /\ InFlight' = {}
  BY <1>1, <1>3, SweepAtFacts
<1>11. RegistryShape'
  <2>1. \A h \in Handle : h \notin Listed' \cup InFlight' => info'[h] = Freed
    BY <1>2, <1>4, <1>5, <1>7 DEF RegistryShape
  <2> QED
    BY <1>1, <1>2, <1>5, <1>8, <2>1 DEF RegistryShape
<1>12. CounterMatchesList' /\ PollsFollowHandlers'
  BY <1>1, <1>2, <1>9, <1>10 DEF RegistryInv, CounterMatchesList, PollsFollowHandlers
<1>13. CallKeepsFooting' /\ CallKnows'
  BY <1>3, <1>4, <1>5, <1>10 DEF CallKeepsFooting, CallKnows
<1>14. PollsKnown'
  BY <1>2, <1>10 DEF PollsKnown, NeedsPolls
<1> QED
  BY <1>1, <1>2, <1>10, <1>11, <1>12, <1>13, <1>14 DEF RegistryInv, CallInv

\* The application looks at the counter and creates the polls that are needed.
LEMMA CheckCounterInv ==
  ASSUME Undisturbed, NEW outcome \in Outcome, CheckCounter(outcome)
  PROVE  RegistryInv' /\ CallInv' /\ wild' \in BOOLEAN
<1> DEFINE first == mNumberOfEventHandles = 0
           polls == first => outcome = "ok"
<1>1. /\ app.pc = "polls" /\ outcome # "noHandle" /\ (~first => outcome = "ok")
      /\ first /\ outcome # "noPointerTimer" => \A k \in Kind : timers[k].live < MaxTimers
      /\ timers' = IF first THEN PollsCreated(outcome) ELSE timers
      /\ app' = IF polls THEN [pc |-> "allocate", first |-> first] ELSE [pc |-> "idle"]
      /\ pollsCut' = (pollsCut /\ ~first)
      /\ UNCHANGED <<mEventHandles, info, mNumberOfEventHandles, handleLost, miscounted, wild>>
  BY DEF CheckCounter
<1>2. /\ RegistryInv /\ RegistryShape /\ CallInv /\ ~wild /\ wild \in BOOLEAN
      /\ drain'.pc = "idle"
  BY DEF Undisturbed, RegistryInv
<1>3. Listed' = Listed /\ Registered' = Registered
  BY <1>1 DEF Listed, Registered
<1>4. /\ app' \in Calls /\ Held' = {} /\ InFlight' = {} /\ InFlight = {}
      /\ app'.pc \in {"allocate", "idle"}
      /\ app'.pc = "allocate" => polls /\ app'.first = first
      /\ app'.pc # "allocate" => first /\ outcome # "ok"
  BY <1>1 DEF Calls, Held, InFlight
<1>5. timers \in [Kind -> Timer] /\ \A k \in Kind : timers[k].current => timers[k].live > 0
  BY <1>2 DEF RegistryInv, RegistryShape, PollsFollowHandlers
<1>6. first =>
        /\ PollsCreated(outcome) \in [Kind -> Timer]
        /\ \A k \in Kind : PollsCreated(outcome)[k].current => PollsCreated(outcome)[k].live > 0
        /\ outcome \in {"ok", "noHandle"} => PollsCreated(outcome)["key"].current
        /\ (\A k \in Kind : ~timers[k].current /\ timers[k].live = 0) =>
             \A k \in Kind : /\ PollsCreated(outcome)[k].live =
                                  IF PollsCreated(outcome)[k].current THEN 1 ELSE 0
                             /\ PollsCreated(outcome)[k].current => outcome \in {"ok", "noHandle"}
  BY <1>1, <1>5, PollsCreatedFacts
<1>7. ~miscounted /\ ~handleLost /\ first => \A k \in Kind : ~timers[k].current /\ timers[k].live = 0
  <2>1. ~miscounted /\ ~handleLost /\ first =>
          \A k \in Kind : ~timers[k].current /\ timers[k].live = IF timers[k].current THEN 1 ELSE 0
    BY <1>1, <1>2 DEF RegistryInv, PollsFollowHandlers
  <2> QED
    BY <2>1
<1>8. RegistryShape'
  <2>1. timers' \in [Kind -> Timer] /\ pollsCut' \in BOOLEAN
    BY <1>1, <1>2, <1>5, <1>6 DEF RegistryShape
  <2> QED
    BY <1>1, <1>2, <1>3, <1>4, <2>1 DEF RegistryShape
<1>9. CounterMatchesList'
  BY <1>1, <1>2, <1>3, <1>4 DEF RegistryInv, CounterMatchesList
<1>10. mNumberOfEventHandles \in Nat
  BY <1>2 DEF RegistryShape, Number
<1>11. CASE first
  <2>1. timers' = PollsCreated(outcome) /\ ~pollsCut'
    BY <1>1, <1>11
  <2> HIDE DEF first, polls
  <2>2. PollsFollowHandlers'
    BY <1>1, <1>4, <1>6, <1>7, <1>11, <2>1 DEF PollsFollowHandlers, polls, first
  <2>3. PollsKnown'
    BY <1>2, <1>4, <1>6, <1>11, <2>1 DEF PollsKnown, NeedsPolls, polls
  <2> QED
    BY <2>2, <2>3, <1>1, <1>2, <1>3, <1>4, <1>8, <1>9
       DEF RegistryInv, CallInv, CallKeepsFooting, CallKnows
<1>12. CASE ~first
  <2>1. timers' = timers /\ pollsCut' = pollsCut /\ mNumberOfEventHandles' > 0
    BY <1>1, <1>2, <1>10, <1>12 DEF RegistryShape
  <2>2. PollsFollowHandlers'
    BY <1>1, <1>2, <1>10, <1>12, <2>1 DEF RegistryInv, PollsFollowHandlers
  <2>3. ~miscounted' /\ ~pollsCut' => timers'["key"].current
    BY <2>1, <2>2 DEF PollsFollowHandlers
  <2>4. PollsKnown'
    BY <1>2, <1>4, <1>12, <2>1, <2>3 DEF PollsKnown, NeedsPolls
  <2> QED
    BY <2>2, <2>4, <1>1, <1>2, <1>3, <1>4, <1>8, <1>9
       DEF RegistryInv, CallInv, CallKeepsFooting, CallKnows
<1> QED
  BY <1>11, <1>12

\* A handle is allocated, and the counter read.
LEMMA AllocateHandleInv ==
  ASSUME Undisturbed, NEW h \in Handle, NEW types \in SUBSET Kind, NEW ok \in BOOLEAN,
         AllocateHandle(h, types, ok)
  PROVE  RegistryInv' /\ CallInv' /\ wild' \in BOOLEAN
<1>1. /\ app.pc = "allocate" /\ (ok => h \notin Listed)
      /\ info' = IF ok THEN [info EXCEPT ![h] = New(types)] ELSE info
      /\ app' = IF ok THEN [pc |-> "count", h |-> h, n |-> mNumberOfEventHandles]
                      ELSE [pc |-> "idle"]
      /\ handleLost' = (handleLost \/ (app.first /\ ~ok))
      /\ UNCHANGED <<mEventHandles, mNumberOfEventHandles, timers, miscounted, pollsCut, wild>>
  BY DEF AllocateHandle
<1>2. /\ RegistryInv /\ RegistryShape /\ CallInv /\ ~wild /\ wild \in BOOLEAN
      /\ drain'.pc = "idle" /\ ~selfReplaced /\ ~selfReplaced' /\ app \in Calls
  BY DEF Undisturbed, RegistryInv, CallInv
<1>3. Listed' = Listed /\ Listed \subseteq Handle /\ InFlight = {}
  BY <1>1, <1>2, RegisteredFacts DEF Listed, InFlight
<1>4. \A g \in Handle : info'[g] = IF ok /\ g = h THEN New(types) ELSE info[g]
  BY <1>1, <1>2 DEF RegistryShape
<1>5. info' \in [Handle -> Info]
  <2>1. New(types) \in Info
    BY DEF New, Info
  <2> QED
    BY <1>1, <1>2, <2>1 DEF RegistryShape
<1>6. Registered' = Registered
  BY <1>1, <1>3, <1>4 DEF Registered
<1>7. /\ app' \in Calls /\ Held' = {} /\ InFlight' = IF ok THEN {h} ELSE {}
      /\ app'.pc = IF ok THEN "count" ELSE "idle"
      /\ ok => app'.h = h /\ app'.n = mNumberOfEventHandles
  BY <1>1, <1>2 DEF Calls, Held, InFlight, RegistryShape
<1>8. handleLost' \in BOOLEAN /\ app.first \in BOOLEAN
  BY <1>1, <1>2 DEF RegistryShape, Calls
<1>9. RegistryShape'
  <2>1. \A g \in Handle : g \notin Listed' \cup InFlight' => info'[g] = Freed
    BY <1>2, <1>3, <1>4, <1>7 DEF RegistryShape
  <2> QED
    BY <1>1, <1>2, <1>5, <1>8, <2>1 DEF RegistryShape
<1>10. CounterMatchesList'
  BY <1>1, <1>2, <1>6, <1>7 DEF RegistryInv, CounterMatchesList
<1>11. PollsFollowHandlers'
  <2>1. ~ok /\ ~handleLost' => ~handleLost /\ ~app.first
    BY <1>1
  <2>2. mNumberOfEventHandles \in Nat
    BY <1>2 DEF RegistryShape, Number
  <2>3. ~ok /\ ~handleLost' /\ ~miscounted /\ ~(mNumberOfEventHandles > 0) =>
          \A k \in Kind : ~timers[k].current
    BY <1>1, <1>2, <2>1, <2>2 DEF CallInv, PollsKnown
  <2>4. ~handleLost' => ~handleLost
    BY <1>1
  <2> QED
    BY <1>1, <1>2, <1>7, <2>3, <2>4 DEF RegistryInv, PollsFollowHandlers
<1>12. CallKeepsFooting' /\ CallKnows'
  BY <1>1, <1>3, <1>4, <1>7 DEF CallKeepsFooting, CallKnows, New
<1>13. PollsKnown'
  <2> SUFFICES ASSUME ~miscounted' PROVE PollsKnown'
    BY DEF PollsKnown
  <2>1. ~miscounted
    BY <1>1
  <2>2. ~pollsCut => timers["key"].current
    BY <1>1, <1>2, <2>1 DEF CallInv, PollsKnown, NeedsPolls
  <2>3. app'.pc = "count" /\ app'.n = 0 => Registered' = {}
    BY <1>2, <1>6, <1>7, <2>1, CounterFacts
  <2> QED
    BY <1>1, <1>2, <1>7, <2>2, <2>3 DEF PollsKnown
<1> QED
  BY <1>1, <1>2, <1>7, <1>9, <1>10, <1>11, <1>12, <1>13 DEF RegistryInv, CallInv

\* The counter is stored; a callback may have changed it since it was read.
LEMMA CountUpInv ==
  ASSUME Undisturbed, CountUp
  PROVE  RegistryInv' /\ CallInv' /\ wild' \in BOOLEAN
<1> DEFINE n == mNumberOfEventHandles
<1>1. /\ app.pc = "count" /\ n' = Up(app.n)
      /\ miscounted' = (miscounted \/ n # app.n)
      /\ app' = [pc |-> "link", h |-> app.h, tail |-> LastOf]
      /\ UNCHANGED <<mEventHandles, info, timers, handleLost, pollsCut, wild>>
  BY DEF CountUp
<1>2. /\ RegistryInv /\ RegistryShape /\ CallInv /\ ~wild /\ wild \in BOOLEAN
      /\ drain'.pc = "idle" /\ ~selfReplaced /\ ~selfReplaced' /\ app \in Calls
  BY DEF Undisturbed, RegistryInv, CallInv
<1>3. Listed' = Listed /\ Listed \subseteq Handle /\ Registered' = Registered
  BY <1>1, <1>2, RegisteredFacts DEF Listed, Registered
<1>4. app.h \in Handle /\ app.n \in Number
  BY <1>1, <1>2 DEF Calls
<1>5. InFlight = {app.h} /\ InFlight' = {app.h} /\ Held' = LastOf
  BY <1>1 DEF InFlight, Held
<1>6. app.h \notin Listed /\ info[app.h].Registered
  BY <1>1, <1>2, <1>5 DEF CallInv, CallKeepsFooting, CallKnows
<1>7. LastOf \subseteq Listed
  BY <1>2, BehindFacts
<1>8. app' \in Calls
  BY <1>1, <1>3, <1>4, <1>7 DEF Calls
<1>9. n' \in Number /\ miscounted' \in BOOLEAN
  BY <1>1, <1>2, <1>4, EventAssumption DEF Up, Number, RegistryShape
<1>10. ~miscounted' => /\ ~miscounted /\ n = app.n /\ n' = n + 1 /\ n \in Nat
                       /\ n = Cardinality(Registered) /\ Cardinality(Registered) \in Nat
  <2> SUFFICES ASSUME ~miscounted'
               PROVE  /\ ~miscounted /\ n = app.n /\ n' = n + 1 /\ n \in Nat
                      /\ n = Cardinality(Registered) /\ Cardinality(Registered) \in Nat
    OBVIOUS
  <2>1. ~miscounted /\ n = app.n
    BY <1>1
  <2>2. Registered # Handle
    BY <1>4, <1>6 DEF Registered
  <2>3. n + 1 < CounterRange /\ n \in Nat /\ CounterRange \in Nat /\ n = Cardinality(Registered)
        /\ Cardinality(Registered) \in Nat
    BY <1>1, <1>2, <2>1, <2>2, CounterFacts
  <2> QED
    BY <1>1, <2>1, <2>3 DEF Up
<1>11. RegistryShape'
  BY <1>1, <1>2, <1>3, <1>5, <1>9 DEF RegistryShape
<1>12. CounterMatchesList'
  BY <1>1, <1>3, <1>10 DEF CounterMatchesList
<1>13. PollsFollowHandlers'
  <2>1. ~miscounted' /\ ~pollsCut => timers["key"].current
    BY <1>1, <1>2, <1>10 DEF CallInv, PollsKnown, NeedsPolls
  <2>2. ~miscounted' => n' > 0
    BY <1>10
  <2> HIDE DEF n
  <2> QED
    BY <1>1, <1>2, <1>10, <2>1, <2>2 DEF RegistryInv, PollsFollowHandlers, n
<1>14. CallKeepsFooting' /\ CallKnows'
  BY <1>1, <1>3, <1>5, <1>6, <1>7 DEF CallKeepsFooting, CallKnows
<1>15. PollsKnown'
  BY <1>1, <1>2 DEF PollsKnown, NeedsPolls
<1> QED
  BY <1>1, <1>2, <1>8, <1>11, <1>12, <1>13, <1>14, <1>15 DEF RegistryInv, CallInv

\* The new entry is linked behind the tail that was read, and becomes one of the list.
LEMMA LinkForwardInv ==
  ASSUME Undisturbed, LinkForward
  PROVE  RegistryInv' /\ CallInv' /\ wild' \in BOOLEAN
<1>1. /\ app.pc = "link" /\ mEventHandles' = Append(mEventHandles, app.h)
      /\ wild' = (LastOf # app.tail) /\ app' = [pc |-> "back", h |-> app.h]
      /\ UNCHANGED <<info, mNumberOfEventHandles, timers, handleLost, miscounted, pollsCut>>
  BY DEF LinkForward
<1>2. /\ RegistryInv /\ RegistryShape /\ CallInv /\ ~wild
      /\ drain'.pc = "idle" /\ app \in Calls
  BY DEF Undisturbed, RegistryInv, CallInv
<1>3. app.h \in Handle
  BY <1>1, <1>2 DEF Calls
<1>4. InFlight = {app.h} /\ InFlight' = {} /\ Held' = {app.h}
  BY <1>1 DEF InFlight, Held
<1>5. app.h \notin Listed /\ info[app.h].Registered
  BY <1>1, <1>2, <1>4 DEF CallInv, CallKeepsFooting, CallKnows
<1>6. /\ mEventHandles \in Seq(Handle) /\ IsInjective(mEventHandles) /\ Len(mEventHandles) \in Nat
      /\ DOMAIN mEventHandles = 1 .. Len(mEventHandles)
      /\ \A i \in 1 .. Len(mEventHandles) : mEventHandles[i] # app.h
  BY <1>2, <1>5, LenProperties DEF RegistryShape, Listed, Range
<1>7. /\ mEventHandles' \in Seq(Handle) /\ IsInjective(mEventHandles')
      /\ DOMAIN mEventHandles' = 1 .. (Len(mEventHandles) + 1)
      /\ \A i \in 1 .. Len(mEventHandles) : mEventHandles'[i] = mEventHandles[i]
      /\ mEventHandles'[Len(mEventHandles) + 1] = app.h
  BY <1>1, <1>3, <1>6, AppendNewInjective, AppendFacts
<1>8. Listed' = Listed \cup {app.h}
  <2>1. 1 .. (Len(mEventHandles) + 1) = (1 .. Len(mEventHandles)) \cup {Len(mEventHandles) + 1}
    BY <1>6
  <2> QED
    BY <1>6, <1>7, <2>1 DEF Listed, Range
<1>9. Registered' = Registered \cup {app.h} /\ app.h \notin Registered
  BY <1>1, <1>5, <1>8 DEF Registered
<1>10. RegistryShape'
  BY <1>1, <1>2, <1>4, <1>7, <1>8 DEF RegistryShape
<1>11. CounterMatchesList'
  <2> SUFFICES ASSUME ~miscounted' PROVE CounterMatchesList'
    BY DEF CounterMatchesList
  <2>1. /\ IsFiniteSet(Registered) /\ Cardinality(Registered) \in Nat
        /\ mNumberOfEventHandles = Cardinality(Registered) + 1
    BY <1>1, <1>2, CounterFacts
  <2>2. Cardinality(Registered \cup {app.h}) = Cardinality(Registered) + 1
    BY <1>9, <2>1, FS_AddElement
  <2> QED
    BY <1>1, <1>9, <2>1, <2>2 DEF CounterMatchesList
<1>12. PollsFollowHandlers'
  BY <1>1, <1>2 DEF RegistryInv, PollsFollowHandlers
<1>13. app' \in Calls /\ CallKeepsFooting' /\ CallKnows'
  BY <1>1, <1>3, <1>4, <1>8 DEF Calls, CallKeepsFooting, CallKnows
<1>14. PollsKnown'
  BY <1>1, <1>2 DEF PollsKnown, NeedsPolls
<1>15. wild' \in BOOLEAN
  BY <1>1
<1> QED
  BY <1>10, <1>11, <1>12, <1>13, <1>14, <1>15 DEF RegistryInv, CallInv

\* The application unregisters the entry it has found, and reads the counter.
LEMMA FindHitInv ==
  ASSUME Undisturbed, FindEntry, app.at \in app.names
  PROVE  RegistryInv' /\ CallInv' /\ wild' \in BOOLEAN
<1>1. /\ app.pc = "find" /\ info' = [info EXCEPT ![app.at].Registered = FALSE]
      /\ miscounted' = (miscounted \/ ~info[app.at].Registered)
      /\ app' = [pc |-> "uncount", at |-> app.at, names |-> app.names,
                 n |-> mNumberOfEventHandles]
      /\ UNCHANGED <<mEventHandles, mNumberOfEventHandles, timers, handleLost, pollsCut, wild>>
  BY DEF FindEntry
<1>2. /\ RegistryInv /\ RegistryShape /\ CallInv /\ ~wild /\ wild \in BOOLEAN
      /\ drain'.pc = "idle" /\ app \in Calls
  BY DEF Undisturbed, RegistryInv, CallInv
<1>3. app.at \in Handle /\ app.names \in SUBSET Handle
  BY <1>1, <1>2 DEF Calls
<1>4. app.at \in Listed /\ InFlight = {} /\ InFlight' = {} /\ Held' \subseteq {app.at}
  BY <1>1, <1>2 DEF CallInv, CallKeepsFooting, Held, InFlight
<1>5. Listed' = Listed /\ Registered \subseteq Handle /\ IsFiniteSet(Registered)
  BY <1>1, <1>2, RegisteredFacts DEF Listed
<1>6. \A h \in Handle : /\ info'[h] = IF h = app.at THEN [info[h] EXCEPT !.Registered = FALSE]
                                                    ELSE info[h]
                        /\ info[h] \in Info
  BY <1>1, <1>2, <1>3 DEF RegistryShape
<1>7. info' \in [Handle -> Info]
  <2>1. \A h \in Handle : info'[h] \in Info
    BY <1>6 DEF Info
  <2>2. DOMAIN info' = Handle /\ info' = [h \in Handle |-> info'[h]]
    BY <1>1, <1>2 DEF RegistryShape
  <2> QED
    BY <2>1, <2>2
<1>8. \A h \in Handle : info'[h].Registered <=> info[h].Registered /\ h # app.at
  BY <1>6 DEF Info
<1>9. Registered' = Registered \ {app.at}
  BY <1>1, <1>5, <1>8 DEF Registered, Listed, Range, RegistryShape
<1>10. miscounted' \in BOOLEAN
  BY <1>1, <1>2 DEF RegistryShape
<1>11. RegistryShape'
  BY <1>1, <1>2, <1>4, <1>5, <1>6, <1>7, <1>10 DEF RegistryShape
<1>12. ~miscounted' => ~miscounted /\ app.at \in Registered
  BY <1>1, <1>4 DEF Registered
<1>13. CounterMatchesList'
  <2> SUFFICES ASSUME ~miscounted' PROVE CounterMatchesList'
    BY DEF CounterMatchesList
  <2>1. /\ Cardinality(Registered) \in Nat
        /\ mNumberOfEventHandles = Cardinality(Registered)
    BY <1>1, <1>2, <1>12, CounterFacts
  <2>2. Cardinality(Registered \ {app.at}) = Cardinality(Registered) - 1
    BY <1>5, <1>12, FS_RemoveElement
  <2> QED
    BY <1>1, <1>9, <2>1, <2>2 DEF CounterMatchesList
<1>14. PollsFollowHandlers'
  <2>1. ~miscounted' => mNumberOfEventHandles > 0
    BY <1>2, <1>12, CounterFacts
  <2> QED
    BY <1>1, <1>2, <1>12, <2>1 DEF RegistryInv, PollsFollowHandlers
<1>15. app' \in Calls /\ CallKeepsFooting' /\ CallKnows'
  BY <1>1, <1>2, <1>3, <1>4, <1>5 DEF Calls, CallKeepsFooting, CallKnows, RegistryShape
<1>16. PollsKnown'
  BY <1>1, <1>2 DEF PollsKnown, NeedsPolls
<1> QED
  BY <1>1, <1>2, <1>11, <1>13, <1>14, <1>15, <1>16 DEF RegistryInv, CallInv

\* The decrement is stored.
LEMMA CountDownInv ==
  ASSUME Undisturbed, CountDown
  PROVE  RegistryInv' /\ CallInv' /\ wild' \in BOOLEAN
<1> DEFINE n == mNumberOfEventHandles
<1>1. /\ app.pc = "uncount" /\ n' = Down(app.n, 1)
      /\ miscounted' = (miscounted \/ n # app.n)
      /\ app' = IF app.names = Handle THEN FindAt(Behind(app.at), Handle) ELSE [pc |-> "cancel"]
      /\ UNCHANGED <<mEventHandles, info, timers, handleLost, pollsCut, wild>>
  BY DEF CountDown
<1>2. /\ RegistryInv /\ RegistryShape /\ CallInv /\ ~wild /\ wild \in BOOLEAN
      /\ drain'.pc = "idle" /\ app \in Calls
  BY DEF Undisturbed, RegistryInv, CallInv
<1>3. Listed' = Listed /\ Listed \subseteq Handle /\ Registered' = Registered
  BY <1>1, <1>2, RegisteredFacts DEF Listed, Registered
<1>4. app.n \in Number
  BY <1>1, <1>2 DEF Calls
<1>5. /\ app' \in Calls /\ app'.pc \in {"cancel", "find"} /\ Held' \subseteq Listed
      /\ InFlight' = {} /\ InFlight = {}
  <2>1. InFlight = {} /\ Behind(app.at) \subseteq Listed
    BY <1>1, <1>2, BehindFacts DEF InFlight
  <2>2. CASE app.names = Handle
    BY <1>1, <1>3, <2>1, <2>2, FindAtFacts
  <2>3. CASE app.names # Handle
    BY <1>1, <2>1, <2>3 DEF Calls, Held, InFlight
  <2> QED
    BY <2>2, <2>3
<1>6. n' \in Number /\ miscounted' \in BOOLEAN
  <2>1. CounterRange \in Nat /\ CounterRange > 1
    BY EventAssumption, FS_CardinalityType
  <2> QED
    BY <1>1, <1>2, <1>4, <2>1 DEF Down, Number, RegistryShape
<1>7. ~miscounted' => /\ ~miscounted /\ n' = n - 1 /\ n \in Nat
                      /\ n = Cardinality(Registered) + 1 /\ Cardinality(Registered) \in Nat
  <2> SUFFICES ASSUME ~miscounted'
               PROVE  /\ ~miscounted /\ n' = n - 1 /\ n \in Nat
                      /\ n = Cardinality(Registered) + 1 /\ Cardinality(Registered) \in Nat
    OBVIOUS
  <2>1. ~miscounted /\ n = app.n
    BY <1>1
  <2>2. n = Cardinality(Registered) + 1 /\ Cardinality(Registered) \in Nat /\ n \in Nat
    BY <1>1, <1>2, <2>1, CounterFacts
  <2> QED
    BY <1>1, <2>1, <2>2 DEF Down
<1>8. RegistryShape'
  BY <1>1, <1>2, <1>3, <1>5, <1>6 DEF RegistryShape
<1>9. CounterMatchesList'
  BY <1>3, <1>5, <1>7 DEF CounterMatchesList
<1>10. PollsFollowHandlers'
  <2>1. ~miscounted' => ~miscounted /\ n > 0
    BY <1>7
  <2> HIDE DEF n
  <2> QED
    BY <1>1, <1>2, <1>5, <2>1 DEF RegistryInv, PollsFollowHandlers, n
<1>11. CallKeepsFooting' /\ CallKnows'
  BY <1>3, <1>5 DEF CallKeepsFooting, CallKnows
<1>12. PollsKnown'
  BY <1>2, <1>5 DEF PollsKnown, NeedsPolls
<1> QED
  BY <1>1, <1>2, <1>5, <1>8, <1>9, <1>10, <1>11, <1>12 DEF RegistryInv, CallInv

\* With nobody counted the polls are cancelled.
LEMMA CancelPollsInv ==
  ASSUME Undisturbed, CancelPolls
  PROVE  RegistryInv' /\ CallInv' /\ wild' \in BOOLEAN
<1>1. /\ app.pc = "cancel" /\ app' = [pc |-> "idle"]
      /\ \/ mNumberOfEventHandles = 0 /\ timers' = PollsCancelled /\ pollsCut' = FALSE
         \/ mNumberOfEventHandles # 0 /\ UNCHANGED <<timers, pollsCut>>
      /\ UNCHANGED <<mEventHandles, info, mNumberOfEventHandles, handleLost, miscounted, wild>>
  BY DEF CancelPolls
<1>2. /\ RegistryInv /\ RegistryShape /\ CallInv /\ ~wild /\ wild \in BOOLEAN
      /\ drain'.pc = "idle" /\ mNumberOfEventHandles \in Nat
  BY DEF Undisturbed, RegistryInv, RegistryShape, Number
<1>3. Listed' = Listed /\ Registered' = Registered
  BY <1>1 DEF Listed, Registered
<1>4. app' \in Calls /\ Held' = {} /\ InFlight' = {} /\ InFlight = {} /\ app'.pc = "idle"
  BY <1>1 DEF Calls, Held, InFlight
<1>5. timers' \in [Kind -> Timer] /\ PollsFollowHandlers'
  <2>1. CASE mNumberOfEventHandles = 0
    <3>1. \A i \in Kind : timers[i] \in Timer /\ (timers[i].current => timers[i].live > 0)
      BY <1>2 DEF RegistryShape, RegistryInv, PollsFollowHandlers
    <3>2. \A i \in Kind : /\ timers'[i] = Cancelled(timers[i])
                          /\ Cancelled(timers[i]) \in Timer /\ ~Cancelled(timers[i]).current
                          /\ (timers[i].live = IF timers[i].current THEN 1 ELSE 0) =>
                                Cancelled(timers[i]).live = 0
      BY <1>1, <2>1, <3>1, CancelledFacts DEF PollsCancelled
    <3>3. timers' \in [Kind -> Timer]
      BY <1>1, <2>1, <3>2 DEF PollsCancelled
    <3>4. ~miscounted' /\ ~handleLost' =>
            \A i \in Kind : timers[i].live = IF timers[i].current THEN 1 ELSE 0
      BY <1>1, <1>2 DEF RegistryInv, PollsFollowHandlers
    <3> QED
      BY <1>1, <2>1, <3>2, <3>3, <3>4 DEF PollsFollowHandlers
  <2>2. CASE mNumberOfEventHandles # 0
    <3>1. mNumberOfEventHandles' > 0
      BY <1>1, <1>2, <2>2
    <3>2. UNCHANGED <<timers, pollsCut>>
      BY <1>1, <2>2
    <3> QED
      BY <1>1, <1>2, <3>1, <3>2 DEF RegistryInv, RegistryShape, PollsFollowHandlers
  <2> QED
    BY <2>1, <2>2
<1>6. RegistryShape'
  <2>1. pollsCut' \in BOOLEAN
    BY <1>1, <1>2 DEF RegistryShape
  <2> QED
    BY <1>1, <1>2, <1>3, <1>4, <1>5, <2>1 DEF RegistryShape
<1>7. CounterMatchesList'
  BY <1>1, <1>2, <1>3, <1>4 DEF RegistryInv, CounterMatchesList
<1>8. CallKeepsFooting' /\ CallKnows' /\ PollsKnown'
  BY <1>2, <1>4 DEF CallKeepsFooting, CallKnows, PollsKnown, NeedsPolls
<1> QED
  BY <1>1, <1>2, <1>4, <1>5, <1>6, <1>7, <1>8 DEF RegistryInv, CallInv

----------------------------------------------------------------------------
(* The queue and the walk. *)

\* The front of a queue that is not empty, and the queue without it.
LEMMA FrontFacts ==
  ASSUME QueueShape, mQueue # << >>
  PROVE  /\ First = mQueue[1] /\ First \in Event /\ 1 \in DOMAIN mQueue
         /\ Tail(mQueue) \in Seq(Event) /\ Len(Tail(mQueue)) = Len(mQueue) - 1
         /\ \A i \in DOMAIN Tail(mQueue) :
              i \in Nat /\ i + 1 # 1 /\ i + 1 \in DOMAIN mQueue /\ Tail(mQueue)[i] = mQueue[i + 1]
<1>1. mQueue \in Seq(Event) /\ mQueue # << >>
  BY DEF QueueShape
<1>2. Len(mQueue) \in Nat /\ Len(mQueue) > 0 /\ DOMAIN mQueue = 1 .. Len(mQueue)
  BY <1>1, EmptySeq, LenProperties
<1> QED
  BY <1>1, <1>2, HeadTailProperties DEF First

\* The event at the front goes.
LEMMA DropFacts ==
  ASSUME QueueInv, mQueue # << >>, drain.pc # "idle", ~selfReplaced, DropEvent,
         UNCHANGED <<registry, signaled, selfReplaced, wild>>
  PROVE  QueueInv'
<1>1. /\ mQueue' = Tail(mQueue) /\ drain' = [pc |-> "event"]
      /\ UNCHANGED <<mEventHandles, info, signaled, selfReplaced, wild>>
  BY DEF DropEvent, registry
<1>2. Registered' = Registered
  BY <1>1 DEF Registered, Listed
<1>3. /\ Tail(mQueue) \in Seq(Event) /\ Len(Tail(mQueue)) = Len(mQueue) - 1
      /\ \A i \in DOMAIN Tail(mQueue) :
           i \in Nat /\ i + 1 # 1 /\ i + 1 \in DOMAIN mQueue /\ Tail(mQueue)[i] = mQueue[i + 1]
  BY FrontFacts DEF QueueInv
<1>4. QueueShape'
  <2>1. Len(mQueue) \in Nat /\ Len(mQueue) <= MaxQueue /\ MaxQueue \in Nat
    BY EventAssumption DEF QueueInv, QueueShape
  <2> QED
    BY <1>1, <1>3, <2>1 DEF QueueInv, QueueShape
<1>5. \A i \in DOMAIN mQueue' :
        /\ \A h \in Registered' : h \in mQueue'[i].birth <=> info'[h].Ready
        /\ mQueue'[i].told = {}
  BY <1>1, <1>2, <1>3 DEF QueueInv, QueueKnowsListeners
<1>6. QueueKnowsListeners'
  BY <1>1, <1>5 DEF QueueKnowsListeners, Walking
<1>7. WalkHasPlace'
  BY <1>1 DEF WalkHasPlace, Walking
<1> QED
  BY <1>4, <1>6, <1>7 DEF QueueInv

\* The walk goes on from a handler that is not due or has been told.  When it is the last
\* of the list, everybody who is due has been told.
LEMMA AdvanceFacts ==
  ASSUME EventInv, Walking, ~selfReplaced, drain.at \in Due => drain.at \in First.told, Advance,
         UNCHANGED <<registry, signaled, selfReplaced, wild>>
  PROVE  /\ QueueInv'
         /\ mQueue' # mQueue => Due \subseteq First.told
<1>1. /\ mEventHandles \in Seq(Handle) /\ IsInjective(mEventHandles)
      /\ DOMAIN mEventHandles = 1 .. Len(mEventHandles) /\ Len(mEventHandles) \in Nat
  BY LenProperties DEF EventInv, RegistryInv, RegistryShape
<1>2. QueueInv /\ QueueShape /\ QueueKnowsListeners /\ mQueue # << >>
  BY DEF EventInv, QueueInv, QueueKnowsListeners
<1>3. PICK p \in DOMAIN mEventHandles : WalkAt(p)
  BY DEF EventInv, QueueInv, WalkHasPlace
<1>4. p = CHOOSE i \in DOMAIN mEventHandles : mEventHandles[i] = drain.at
  BY <1>1, <1>3 DEF WalkAt, IsInjective
<1>5. \/ p = Len(mEventHandles) /\ DropEvent
      \/ /\ p # Len(mEventHandles) /\ UNCHANGED mQueue
         /\ drain' = [pc |-> "walk", at |-> mEventHandles[p + 1]]
  BY <1>4 DEF Advance
<1>6. Registered' = Registered /\ UNCHANGED <<mEventHandles, info, signaled, selfReplaced, wild>>
  BY DEF registry, Registered, Listed
<1>7. CASE p = Len(mEventHandles) /\ DropEvent
  <2>1. QueueInv'
    BY <1>2, <1>7, DropFacts DEF Walking
  <2>2. Listed = Before(mEventHandles, p) \cup {drain.at}
    <3>1. 1 .. Len(mEventHandles) = (1 .. (p - 1)) \cup {p}
      BY <1>1, <1>7
    <3> QED
      BY <1>1, <1>3, <3>1 DEF Listed, Range, Before, WalkAt
  <2>3. Due \subseteq First.told
    BY <1>3, <2>2 DEF WalkAt, Due, Registered
  <2> QED
    BY <2>1, <2>3
<1>8. CASE /\ p # Len(mEventHandles) /\ UNCHANGED mQueue
           /\ drain' = [pc |-> "walk", at |-> mEventHandles[p + 1]]
  <2>1. p \in Nat /\ p + 1 \in DOMAIN mEventHandles /\ p + 1 \in (p + 1) .. Len(mEventHandles)
    BY <1>1, <1>8
  <2>2. mEventHandles[p + 1] \in Handle
    BY <1>1, <2>1
  <2>3. Before(mEventHandles, p + 1) = Before(mEventHandles, p) \cup {drain.at}
    <3>1. 1 .. ((p + 1) - 1) = (1 .. (p - 1)) \cup {p}
      BY <1>1, <2>1
    <3> QED
      BY <1>3, <3>1 DEF Before, WalkAt
  <2>4. After(mEventHandles, p + 1) \subseteq After(mEventHandles, p)
    <3>1. ((p + 1) + 1) .. Len(mEventHandles) \subseteq (p + 1) .. Len(mEventHandles)
      BY <1>1, <2>1
    <3> QED
      BY <3>1 DEF After
  <2>5. mEventHandles[p + 1] \in After(mEventHandles, p)
    BY <2>1 DEF After
  <2>6. First' = First /\ Due' = Due
    BY <1>6, <1>8 DEF First, Due
  <2>7. WalkAt(p + 1)'
    BY <1>3, <1>6, <1>8, <2>3, <2>4, <2>5, <2>6 DEF WalkAt
  <2>8. WalkHasPlace'
    BY <1>6, <2>1, <2>7 DEF WalkHasPlace
  <2>9. QueueShape'
    BY <1>2, <1>6, <1>8, <2>2 DEF QueueShape
  <2>10. QueueKnowsListeners'
    BY <1>2, <1>6, <1>8 DEF QueueKnowsListeners, Walking
  <2> QED
    BY <1>8, <2>8, <2>9, <2>10 DEF QueueInv
<1> QED
  BY <1>5, <1>7, <1>8

\* What a registration takes out of the events that wait: a handler that has the address
\* is a new one.
LEMMA RenewedFacts ==
  ASSUME QueueShape, NEW h,
         mQueue' = [i \in DOMAIN mQueue |->
                      [mQueue[i] EXCEPT !.birth = @ \ {h}, !.told = @ \ {h}]]
  PROVE  /\ mQueue' \in Seq(Event) /\ Len(mQueue') = Len(mQueue)
         /\ mQueue' = << >> <=> mQueue = << >>
         /\ DOMAIN mQueue' = DOMAIN mQueue
         /\ \A i \in DOMAIN mQueue : /\ mQueue'[i].EventType = mQueue[i].EventType
                                     /\ mQueue'[i].birth = mQueue[i].birth \ {h}
                                     /\ mQueue'[i].told = mQueue[i].told \ {h}
         /\ mQueue # << >> => mQueue'[1] = First'
<1>1. mQueue \in Seq(Event) /\ Len(mQueue) \in Nat /\ DOMAIN mQueue = 1 .. Len(mQueue)
  BY LenProperties DEF QueueShape
<1>2. \A i \in DOMAIN mQueue : mQueue[i] \in Event
  BY <1>1, ElementOfSeq
<1>3. \A i \in DOMAIN mQueue :
        /\ mQueue'[i] = [mQueue[i] EXCEPT !.birth = @ \ {h}, !.told = @ \ {h}]
        /\ mQueue'[i] \in Event
  BY <1>2 DEF Event
<1>4. mQueue' \in Seq(Event) /\ Len(mQueue') = Len(mQueue)
  <2>1. mQueue' \in [1 .. Len(mQueue) -> Event]
    BY <1>1, <1>3
  <2> QED
    BY <1>1, <2>1, FunctionIsSeq
<1>5. mQueue' = << >> <=> mQueue = << >>
  BY <1>1, <1>4, EmptySeq
<1>6. \A i \in DOMAIN mQueue : /\ mQueue'[i].EventType = mQueue[i].EventType
                               /\ mQueue'[i].birth = mQueue[i].birth \ {h}
                               /\ mQueue'[i].told = mQueue[i].told \ {h}
  BY <1>2, <1>3 DEF Event
<1>7. mQueue # << >> => mQueue'[1] = First'
  <2> SUFFICES ASSUME mQueue' # << >> PROVE mQueue'[1] = First'
    BY <1>5
  <2>1. Head(mQueue') = mQueue'[1]
    BY <1>4, HeadIsFirst
  <2> QED
    BY <2>1 DEF First
<1> QED
  BY <1>4, <1>5, <1>6, <1>7

\* The application's calls as a whole: they go on while no event waits.
LEMMA ApplicationInv ==
  ASSUME EventInv, ~wild, Application
  PROVE  EventInv' /\ UNCHANGED <<mQueue, drain>>
<1>1. /\ drain.pc = "idle" /\ ~signaled /\ UNCHANGED <<mQueue, signaled, drain, selfReplaced>>
      /\ \/ RegisterStep \/ UnregisterStep \/ RegisterBegin
         \/ \E names \in Names : UnregisterBegin(names)
  BY DEF Application, Quiet, queueing
<1>2. mQueue = << >> /\ ~selfReplaced /\ wild \in BOOLEAN
  BY <1>1 DEF EventInv, QueueInv, QueueShape, QueueKnowsListeners
<1>3. Undisturbed
  BY <1>1, <1>2 DEF Undisturbed, EventInv
<1>4. RegistryInv' /\ CallInv' /\ wild' \in BOOLEAN
  <2>1. CASE RegisterStep
    <3>1. ASSUME NEW h \in Handle, NEW types \in Masks, NEW ok \in BOOLEAN,
                 AllocateHandle(h, types, ok)
          PROVE  RegistryInv' /\ CallInv' /\ wild' \in BOOLEAN
      <4>1. types \in SUBSET Kind
        BY EventAssumption
      <4> QED
        BY <1>3, <3>1, <4>1, AllocateHandleInv
    <3> QED
      BY <1>3, <2>1, <3>1, WalkingInv, FreeEntryInv, CheckCounterInv, CountUpInv, LinkForwardInv
         DEF RegisterStep
  <2>2. CASE UnregisterStep
    BY <1>3, <2>2, WalkingInv, FindHitInv, CountDownInv, CancelPollsInv DEF UnregisterStep
  <2>3. CASE RegisterBegin \/ \E names \in Names : UnregisterBegin(names)
    BY <1>3, <2>3, WalkingInv
  <2> QED
    BY <1>1, <2>1, <2>2, <2>3
<1>5. QueueShape'
  BY <1>1, <1>2, <1>4 DEF EventInv, QueueInv, QueueShape
<1>6. QueueKnowsListeners' /\ WalkHasPlace'
  BY <1>1, <1>2 DEF QueueKnowsListeners, WalkHasPlace, Walking
<1> QED
  BY <1>1, <1>4, <1>5, <1>6 DEF EventInv, QueueInv

\* A step of the queue or of the walk leaves the registry alone.
LEMMA RegistryRests ==
  ASSUME RegistryInv, CallInv, ~wild, UNCHANGED <<registry, app, selfReplaced>>,
         drain'.pc = "callback" => drain.pc = "callback" \/ Registered # {}
  PROVE  /\ RegistryInv' /\ CallInv' /\ Registered' = Registered /\ Listed' = Listed
         /\ UNCHANGED <<mEventHandles, info>>
<1>1. /\ UNCHANGED <<mEventHandles, info, mNumberOfEventHandles, timers, handleLost, miscounted,
                     pollsCut>>
      /\ Registered' = Registered /\ Listed' = Listed /\ InFlight' = InFlight /\ Held' = Held
  BY DEF registry, Registered, Listed, InFlight, Held
<1>2. RegistryInv'
  BY <1>1 DEF RegistryInv, RegistryShape, CounterMatchesList, PollsFollowHandlers
<1>3. CallKeepsFooting' /\ CallKnows'
  BY <1>1 DEF CallInv, CallKeepsFooting, CallKnows
<1>4. PollsKnown'
  <2>1. ~miscounted /\ Registered # {} => mNumberOfEventHandles > 0 /\ mNumberOfEventHandles # 0
    BY CounterFacts
  <2>2. NeedsPolls' <=> NeedsPolls
    BY <1>1 DEF NeedsPolls
  <2> QED
    BY <1>1, <2>1, <2>2 DEF CallInv, PollsKnown
<1> QED
  BY <1>1, <1>2, <1>3, <1>4 DEF CallInv

\* A handler registers another one while the walk stands on it: the entries that wait to
\* be freed go, and the walk keeps its place unless it stands on one of them.
LEMMA CallbackRegisterInv ==
  ASSUME EventInv, ~wild, NEW h \in Handle, NEW types \in SUBSET Kind,
         NEW outcome \in Outcome, CallbackRegister(h, types, outcome)
  PROVE  EventInv' /\ Len(mQueue') = Len(mQueue)
<1>1. /\ drain.pc = "callback" /\ EventRegisterHandler(h, types, outcome)
      /\ selfReplaced' = (selfReplaced \/ drain.at \notin Registered)
      /\ UNCHANGED <<signaled, drain, app, miscounted>>
  BY DEF CallbackRegister, CallbackCalls
<1>2. QueueShape /\ QueueKnowsListeners /\ RegistryInv /\ RegistryShape /\ CallInv
  BY DEF EventInv, QueueInv, RegistryInv
<1>3. /\ RegistryInv' /\ CallInv' /\ wild' \in BOOLEAN /\ h \notin Registered
      /\ \/ Registered' = Registered /\ mEventHandles' = Kept
         \/ /\ Registered' = Registered \cup {h} /\ mEventHandles' = Append(Kept, h)
            /\ ~info'[h].Ready
      /\ \A g \in Registered : info'[g] = info[g]
  BY <1>1, <1>2, RegisterFacts
<1>4. /\ mQueue' \in Seq(Event) /\ Len(mQueue') = Len(mQueue)
      /\ mQueue' = << >> <=> mQueue = << >>
      /\ DOMAIN mQueue' = DOMAIN mQueue
      /\ \A i \in DOMAIN mQueue : /\ mQueue'[i].EventType = mQueue[i].EventType
                                  /\ mQueue'[i].birth = mQueue[i].birth \ {h}
                                  /\ mQueue'[i].told = mQueue[i].told \ {h}
      /\ mQueue # << >> => mQueue'[1] = First'
  BY <1>1, <1>2, RenewedFacts DEF EventRegisterHandler
<1>5. Walking /\ mQueue # << >> /\ First = mQueue[1] /\ 1 \in DOMAIN mQueue
  BY <1>1, <1>2, FrontFacts DEF QueueKnowsListeners, Walking
<1>6. QueueShape'
  <2>1. selfReplaced' \in BOOLEAN
    BY <1>1, <1>2 DEF QueueShape
  <2> QED
    BY <1>1, <1>2, <1>3, <1>4, <2>1 DEF QueueShape
<1>7. QueueKnowsListeners'
  <2>1. ASSUME NEW i \in DOMAIN mQueue, NEW g \in Registered'
        PROVE  g \in mQueue'[i].birth <=> info'[g].Ready
    <3>1. CASE g \in Registered
      BY <1>1, <1>2, <1>3, <1>4, <3>1 DEF QueueKnowsListeners
    <3>2. CASE g = h /\ ~info'[h].Ready
      BY <1>4, <3>2
    <3> QED
      BY <1>3, <3>1, <3>2
  <2>2. \A i \in DOMAIN mQueue : i # 1 => mQueue'[i].told = {}
    BY <1>2, <1>4 DEF QueueKnowsListeners
  <2> QED
    BY <1>1, <1>4, <1>5, <2>1, <2>2 DEF QueueKnowsListeners, Walking
<1>8. WalkHasPlace'
  <2> SUFFICES ASSUME ~selfReplaced'
               PROVE  \E q \in DOMAIN mEventHandles' : WalkAt(q)'
    BY DEF WalkHasPlace
  <2>1. ~selfReplaced /\ drain.at \in Registered
    BY <1>1
  <2>2. PICK p \in DOMAIN mEventHandles : WalkAt(p)
    BY <1>5, <2>1 DEF EventInv, QueueInv, WalkHasPlace
  <2>3. mEventHandles[p] = drain.at /\ mEventHandles[p] \in Registered
    BY <2>1, <2>2 DEF WalkAt
  <2>4. PICK q \in DOMAIN Kept : /\ Kept[q] = mEventHandles[p]
                                 /\ Before(Kept, q) = Before(mEventHandles, p) \cap Registered
                                 /\ After(Kept, q) = After(mEventHandles, p) \cap Registered
    BY <1>2, <2>3, KeptFacts
  <2>5. /\ q \in DOMAIN mEventHandles' /\ mEventHandles'[q] = drain.at
        /\ Before(mEventHandles', q) = Before(Kept, q)
        /\ After(mEventHandles', q) \subseteq After(Kept, q) \cup {h}
    <3>1. CASE mEventHandles' = Kept
      BY <2>3, <2>4, <3>1
    <3>2. CASE mEventHandles' = Append(Kept, h)
      <4>1. Kept \in Seq(Handle) /\ Len(Kept) \in Nat /\ DOMAIN Kept = 1 .. Len(Kept)
        BY <1>2, KeptFacts, LenProperties
      <4>2. /\ DOMAIN Append(Kept, h) = 1 .. (Len(Kept) + 1)
            /\ Len(Append(Kept, h)) = Len(Kept) + 1
            /\ \A i \in 1 .. Len(Kept) : Append(Kept, h)[i] = Kept[i]
            /\ Append(Kept, h)[Len(Kept) + 1] = h
        BY <4>1, AppendFacts
      <4>3. q \in 1 .. (Len(Kept) + 1) /\ Append(Kept, h)[q] = Kept[q]
        BY <4>1, <4>2
      <4>4. Before(Append(Kept, h), q) = Before(Kept, q)
        <5>1. \A i \in 1 .. (q - 1) : Append(Kept, h)[i] = Kept[i]
          BY <4>1, <4>2
        <5> QED
          BY <5>1 DEF Before
      <4>5. After(Append(Kept, h), q) \subseteq After(Kept, q) \cup {h}
        <5>1. \A i \in (q + 1) .. (Len(Kept) + 1) :
                \/ i \in (q + 1) .. Len(Kept) /\ Append(Kept, h)[i] = Kept[i]
                \/ Append(Kept, h)[i] = h
          BY <4>1, <4>2
        <5> QED
          BY <4>2, <5>1 DEF After
      <4> QED
        BY <2>3, <2>4, <3>2, <4>2, <4>3, <4>4, <4>5
    <3> QED
      BY <1>3, <3>1, <3>2
  <2>6. First'.told = First.told \ {h}
    BY <1>4, <1>5
  <2>7. Due' \subseteq Due \ {h}
    <3>1. First'.birth = First.birth \ {h} /\ First'.EventType = First.EventType
      BY <1>4, <1>5
    <3> QED
      BY <1>3, <3>1 DEF Due
  <2>8. WalkAt(q)'
    <3>1. Before(mEventHandles', q) \cap Due' \subseteq First'.told
      BY <2>2, <2>4, <2>5, <2>6, <2>7 DEF WalkAt
    <3>2. After(mEventHandles', q) \cap First'.told = {}
      BY <2>2, <2>4, <2>5, <2>6 DEF WalkAt
    <3>3. drain'.at \in First'.told
      BY <1>1, <1>3, <2>1, <2>2, <2>6 DEF WalkAt
    <3> QED
      BY <1>1, <2>5, <3>1, <3>2, <3>3 DEF WalkAt
  <2> QED
    BY <2>5, <2>8
<1> QED
  BY <1>3, <1>4, <1>6, <1>7, <1>8 DEF EventInv, QueueInv

\* A handler unregisters handlers while the walk stands on it: they stay in the list.
LEMMA CallbackUnregisterInv ==
  ASSUME EventInv, ~wild, NEW names, CallbackUnregister(names)
  PROVE  EventInv' /\ UNCHANGED mQueue
<1>1. /\ drain.pc = "callback" /\ EventUnregisterHandler(names)
      /\ UNCHANGED <<mQueue, signaled, drain, app, selfReplaced, wild>>
  BY DEF CallbackUnregister, CallbackCalls, queueing
<1>2. QueueShape /\ QueueKnowsListeners /\ WalkHasPlace /\ RegistryInv /\ CallInv
  BY DEF EventInv, QueueInv
<1>3. /\ RegistryInv' /\ CallInv' /\ UNCHANGED mEventHandles
      /\ Registered' = Registered \ names
      /\ \A g \in Registered' : info'[g] = info[g]
  BY <1>1, <1>2, UnregisterFacts
<1>4. QueueShape'
  BY <1>1, <1>2 DEF QueueShape
<1>5. QueueKnowsListeners'
  BY <1>1, <1>2, <1>3 DEF QueueKnowsListeners, Walking
<1>6. First' = First /\ Due' \subseteq Due
  BY <1>1, <1>3 DEF First, Due
<1>7. WalkHasPlace'
  BY <1>1, <1>2, <1>3, <1>6 DEF WalkHasPlace, WalkAt, Walking
<1> QED
  BY <1>1, <1>3, <1>4, <1>5, <1>7 DEF EventInv, QueueInv

\* A poll queues an event; it finds the queue signaled or empty, nobody has been told.
LEMMA AddEventInv ==
  ASSUME EventInv, ~wild, NEW kind \in Kind, NEW ok \in BOOLEAN,
         EventAddEventToQueue(kind, ok)
  PROVE  EventInv' /\ Len(mQueue') >= Len(mQueue)
<1> DEFINE e == [EventType |-> kind, birth |-> Registered, told |-> {}]
<1>1. /\ drain.pc = "idle" /\ Len(mQueue) < MaxQueue /\ signaled' = TRUE
      /\ mQueue' = IF ok THEN Append(mQueue, e) ELSE mQueue
      /\ UNCHANGED <<registry, drain, app, selfReplaced, wild>>
  BY DEF EventAddEventToQueue
<1>2. QueueShape /\ QueueKnowsListeners /\ RegistryInv /\ RegistryShape /\ CallInv
  BY DEF EventInv, QueueInv, RegistryInv
<1>3. /\ RegistryInv' /\ CallInv' /\ Registered' = Registered /\ Listed' = Listed
  BY <1>1, <1>2, RegistryRests
<1>6. mQueue \in Seq(Event) /\ Len(mQueue) \in Nat /\ DOMAIN mQueue = 1 .. Len(mQueue)
  BY <1>2, LenProperties DEF QueueShape
<1>7. e \in Event
  <2>1. Registered \subseteq Handle
    BY <1>2, RegisteredFacts
  <2> QED
    BY <2>1 DEF Event
<1>8. mQueue' \in Seq(Event) /\ Len(mQueue') \in {Len(mQueue), Len(mQueue) + 1}
      /\ \A i \in DOMAIN mQueue' : \/ i \in DOMAIN mQueue /\ mQueue'[i] = mQueue[i]
                                   \/ mQueue'[i] = e
  <2> HIDE DEF e
  <2>1. CASE ok
    <3>1. /\ mQueue' \in Seq(Event) /\ Len(mQueue') = Len(mQueue) + 1
          /\ DOMAIN mQueue' = 1 .. (Len(mQueue) + 1)
          /\ \A i \in 1 .. Len(mQueue) : mQueue'[i] = mQueue[i]
          /\ mQueue'[Len(mQueue) + 1] = e
      BY <1>1, <1>6, <1>7, <2>1, AppendFacts
    <3>2. \A i \in 1 .. (Len(mQueue) + 1) : i \in 1 .. Len(mQueue) \/ i = Len(mQueue) + 1
      BY <1>6
    <3> QED
      BY <1>6, <3>1, <3>2
  <2>2. CASE ~ok
    BY <1>1, <1>6, <2>2
  <2> QED
    BY <2>1, <2>2
<1>9. \A i \in DOMAIN mQueue' : mQueue'[i].birth = Registered' /\ mQueue'[i].told = {}
  <2>1. e.birth = Registered /\ e.told = {}
    OBVIOUS
  <2> HIDE DEF e
  <2> QED
    BY <1>1, <1>2, <1>3, <1>8, <2>1 DEF QueueKnowsListeners, Walking
<1> HIDE DEF e
<1>10. QueueShape' /\ Len(mQueue') >= Len(mQueue)
  <2>1. Len(mQueue') <= MaxQueue /\ Len(mQueue') >= Len(mQueue)
    BY <1>1, <1>6, <1>8, EventAssumption
  <2> QED
    BY <1>1, <1>2, <1>8, <2>1 DEF QueueShape
<1>11. QueueKnowsListeners' /\ WalkHasPlace'
  BY <1>1, <1>2, <1>9 DEF QueueKnowsListeners, WalkHasPlace, Walking
<1> QED
  BY <1>3, <1>10, <1>11 DEF EventInv, QueueInv

\* The pointer poll cancels its own timer.
LEMMA PollGivesUpInv ==
  ASSUME EventInv, ~wild, PointerPollGivesUp
  PROVE  EventInv' /\ UNCHANGED mQueue
<1>1. /\ timers["pointer"].current
      /\ timers' = [timers EXCEPT !["pointer"] = Cancelled(timers["pointer"])]
      /\ drain.pc = "idle"
      /\ UNCHANGED <<mEventHandles, info, mNumberOfEventHandles, handleLost, miscounted, pollsCut,
                     mQueue, signaled, drain, app, selfReplaced, wild>>
  BY DEF PointerPollGivesUp, queueing
<1>2. RegistryInv /\ RegistryShape /\ QueueInv /\ CallInv
  BY DEF EventInv, RegistryInv
<1>3. /\ Registered' = Registered /\ Listed' = Listed /\ First' = First /\ Due' = Due
      /\ InFlight' = InFlight /\ Held' = Held
  BY <1>1 DEF Registered, Listed, First, Due, InFlight, Held
<1> DEFINE t == timers["pointer"]
<1>4. t \in Timer /\ (t.current => t.live > 0) /\ timers \in [Kind -> Timer]
  BY <1>2 DEF RegistryInv, RegistryShape, PollsFollowHandlers, Kind
<1>5. /\ Cancelled(t) \in Timer /\ ~Cancelled(t).current
      /\ (t.live = IF t.current THEN 1 ELSE 0) => Cancelled(t).live = 0
  <2> HIDE DEF t
  <2> QED
    BY <1>4, CancelledFacts
<1>6. timers' \in [Kind -> Timer]
  BY <1>1, <1>4, <1>5
<1>7. timers'["pointer"] = Cancelled(t) /\ timers'["key"] = timers["key"]
  BY <1>1, <1>4 DEF Kind
<1> HIDE DEF t
<1>8. PollsFollowHandlers'
  BY <1>1, <1>2, <1>5, <1>7 DEF RegistryInv, PollsFollowHandlers, Kind, t
<1>9. RegistryInv'
  BY <1>1, <1>2, <1>3, <1>6, <1>8 DEF RegistryInv, RegistryShape, CounterMatchesList
<1>10. QueueInv'
  BY <1>1, <1>2, <1>3 DEF QueueInv, QueueShape, QueueKnowsListeners, WalkHasPlace, WalkAt, Walking
<1>11. CallKeepsFooting' /\ CallKnows'
  BY <1>1, <1>2, <1>3 DEF CallInv, CallKeepsFooting, CallKnows
<1>12. PollsKnown'
  <2>1. NeedsPolls' <=> NeedsPolls
    BY <1>1 DEF NeedsPolls
  <2> HIDE DEF t
  <2>2. (\A k \in Kind : ~timers[k].current) => \A k \in Kind : ~timers'[k].current
    BY <1>5, <1>7 DEF Kind
  <2> QED
    BY <1>1, <1>2, <1>3, <1>7, <2>1, <2>2 DEF CallInv, PollsKnown
<1> QED
  BY <1>1, <1>2, <1>9, <1>10, <1>11, <1>12 DEF EventInv, CallInv

\* The wake-up flags everybody in the list, so that the flag says who listened.
LEMMA DrainBeginInv ==
  ASSUME EventInv, ~wild, DrainBegin
  PROVE  EventInv' /\ UNCHANGED mQueue
<1>1. /\ drain.pc = "idle" /\ signaled' = FALSE /\ drain' = [pc |-> "event"]
      /\ info' = [h \in Handle |-> IF h \in Listed THEN [info[h] EXCEPT !.Ready = TRUE]
                                   ELSE info[h]]
      /\ UNCHANGED <<mEventHandles, mNumberOfEventHandles, timers, handleLost, miscounted, pollsCut,
                     mQueue, app, selfReplaced, wild>>
  BY DEF DrainBegin
<1>2. RegistryInv /\ RegistryShape /\ QueueShape /\ QueueKnowsListeners /\ CallInv
  BY DEF EventInv, RegistryInv, QueueInv
<1>3. Listed' = Listed /\ InFlight' = InFlight /\ Held' = Held /\ Listed \subseteq Handle /\ Registered \subseteq Listed
  BY <1>1, <1>2, RegisteredFacts DEF Listed, InFlight, Held
<1>4. \A h \in Handle : /\ info'[h] \in Info
                        /\ info'[h].Registered = info[h].Registered
                        /\ h \in Listed => info'[h].Ready
                        /\ h \notin Listed => info'[h] = info[h]
  <2>1. \A h \in Handle : info[h] \in Info
    BY <1>2 DEF RegistryShape
  <2> QED
    BY <1>1, <2>1 DEF Info
<1>5. info' \in [Handle -> Info]
  BY <1>1, <1>4
<1>6. Registered' = Registered
  BY <1>3, <1>4 DEF Registered
<1>7. RegistryInv'
  BY <1>1, <1>2, <1>3, <1>4, <1>5, <1>6
     DEF RegistryInv, RegistryShape, CounterMatchesList, PollsFollowHandlers
<1>8. \A i \in DOMAIN mQueue : /\ \A h \in Registered : h \in mQueue[i].birth /\ info'[h].Ready
                               /\ mQueue[i].told = {}
  BY <1>1, <1>2, <1>3, <1>4 DEF QueueKnowsListeners, Walking
<1>9. QueueShape'
  BY <1>1, <1>2 DEF QueueShape
<1>10. QueueKnowsListeners' /\ WalkHasPlace'
  BY <1>1, <1>2, <1>6, <1>8 DEF QueueKnowsListeners, WalkHasPlace, Walking
<1>11. CallKeepsFooting' /\ CallKnows'
  <2>1. app.pc = "free" => app.at \in Handle
    BY <1>2 DEF CallInv, Calls
  <2>2. app.pc \in {"count", "link"} => app.h \in Handle
    BY <1>2 DEF CallInv, Calls
  <2> QED
    BY <1>1, <1>2, <1>3, <1>4, <2>1, <2>2 DEF CallInv, CallKeepsFooting, CallKnows
<1>12. PollsKnown'
  BY <1>1, <1>2, <1>6 DEF CallInv, PollsKnown, NeedsPolls
<1> QED
  BY <1>1, <1>2, <1>7, <1>9, <1>10, <1>11, <1>12 DEF EventInv, QueueInv, CallInv

\* The drain ends with an empty queue, and frees who has unregistered.
LEMMA DrainEndInv ==
  ASSUME EventInv, ~wild, DrainEnd
  PROVE  EventInv' /\ UNCHANGED mQueue
<1>1. /\ drain.pc = "event" /\ mQueue = << >> /\ mEventHandles' = Kept
      /\ info' = [h \in Handle |-> IF h \in Registered \cup InFlight THEN info[h] ELSE Freed]
      /\ wild' = (Held \ Registered # {}) /\ drain' = [pc |-> "idle"]
      /\ UNCHANGED <<mNumberOfEventHandles, timers, handleLost, miscounted, pollsCut, mQueue,
                     signaled, app, selfReplaced>>
  BY DEF DrainEnd, queueing
<1>2. RegistryInv /\ RegistryShape /\ QueueShape /\ QueueKnowsListeners /\ CallInv
  BY DEF EventInv, RegistryInv, QueueInv
<1>3. /\ Kept \in Seq(Handle) /\ IsInjective(Kept) /\ Listed' = Registered
      /\ InFlight' = InFlight /\ Held' = Held
  BY <1>1, <1>2, KeptFacts DEF Listed, InFlight, Held
<1>4. /\ Registered \subseteq Handle /\ \A h \in Registered : info[h].Registered
      /\ Registered \subseteq Listed
  BY <1>2, RegisteredFacts DEF Registered
<1>5. \A h \in Handle : info'[h] \in Info /\ (h \notin Listed' \cup InFlight' => info'[h] = Freed)
  <2>1. Freed \in Info /\ \A h \in Handle : info[h] \in Info
    BY <1>2 DEF RegistryShape, Freed, Info
  <2> QED
    BY <1>1, <1>3, <2>1
<1>6. info' \in [Handle -> Info]
  BY <1>1, <1>5
<1>7. Registered' = Registered
  BY <1>1, <1>3, <1>4 DEF Registered
<1>8. RegistryInv'
  BY <1>1, <1>2, <1>3, <1>5, <1>6, <1>7
     DEF RegistryInv, RegistryShape, CounterMatchesList, PollsFollowHandlers
<1>9. QueueShape'
  BY <1>1, <1>2 DEF QueueShape
<1>10. QueueKnowsListeners' /\ WalkHasPlace'
  BY <1>1, <1>2 DEF QueueKnowsListeners, WalkHasPlace, Walking
<1>11. CallKeepsFooting' /\ CallKnows'
  <2> SUFFICES ASSUME ~wild' PROVE CallKeepsFooting' /\ CallKnows'
    BY DEF CallKeepsFooting, CallKnows
  <2>1. Held \subseteq Registered
    BY <1>1
  <2>2. app.pc # "free"
    <3> SUFFICES ASSUME app.pc = "free" PROVE FALSE
      OBVIOUS
    <3>1. app.at \in Held
      BY DEF Held
    <3> QED
      BY <1>2, <2>1, <3>1 DEF CallInv, CallKnows, Registered
  <2>3. app.pc \in {"count", "link"} => info'[app.h] = info[app.h]
    <3> SUFFICES ASSUME app.pc \in {"count", "link"} PROVE info'[app.h] = info[app.h]
      OBVIOUS
    <3>1. app.h \in InFlight /\ app.h \in Handle
      BY <1>2 DEF CallInv, InFlight, Calls
    <3> QED
      BY <1>1, <3>1
  <2> QED
    BY <1>1, <1>2, <1>3, <1>4, <2>1, <2>2, <2>3 DEF CallInv, CallKnows, CallKeepsFooting
<1>12. PollsKnown'
  BY <1>1, <1>2, <1>7 DEF CallInv, PollsKnown, NeedsPolls
<1> QED
  BY <1>1, <1>2, <1>8, <1>9, <1>10, <1>11, <1>12 DEF EventInv, QueueInv, CallInv

\* InternalSignalEvents begins, or there is nobody to call.
LEMMA DrainEventInv ==
  ASSUME EventInv, ~wild, DrainEvent
  PROVE  EventInv' /\ (mQueue' # mQueue => Registered' = {})
<1>1. /\ drain.pc = "event" /\ mQueue # << >>
      /\ \/ mEventHandles = << >> /\ DropEvent
         \/ /\ mEventHandles # << >> /\ UNCHANGED mQueue
            /\ drain' = [pc |-> "walk", at |-> mEventHandles[1]]
      /\ UNCHANGED <<registry, signaled, app, selfReplaced, wild>>
  BY DEF DrainEvent
<1>2. RegistryInv /\ RegistryShape /\ QueueInv /\ QueueShape /\ QueueKnowsListeners /\ CallInv
  BY DEF EventInv, RegistryInv, QueueInv
<1>3. /\ UNCHANGED <<mEventHandles, info, mNumberOfEventHandles, timers, handleLost, signaled,
                     selfReplaced, wild>>
      /\ Registered' = Registered /\ Listed' = Listed /\ ~selfReplaced
  BY <1>1, <1>2 DEF registry, Registered, Listed, QueueKnowsListeners
<1>4. RegistryInv' /\ CallInv'
  <2>1. drain'.pc # "callback"
    BY <1>1 DEF DropEvent
  <2> QED
    BY <1>1, <1>2, <2>1, RegistryRests
<1>5. CASE mEventHandles = << >> /\ DropEvent
  <2>1. Registered = {}
    BY <1>5 DEF Registered, Listed, Range
  <2>2. QueueInv'
    BY <1>1, <1>2, <1>3, <1>5, DropFacts
  <2> QED
    BY <1>3, <1>4, <2>1, <2>2 DEF EventInv
<1>6. CASE /\ mEventHandles # << >> /\ UNCHANGED mQueue
           /\ drain' = [pc |-> "walk", at |-> mEventHandles[1]]
  <2>1. 1 \in DOMAIN mEventHandles /\ mEventHandles[1] \in Handle
    BY <1>2, <1>6, HeadIsFirst DEF RegistryShape
  <2>2. First = mQueue[1] /\ 1 \in DOMAIN mQueue /\ First.told = {} /\ First' = First
    BY <1>1, <1>2, <1>6, FrontFacts DEF QueueKnowsListeners, Walking, First
  <2>3. Before(mEventHandles, 1) = {}
    BY DEF Before
  <2>4. WalkAt(1)'
    BY <1>3, <1>6, <2>2, <2>3 DEF WalkAt
  <2>5. QueueShape'
    BY <1>2, <1>3, <1>6, <2>1 DEF QueueShape
  <2>6. QueueKnowsListeners'
    BY <1>1, <1>2, <1>3, <1>6 DEF QueueKnowsListeners, Walking
  <2>7. WalkHasPlace'
    BY <1>3, <2>1, <2>4 DEF WalkHasPlace
  <2> QED
    BY <1>4, <1>6, <2>5, <2>6, <2>7 DEF EventInv, QueueInv
<1> QED
  BY <1>1, <1>5, <1>6

\* A handler is called: it is registered, was there when the event was queued, and has not
\* been told.
LEMMA WalkCallInv ==
  ASSUME EventInv, ~wild, WalkCall
  PROVE  /\ EventInv' /\ Len(mQueue') = Len(mQueue)
         /\ drain.at \in First.birth \ First.told /\ drain.at \in Registered
<1>1. /\ drain.pc = "walk" /\ Wanted(drain.at)
      /\ drain' = [drain EXCEPT !.pc = "callback"]
      /\ mQueue' = [mQueue EXCEPT ![1].told = @ \cup {drain.at}]
      /\ UNCHANGED <<registry, signaled, app, selfReplaced, wild>>
  BY DEF WalkCall
<1>2. /\ RegistryInv /\ RegistryShape /\ QueueShape /\ QueueKnowsListeners /\ WalkHasPlace
      /\ CallInv
  BY DEF EventInv, RegistryInv, QueueInv
<1>3. /\ UNCHANGED <<mEventHandles, info, mNumberOfEventHandles, timers, handleLost, signaled,
                     selfReplaced, wild>>
      /\ Registered' = Registered /\ Listed' = Listed /\ ~selfReplaced /\ mQueue # << >>
  BY <1>1, <1>2 DEF registry, Registered, Listed, QueueKnowsListeners, Walking
<1>5. PICK p \in DOMAIN mEventHandles : WalkAt(p)
  BY <1>1, <1>2, <1>3 DEF WalkHasPlace, Walking
<1>6. /\ drain.at \in Handle
      /\ drain' = [pc |-> "callback", at |-> drain.at]
  BY <1>1, <1>2 DEF QueueShape
<1>7. drain.at \in Registered
  BY <1>1, <1>5 DEF Wanted, Registered, Listed, Range, WalkAt
<1>4. RegistryInv' /\ CallInv'
  BY <1>1, <1>2, <1>7, RegistryRests
<1>8. First = mQueue[1] /\ First \in Event /\ 1 \in DOMAIN mQueue
  BY <1>2, <1>3, FrontFacts
<1>9. drain.at \in First.birth /\ drain.at \notin First.told
  BY <1>1, <1>2, <1>5, <1>7, <1>8 DEF Wanted, QueueKnowsListeners, WalkAt
<1> DEFINE e == [First EXCEPT !.told = @ \cup {drain.at}]
<1>10. e \in Event /\ e.EventType = First.EventType /\ e.birth = First.birth
       /\ e.told = First.told \cup {drain.at}
  BY <1>6, <1>8 DEF Event
<1>11. mQueue' = [mQueue EXCEPT ![1] = e]
  BY <1>1, <1>8
<1> HIDE DEF e
<1>12. /\ mQueue' \in Seq(Event) /\ Len(mQueue') = Len(mQueue) /\ DOMAIN mQueue' = DOMAIN mQueue
       /\ mQueue'[1] = e /\ \A i \in DOMAIN mQueue : i # 1 => mQueue'[i] = mQueue[i]
       /\ First' = e
  <2>1. /\ mQueue \in Seq(Event) /\ 1 \in 1 .. Len(mQueue) /\ DOMAIN mQueue = 1 .. Len(mQueue)
        /\ Len(mQueue) > 0
    BY <1>2, <1>8, LenProperties DEF QueueShape
  <2>2. mQueue' \in Seq(Event) /\ Len(mQueue') = Len(mQueue)
    BY <1>10, <1>11, <2>1, ExceptSeq
  <2>3. mQueue'[1] = e /\ \A i \in DOMAIN mQueue : i # 1 => mQueue'[i] = mQueue[i]
    BY <1>8, <1>11
  <2>4. mQueue' # << >>
    BY <2>1, <2>2, EmptySeq
  <2>5. Head(mQueue') = mQueue'[1]
    BY <2>2, <2>4, HeadIsFirst
  <2> QED
    BY <1>11, <2>2, <2>3, <2>5 DEF First
<1>13. QueueShape'
  BY <1>2, <1>3, <1>6, <1>12 DEF QueueShape
<1>14. QueueKnowsListeners'
  <2>1. mQueue' # << >>
    BY <1>8, <1>12
  <2>2. \A i \in DOMAIN mQueue' : /\ mQueue'[i].birth = mQueue[i].birth
                                  /\ i # 1 => mQueue'[i].told = mQueue[i].told
    BY <1>8, <1>10, <1>12
  <2> QED
    BY <1>1, <1>2, <1>3, <1>6, <1>12, <2>1, <2>2 DEF QueueKnowsListeners, Walking
<1>15. WalkAt(p)'
  <2>1. drain.at \notin After(mEventHandles, p)
    BY <1>2, <1>5 DEF RegistryShape, IsInjective, After, WalkAt
  <2>2. Due' = Due
    BY <1>3, <1>10, <1>12 DEF Due
  <2> QED
    BY <1>3, <1>5, <1>6, <1>10, <1>12, <2>1, <2>2 DEF WalkAt
<1>16. WalkHasPlace'
  BY <1>3, <1>5, <1>15 DEF WalkHasPlace
<1> QED
  BY <1>4, <1>7, <1>9, <1>12, <1>13, <1>14, <1>16 DEF EventInv, QueueInv

\* The walk goes on from a handler it does not call, or that has returned.
LEMMA WalkGoesOnInv ==
  ASSUME EventInv, ~wild, WalkSkip \/ CallbackReturn
  PROVE  /\ EventInv'
         /\ mQueue' # mQueue => Due \subseteq First.told /\ Registered' = Registered
<1>1. /\ RegistryInv /\ RegistryShape /\ QueueShape /\ QueueKnowsListeners /\ WalkHasPlace
      /\ CallInv
  BY DEF EventInv, RegistryInv, QueueInv
<1>2. /\ UNCHANGED <<registry, signaled, app, selfReplaced>> /\ Walking /\ mQueue # << >>
      /\ UNCHANGED <<mEventHandles, info>>
      /\ Registered' = Registered /\ Listed' = Listed
  BY <1>1 DEF WalkSkip, CallbackReturn, registry, Registered, Listed, Walking, QueueKnowsListeners
<1>3. RegistryInv' /\ CallInv'
  <2>1. drain'.pc = "callback" => drain.pc = "callback"
    BY DEF WalkSkip, CallbackReturn, Advance, DropEvent
  <2> QED
    BY <1>1, <1>2, <2>1, RegistryRests
<1>4. \/ ~selfReplaced /\ Advance /\ UNCHANGED wild
      \/ wild' = TRUE /\ UNCHANGED <<drain, mQueue>>
  BY <1>1 DEF WalkSkip, CallbackReturn, QueueKnowsListeners
<1>5. CASE ~selfReplaced /\ Advance /\ UNCHANGED wild
  <2>1. drain.at \in Due => drain.at \in First.told
    <3>1. CASE WalkSkip
      <4>1. First = mQueue[1] /\ 1 \in DOMAIN mQueue
        BY <1>1, <1>2, FrontFacts
      <4>2. drain.at \notin Due
        BY <1>1, <3>1, <4>1 DEF WalkSkip, Wanted, Due, Registered, First, QueueKnowsListeners
      <4> QED
        BY <4>2
    <3>2. CASE CallbackReturn
      BY <1>1, <1>2, <1>5, <3>2 DEF CallbackReturn, WalkHasPlace, WalkAt
    <3> QED
      BY <3>1, <3>2
  <2>2. QueueInv' /\ (mQueue' # mQueue => Due \subseteq First.told)
    BY <1>2, <1>5, <2>1, AdvanceFacts
  <2> QED
    BY <1>2, <1>3, <2>2 DEF EventInv
<1>6. CASE wild' = TRUE /\ UNCHANGED <<drain, mQueue>>
  <2>1. First' = First /\ Due' = Due
    BY <1>2, <1>6 DEF First, Due
  <2>2. QueueShape'
    BY <1>1, <1>2, <1>6 DEF QueueShape
  <2>3. QueueKnowsListeners'
    BY <1>1, <1>2, <1>6 DEF QueueKnowsListeners, Walking
  <2>4. WalkHasPlace'
    BY <1>1, <1>2, <1>6, <2>1 DEF WalkHasPlace, WalkAt, Walking
  <2> QED
    BY <1>3, <1>6, <2>2, <2>3, <2>4 DEF EventInv, QueueInv
<1> QED
  BY <1>4, <1>5, <1>6

----------------------------------------------------------------------------
(* The theorems. *)

LEMMA EventNextInv == EventInv /\ [Next]_vars => EventInv'
<1> SUFFICES ASSUME EventInv, [Next]_vars PROVE EventInv'
  OBVIOUS
<1>1. CASE UNCHANGED vars
  <2>1. /\ Registered' = Registered /\ Listed' = Listed /\ First' = First /\ Due' = Due
        /\ InFlight' = InFlight /\ Held' = Held
    BY <1>1 DEF vars, Registered, Listed, First, Due, InFlight, Held
  <2>2. RegistryInv'
    BY <1>1, <2>1
       DEF EventInv, RegistryInv, RegistryShape, CounterMatchesList, PollsFollowHandlers, vars
  <2>3. CallInv'
    BY <1>1, <2>1
       DEF EventInv, CallInv, CallKeepsFooting, CallKnows, PollsKnown, NeedsPolls, vars
  <2>4. QueueInv'
    BY <1>1, <2>1
       DEF EventInv, QueueInv, QueueShape, QueueKnowsListeners, WalkHasPlace, WalkAt, Walking, vars
  <2> QED
    BY <2>2, <2>3, <2>4 DEF EventInv
<1>2. CASE ~wild /\ Drain
  BY <1>2, DrainBeginInv, DrainEventInv, WalkCallInv, WalkGoesOnInv, DrainEndInv DEF Drain
<1>3. ASSUME ~wild, NEW h \in Handle, NEW types \in Masks, NEW outcome \in Outcome,
             CallbackRegister(h, types, outcome)
      PROVE  EventInv'
  <2>1. types \in SUBSET Kind
    BY EventAssumption
  <2> QED
    BY <1>3, <2>1, CallbackRegisterInv
<1>4. ASSUME ~wild, NEW names \in Names, CallbackUnregister(names)
      PROVE  EventInv'
  BY <1>4, CallbackUnregisterInv
<1>5. CASE ~wild /\ Application
  BY <1>5, ApplicationInv
<1>6. ASSUME ~wild, NEW kind \in Kind, NEW ok \in BOOLEAN, EventAddEventToQueue(kind, ok)
      PROVE  EventInv'
  BY <1>6, AddEventInv
<1>7. CASE ~wild /\ PointerPollGivesUp
  BY <1>7, PollGivesUpInv
<1> QED
  BY <1>1, <1>2, <1>3, <1>4, <1>5, <1>6, <1>7 DEF Next

\* As long as no two changes of it have met, the counter of handlers counts those that are
\* registered, and the poll timers run as long as somebody is; the walk over the list keeps
\* its footing, and so do the calls of the application, as long as no entry they hold was freed
\* under them: for any number of handlers, whatever the handlers that are called register and
\* unregister, and wherever a drain comes between two statements of the application
\* (OcAppleEventLib.c:195-413).
THEOREM RegistryStaysRight == Spec => []HandlersRight
<1>1. Init => EventInv
  BY EventInitInv
<1>2. EventInv /\ [Next]_vars => EventInv'
  BY EventNextInv
<1>3. EventInv => HandlersRight
  BY EventInvSuffices
<1> QED
  BY <1>1, <1>2, <1>3, PTL DEF Spec

\* A step that calls a handler.
LEMMA CallsListeners ==
  ASSUME EventInv, [Next]_vars
  PROVE  drain.pc = "walk" /\ drain'.pc = "callback" =>
           /\ drain.at \in Head(mQueue).birth \ Head(mQueue).told
           /\ drain.at \in Registered
<1> SUFFICES ASSUME drain.pc = "walk", drain'.pc = "callback"
             PROVE  drain.at \in First.birth \ First.told /\ drain.at \in Registered
  BY DEF First
<1>1. ~wild /\ (WalkCall \/ WalkSkip)
  <2>1. ~UNCHANGED vars /\ ~Application /\ ~PointerPollGivesUp
    BY DEF vars, Application, Quiet, PointerPollGivesUp
  <2>2. \A h, types, outcome : ~CallbackRegister(h, types, outcome)
    BY DEF CallbackRegister, CallbackCalls
  <2>3. \A names : ~CallbackUnregister(names)
    BY DEF CallbackUnregister, CallbackCalls
  <2>4. \A kind, ok : ~EventAddEventToQueue(kind, ok)
    BY DEF EventAddEventToQueue
  <2>5. ~DrainBegin /\ ~DrainEvent /\ ~CallbackReturn /\ ~DrainEnd
    BY DEF DrainBegin, DrainEvent, CallbackReturn, DrainEnd
  <2> QED
    BY <2>1, <2>2, <2>3, <2>4, <2>5 DEF Next, Drain
<1>2. ~WalkSkip
  BY DEF WalkSkip, Advance, DropEvent
<1> QED
  BY <1>1, <1>2, WalkCallInv

\* A step that gives up an event.
LEMMA GivesUpWhatWasTold ==
  ASSUME EventInv, [Next]_vars
  PROVE  Len(mQueue') < Len(mQueue) =>
           \A h \in Head(mQueue).birth \cap Registered' :
             Head(mQueue).EventType \in info[h].EventType => h \in Head(mQueue).told
<1> SUFFICES ASSUME Len(mQueue') < Len(mQueue),
                    NEW h \in First.birth \cap Registered', First.EventType \in info[h].EventType
             PROVE  h \in First.told
  BY DEF First
<1>1. Len(mQueue) \in Nat /\ Len(mQueue') \in Nat
  BY EventNextInv, LenProperties DEF EventInv, QueueInv, QueueShape
<1>2. mQueue' # mQueue /\ ~(Len(mQueue') >= Len(mQueue)) /\ Len(mQueue') # Len(mQueue)
  BY <1>1
<1>3. ~wild /\ (DrainEvent \/ WalkSkip \/ CallbackReturn)
  <2>1. ~wild
    BY <1>2 DEF Next, vars
  <2>2. ~WalkCall /\ ~DrainBegin /\ ~DrainEnd
    BY <1>2, <2>1, WalkCallInv, DrainBeginInv, DrainEndInv
  <2>3. ASSUME NEW g \in Handle, NEW types \in Masks, NEW outcome \in Outcome
        PROVE  ~CallbackRegister(g, types, outcome)
    <3>1. types \in SUBSET Kind
      BY EventAssumption
    <3> QED
      BY <1>2, <2>1, <3>1, CallbackRegisterInv
  <2>4. ASSUME NEW names \in Names PROVE ~CallbackUnregister(names)
    BY <1>2, <2>1, CallbackUnregisterInv
  <2>5. ASSUME NEW kind \in Kind, NEW ok \in BOOLEAN PROVE ~EventAddEventToQueue(kind, ok)
    BY <1>2, <2>1, AddEventInv
  <2>6. ~PointerPollGivesUp /\ ~Application /\ ~UNCHANGED vars
    BY <1>2, <2>1, PollGivesUpInv, ApplicationInv DEF vars
  <2> QED
    BY <2>1, <2>2, <2>3, <2>4, <2>5, <2>6 DEF Next, Drain
<1>4. CASE DrainEvent
  BY <1>2, <1>3, <1>4, DrainEventInv
<1>5. CASE WalkSkip \/ CallbackReturn
  BY <1>2, <1>3, <1>5, WalkGoesOnInv DEF Due
<1> QED
  BY <1>3, <1>4, <1>5

\* A handler is called for an event only if it was registered when the event was queued and
\* still is, and once; and an event is given up only when everybody who was registered for it
\* and still is has been called, for any number of handlers and any length of the queue,
\* whatever the handlers that are called register and unregister and wherever the drain
\* interrupts the application; the list loses an entry only where the model says so, and
\* nothing is claimed of what follows (OcAppleEventLib.c:195-231, 356).
THEOREM EventsReachListeners == Spec => ListenersTold
<1>1. Init => EventInv
  BY EventInitInv
<1>2. EventInv /\ [Next]_vars => EventInv'
  BY EventNextInv
<1>3. EventInv /\ [Next]_vars =>
        [drain.pc = "walk" /\ drain'.pc = "callback" =>
           /\ drain.at \in Head(mQueue).birth \ Head(mQueue).told
           /\ drain.at \in Registered]_vars
  BY CallsListeners
<1>4. EventInv /\ [Next]_vars =>
        [Len(mQueue') < Len(mQueue) =>
           \A h \in Head(mQueue).birth \cap Registered' :
             Head(mQueue).EventType \in info[h].EventType =>
               h \in Head(mQueue).told]_vars
  BY GivesUpWhatWasTold
<1>5. Spec => OnlyListenersTold
  BY <1>1, <1>2, <1>3, PTL DEF Spec, OnlyListenersTold
<1>6. Spec => NobodyLeftOut
  BY <1>1, <1>2, <1>4, PTL DEF Spec, NobodyLeftOut
<1> QED
  BY <1>5, <1>6 DEF ListenersTold

----------------------------------------------------------------------------
(* The buttons of a pointer. *)

Start(button, c) == [button |-> button, cursor |-> c]

LEMMA AfterNoReport ==
  ASSUME NEW button, NEW c
  PROVE  Buttons!AfterReports(button, c, << >>) = Start(button, c)
<1> DEFINE Step(f, n) == IF n = 0 THEN Start(button, c)
                         ELSE Buttons!AfterReport(f[n - 1], << >>[n])
           after == CHOOSE f : f = [n \in 0 .. 0 |-> Step(f, n)]
           w == [n \in 0 .. 0 |-> Start(button, c)]
<1>1. Buttons!AfterReports(button, c, << >>) = after[0]
  BY DEF Buttons!AfterReports, Start
<1>2. w = [n \in 0 .. 0 |-> Step(w, n)]
  OBVIOUS
<1>3. after = [n \in 0 .. 0 |-> Step(after, n)]
  BY <1>2
<1> HIDE DEF after
<1>4. after[0] = Step(after, 0)
  BY <1>3
<1> QED
  BY <1>1, <1>4

LEMMA AfterOneReport ==
  ASSUME NEW button, NEW c, NEW r
  PROVE  Buttons!AfterReports(button, c, <<r>>) = Buttons!AfterReport(Start(button, c), r)
<1> DEFINE Step(f, n) == IF n = 0 THEN Start(button, c)
                         ELSE Buttons!AfterReport(f[n - 1], <<r>>[n])
           after == CHOOSE f : f = [n \in 0 .. 1 |-> Step(f, n)]
           w == [n \in 0 .. 1 |-> IF n = 0 THEN Start(button, c)
                                  ELSE Buttons!AfterReport(Start(button, c), r)]
<1>1. Buttons!AfterReports(button, c, <<r>>) = after[1]
  BY DEF Buttons!AfterReports, Start
<1>2. w = [n \in 0 .. 1 |-> Step(w, n)]
  OBVIOUS
<1>3. after = [n \in 0 .. 1 |-> Step(after, n)]
  BY <1>2
<1> HIDE DEF after
<1>4. after[0] = Step(after, 0) /\ after[1] = Step(after, 1)
  BY <1>3
<1> QED
  BY <1>1, <1>4

LEMMA AfterTwoReports ==
  ASSUME NEW button, NEW c, NEW r, NEW s
  PROVE  Buttons!AfterReports(button, c, <<r, s>>) =
           Buttons!AfterReport(Buttons!AfterReport(Start(button, c), r), s)
<1> DEFINE Step(f, n) == IF n = 0 THEN Start(button, c)
                         ELSE Buttons!AfterReport(f[n - 1], <<r, s>>[n])
           after == CHOOSE f : f = [n \in 0 .. 2 |-> Step(f, n)]
           one == Buttons!AfterReport(Start(button, c), r)
           w == [n \in 0 .. 2 |-> IF n = 0 THEN Start(button, c) ELSE IF n = 1 THEN one
                                  ELSE Buttons!AfterReport(one, s)]
<1>1. Buttons!AfterReports(button, c, <<r, s>>) = after[2]
  BY DEF Buttons!AfterReports, Start
<1>2. w = [n \in 0 .. 2 |-> Step(w, n)]
  OBVIOUS
<1>3. after = [n \in 0 .. 2 |-> Step(after, n)]
  BY <1>2
<1> HIDE DEF after
<1>4. after[0] = Step(after, 0) /\ after[1] = Step(after, 1) /\ after[2] = Step(after, 2)
  BY <1>3
<1> QED
  BY <1>1, <1>4

ButtonInfo ==
  [NumberOfStrokes : 0 .. (MAXIMUM_CLICK_DURATION + 1),
   Polls : 0 .. (MAXIMUM_DOUBLE_CLICK_SPEED + 1),
   PreviousEventType : Buttons!ClickType \cup {"none"},
   PreviousButton : BOOLEAN, CurrentButton : BOOLEAN,
   PreviousPosition : Buttons!Position, Position : Buttons!Position]

LastClick ==
  [type : Buttons!ClickType \cup {"none"}, at : Buttons!Position,
   ago : 0 .. (MAXIMUM_DOUBLE_CLICK_SPEED + 1)]

\* What the listeners know of the left button is what the handler knows, unless they missed
\* its last turn; the last click, sent or not, is the one the handler remembers.
ButtonsInv ==
  /\ buttonInfo \in ButtonInfo /\ cursor \in Buttons!Position
  /\ polling \in BOOLEAN /\ zeroing \in BOOLEAN /\ crowded \in BOOLEAN
  /\ toldLeft \in BOOLEAN /\ missedLeft \in BOOLEAN
  /\ lastClick \in LastClick
  /\ ~crowded /\ polling /\ ~zeroing /\ ~missedLeft =>
       (toldLeft <=> buttonInfo.CurrentButton)
  /\ buttonInfo.PreviousEventType = "CLICK" =>
       /\ lastClick.type = "CLICK" /\ lastClick.at = buttonInfo.Position
       /\ lastClick.ago = buttonInfo.Polls

\* The reports of a poll change what the button is and was, and nothing else of it.
Reported(button, s) ==
  /\ s.button \in ButtonInfo /\ s.cursor \in Buttons!Position
  /\ s.button.Polls = button.Polls
  /\ s.button.PreviousEventType = button.PreviousEventType
  /\ s.button.Position = button.Position

LEMMA ReportFacts ==
  ASSUME NEW s, s.button \in ButtonInfo, s.cursor \in Buttons!Position,
         NEW r \in Buttons!Report
  PROVE  /\ Reported(s.button, Buttons!AfterReport(s, r))
         /\ Buttons!AfterReport(s, r).button.PreviousButton = s.button.CurrentButton
<1> DEFINE t == Buttons!AfterReport(s, r)
<1>1. r.left \in BOOLEAN /\ r.move \in Int
  BY DEF Buttons!Report
<1>2. t.cursor \in Buttons!Position
  BY <1>1, EventsAssumption
     DEF Buttons!AfterReport, Buttons!Moved, Buttons!Position, Buttons!PointerAssumption
<1>3. PICK p \in ButtonInfo : p = s.button
  OBVIOUS
<1>4. t.button = [p EXCEPT !.PreviousButton = p.CurrentButton, !.CurrentButton = r.left]
  BY <1>3 DEF Buttons!AfterReport, Buttons!TakeReport
<1> HIDE DEF t
<1>5. p.CurrentButton \in BOOLEAN
  BY DEF ButtonInfo
<1>6. /\ t.button \in ButtonInfo /\ t.button.PreviousButton = p.CurrentButton
      /\ t.button.Polls = p.Polls /\ t.button.PreviousEventType = p.PreviousEventType
      /\ t.button.Position = p.Position
  BY <1>1, <1>4, <1>5 DEF ButtonInfo
<1> QED
  BY <1>2, <1>3, <1>6 DEF Reported, t

LEMMA ReportsFacts ==
  ASSUME NEW button \in ButtonInfo, NEW c \in Buttons!Position, NEW reports \in Buttons!Reports
  PROVE  /\ Reported(button, Buttons!AfterReports(button, c, reports))
         /\ Len(reports) \in Nat
         /\ reports # << >> /\ ~(Len(reports) > 1) =>
              Buttons!AfterReports(button, c, reports).button.PreviousButton =
                button.CurrentButton
<1> DEFINE s == Start(button, c)
<1>1. Reported(button, s) /\ s.button = button
  BY DEF Reported, Start
<1>2. CASE reports = << >>
  BY <1>1, <1>2, AfterNoReport
<1>3. CASE \E r \in Buttons!Report : reports = <<r>>
  <2>1. PICK r \in Buttons!Report : reports = <<r>>
    BY <1>3
  <2>2. /\ Reported(s.button, Buttons!AfterReport(s, r))
        /\ Buttons!AfterReport(s, r).button.PreviousButton = s.button.CurrentButton
    BY <1>1, ReportFacts DEF Reported
  <2> QED
    BY <1>1, <2>1, <2>2, AfterOneReport
<1>4. CASE \E q, r \in Buttons!Report : reports = <<q, r>>
  <2>1. PICK q \in Buttons!Report, r \in Buttons!Report : reports = <<q, r>>
    BY <1>4
  <2> DEFINE t == Buttons!AfterReport(s, q)
  <2>2. Reported(s.button, t)
    BY <1>1, ReportFacts DEF Reported
  <2> HIDE DEF t
  <2>3. Reported(t.button, Buttons!AfterReport(t, r))
    BY <2>2, ReportFacts DEF Reported
  <2>4. Reported(button, Buttons!AfterReport(t, r))
    BY <1>1, <2>2, <2>3 DEF Reported
  <2> QED
    BY <2>1, <2>4, AfterTwoReports DEF t
<1> QED
  BY <1>2, <1>3, <1>4 DEF Buttons!Reports

LEMMA UptoFacts ==
  ASSUME NEW limit \in Nat, NEW n \in 0 .. (limit + 1)
  PROVE  Buttons!Upto(n, limit) \in 0 .. (limit + 1) /\ Buttons!Upto(0, limit) = 1
BY DEF Buttons!Upto

LEMMA AgeFacts ==
  ASSUME NEW p \in ButtonInfo
  PROVE  /\ Buttons!Age(p) \in ButtonInfo
         /\ Buttons!Age(p).CurrentButton = p.CurrentButton
         /\ Buttons!Age(p).PreviousEventType = p.PreviousEventType
         /\ Buttons!Age(p).Position = p.Position
         /\ Buttons!Age(p).Polls = Buttons!Upto(p.Polls, MAXIMUM_DOUBLE_CLICK_SPEED)
<1>1. MAXIMUM_CLICK_DURATION \in Nat /\ MAXIMUM_DOUBLE_CLICK_SPEED \in Nat
  BY EventsAssumption DEF Buttons!PointerAssumption
<1>2. /\ p.NumberOfStrokes \in 0 .. (MAXIMUM_CLICK_DURATION + 1)
      /\ p.Polls \in 0 .. (MAXIMUM_DOUBLE_CLICK_SPEED + 1)
  BY DEF ButtonInfo
<1>3. PICK strokes \in 0 .. (MAXIMUM_CLICK_DURATION + 1) :
        strokes = IF p.PreviousButton /\ p.CurrentButton
                  THEN Buttons!Upto(p.NumberOfStrokes, MAXIMUM_CLICK_DURATION)
                  ELSE p.NumberOfStrokes
  BY <1>1, <1>2, UptoFacts
<1>4. PICK polls \in 0 .. (MAXIMUM_DOUBLE_CLICK_SPEED + 1) :
        polls = Buttons!Upto(p.Polls, MAXIMUM_DOUBLE_CLICK_SPEED)
  BY <1>1, <1>2, UptoFacts
<1>5. Buttons!Age(p) = [p EXCEPT !.NumberOfStrokes = strokes, !.Polls = polls]
  BY <1>3, <1>4 DEF Buttons!Age, ButtonInfo
<1> QED
  BY <1>4, <1>5 DEF ButtonInfo

LEMMA InteractFacts ==
  ASSUME NEW p \in ButtonInfo, NEW c \in Buttons!Position
  PROVE  /\ Buttons!Interact(p, c) \in ButtonInfo
         /\ Buttons!Interact(p, c).CurrentButton = p.CurrentButton
         /\ Buttons!IsClick(p, c) =>
              /\ Buttons!Interact(p, c).PreviousEventType = Buttons!ClickRemembered(p, c)
              /\ Buttons!Interact(p, c).Position = c /\ Buttons!Interact(p, c).Polls = 0
         /\ ~Buttons!IsClick(p, c) =>
              /\ Buttons!Interact(p, c).PreviousEventType = p.PreviousEventType
              /\ Buttons!Interact(p, c).Position = p.Position
              /\ Buttons!Interact(p, c).Polls = p.Polls
<1>1. 0 \in 0 .. (MAXIMUM_CLICK_DURATION + 1) /\ 0 \in 0 .. (MAXIMUM_DOUBLE_CLICK_SPEED + 1)
  BY EventsAssumption DEF Buttons!PointerAssumption
<1>2. Buttons!ClickRemembered(p, c) \in Buttons!ClickType \cup {"none"}
  BY DEF Buttons!ClickRemembered, Buttons!ClickSent, Buttons!ClickType
<1>3. p.CurrentButton \in BOOLEAN /\ p.PreviousButton \in BOOLEAN
  BY DEF ButtonInfo
<1>4. CASE p.CurrentButton /\ ~p.PreviousButton
  <2>1. ~Buttons!IsClick(p, c)
    BY <1>4 DEF Buttons!IsClick
  <2>2. Buttons!Interact(p, c) =
          [p EXCEPT !.NumberOfStrokes = 0, !.PreviousPosition = c,
                    !.PreviousButton = p.CurrentButton]
    BY <1>4 DEF Buttons!Interact, ButtonInfo
  <2> QED
    BY <1>1, <1>3, <2>1, <2>2 DEF ButtonInfo
<1>5. CASE Buttons!IsClick(p, c)
  <2>1. ~(p.CurrentButton /\ ~p.PreviousButton)
    BY <1>5 DEF Buttons!IsClick
  <2>2. PICK type \in Buttons!ClickType \cup {"none"} : type = Buttons!ClickRemembered(p, c)
    BY <1>2
  <2>3. Buttons!Interact(p, c) =
          [p EXCEPT !.PreviousEventType = type, !.Position = c, !.Polls = 0,
                    !.PreviousButton = p.CurrentButton]
    BY <1>5, <2>1, <2>2 DEF Buttons!Interact, ButtonInfo
  <2> QED
    BY <1>1, <1>3, <1>5, <2>2, <2>3 DEF ButtonInfo
<1>6. CASE ~Buttons!IsClick(p, c) /\ ~(p.CurrentButton /\ ~p.PreviousButton)
  <2>1. Buttons!Interact(p, c) = [p EXCEPT !.PreviousButton = p.CurrentButton]
    BY <1>6 DEF Buttons!Interact
  <2> QED
    BY <1>3, <1>6, <2>1 DEF ButtonInfo
<1> QED
  BY <1>4, <1>5, <1>6

\* The events of a poll that collected reports.
LEMMA EventsFacts ==
  ASSUME NEW p \in ButtonInfo, NEW c
  PROVE  /\ "DOWN" \in Buttons!ButtonEvents(p, c) <=> p.CurrentButton /\ ~p.PreviousButton
         /\ "UP" \in Buttons!ButtonEvents(p, c) <=> ~p.CurrentButton /\ p.PreviousButton
         /\ Buttons!IsClick(p, c) =>
              Buttons!ButtonEvents(p, c) \cap Buttons!ClickType = {Buttons!ClickSent(p, c)}
         /\ ~Buttons!IsClick(p, c) =>
              Buttons!ButtonEvents(p, c) \cap Buttons!ClickType = {}
<1>1. Buttons!ClickSent(p, c) \in {"CLICK", "DOUBLE_CLICK"}
  BY DEF Buttons!ClickSent
<1>2. \A e : e \in Buttons!ButtonEvents(p, c) <=>
         /\ e \in {"DOWN", "UP", "CLICK", "DOUBLE_CLICK"}
         /\ \/ e = "DOWN" /\ p.CurrentButton /\ ~p.PreviousButton
            \/ e = "UP" /\ ~p.CurrentButton /\ p.PreviousButton
            \/ Buttons!IsClick(p, c) /\ e = Buttons!ClickSent(p, c)
  BY DEF Buttons!ButtonEvents, Buttons!Event, Buttons!ClickType
<1>3. p.PreviousButton \in BOOLEAN /\ p.CurrentButton \in BOOLEAN
  BY DEF ButtonInfo
<1>4. "DOWN" \in Buttons!ButtonEvents(p, c) <=> p.CurrentButton /\ ~p.PreviousButton
  BY <1>1, <1>2, <1>3
<1>5. "UP" \in Buttons!ButtonEvents(p, c) <=> ~p.CurrentButton /\ p.PreviousButton
  BY <1>1, <1>2, <1>3
<1>6. \A e : e \in Buttons!ButtonEvents(p, c) \cap Buttons!ClickType <=>
               Buttons!IsClick(p, c) /\ e = Buttons!ClickSent(p, c)
  BY <1>1, <1>2 DEF Buttons!ClickType
<1> QED
  BY <1>4, <1>5, <1>6

\* The two facts about clicks that every step keeps.
Earned ==
  "DOUBLE_CLICK" \in emitted'.sent =>
    /\ lastClick.type = "CLICK"
    /\ lastClick.ago <= MAXIMUM_DOUBLE_CLICK_SPEED
    /\ Buttons!Near(lastClick.at, cursor')
EndsPress ==
  emitted'.sent \cap Buttons!ClickType # {} =>
    /\ Cardinality(emitted'.sent \cap Buttons!ClickType) = 1
    /\ "UP" \in emitted'.sent \cup emitted'.lost
    /\ ~crowded' /\ ~zeroing => toldLeft \/ missedLeft

LEMMA ButtonsInitInv ==
  ASSUME Buttons!Init
  PROVE  ButtonsInv
<1>1. /\ 0 \in Buttons!Position /\ 0 \in 0 .. (MAXIMUM_CLICK_DURATION + 1)
      /\ 0 \in 0 .. (MAXIMUM_DOUBLE_CLICK_SPEED + 1)
  BY EventsAssumption DEF Buttons!PointerAssumption, Buttons!Position
<1>2. buttonInfo \in ButtonInfo /\ buttonInfo.PreviousEventType = "none"
  BY <1>1 DEF Buttons!Init, ButtonInfo
<1>3. lastClick \in LastClick
  BY <1>1 DEF Buttons!Init, LastClick
<1> QED
  BY <1>1, <1>2, <1>3 DEF Buttons!Init, ButtonsInv

LEMMA NothingEmitted ==
  ASSUME emitted' = Buttons!NoEvents
  PROVE  Earned /\ EndsPress
BY DEF Earned, EndsPress, Buttons!NoEvents

LEMMA PollTimerCreatedInv ==
  ASSUME ButtonsInv, Buttons!EventCreateSimplePointerPollEvent
  PROVE  ButtonsInv' /\ Earned /\ EndsPress
<1>1. 0 \in Buttons!Position
  BY EventsAssumption DEF Buttons!PointerAssumption, Buttons!Position
<1>2. ButtonsInv'
  BY <1>1 DEF Buttons!EventCreateSimplePointerPollEvent, ButtonsInv
<1> QED
  BY <1>2, NothingEmitted DEF Buttons!EventCreateSimplePointerPollEvent

LEMMA PollTimerReadyInv ==
  ASSUME ButtonsInv, Buttons!EventCreateSimplePointerPollEventEnd
  PROVE  ButtonsInv' /\ Earned /\ EndsPress
<1>1. /\ zeroing' = FALSE /\ emitted' = Buttons!NoEvents
      /\ UNCHANGED <<cursor, polling, toldLeft, lastClick, crowded>>
  BY DEF Buttons!EventCreateSimplePointerPollEventEnd
<1>2. missedLeft' \in BOOLEAN /\ (~missedLeft' => ~toldLeft)
  BY DEF Buttons!EventCreateSimplePointerPollEventEnd, ButtonsInv
<1>3. /\ buttonInfo' \in ButtonInfo
      /\ buttonInfo'.PreviousEventType = buttonInfo.PreviousEventType
      /\ buttonInfo'.Position = buttonInfo.Position /\ buttonInfo'.Polls = buttonInfo.Polls
      /\ polling => ~buttonInfo'.CurrentButton
  <2>1. PICK p \in ButtonInfo : p = buttonInfo
    BY DEF ButtonsInv
  <2>2. CASE buttonInfo' = [p EXCEPT !.PreviousButton = FALSE, !.CurrentButton = FALSE]
    BY <2>1, <2>2 DEF ButtonInfo
  <2>3. CASE ~polling /\ UNCHANGED buttonInfo
    BY <2>1, <2>3
  <2> QED
    BY <2>1, <2>2, <2>3 DEF Buttons!EventCreateSimplePointerPollEventEnd
<1>4. ButtonsInv'
  BY <1>1, <1>2, <1>3 DEF ButtonsInv
<1> QED
  BY <1>1, <1>4, NothingEmitted

LEMMA LastClickAges ==
  ASSUME ButtonsInv,
         lastClick' = [lastClick EXCEPT !.ago = Buttons!Upto(@, MAXIMUM_DOUBLE_CLICK_SPEED)]
  PROVE  /\ lastClick' \in LastClick
         /\ lastClick'.type = lastClick.type /\ lastClick'.at = lastClick.at
         /\ lastClick'.ago = Buttons!Upto(lastClick.ago, MAXIMUM_DOUBLE_CLICK_SPEED)
<1>1. MAXIMUM_DOUBLE_CLICK_SPEED \in Nat
  BY EventsAssumption DEF Buttons!PointerAssumption
<1>2. lastClick \in LastClick
  BY DEF ButtonsInv
<1>3. PICK ago \in 0 .. (MAXIMUM_DOUBLE_CLICK_SPEED + 1) :
        ago = Buttons!Upto(lastClick.ago, MAXIMUM_DOUBLE_CLICK_SPEED)
  BY <1>1, <1>2, UptoFacts DEF LastClick
<1> QED
  BY <1>2, <1>3 DEF LastClick

LEMMA IdlePollInv ==
  ASSUME ButtonsInv, Buttons!PointerPoll(<< >>)
  PROVE  ButtonsInv' /\ Earned /\ EndsPress
<1>1. cursor' = cursor
  BY AfterNoReport DEF Buttons!PointerPoll, Start
<1>2. buttonInfo \in ButtonInfo /\ buttonInfo' = Buttons!Age(buttonInfo)
  BY DEF Buttons!PointerPoll, ButtonsInv
<1>3. /\ emitted' = Buttons!NoEvents
      /\ UNCHANGED <<toldLeft, missedLeft, polling, zeroing>>
  BY DEF Buttons!PointerPoll, Buttons!Tell, Buttons!NoEvents
<1>4. /\ crowded' = crowded
      /\ lastClick' = [lastClick EXCEPT !.ago = Buttons!Upto(@, MAXIMUM_DOUBLE_CLICK_SPEED)]
  <2>1. ~(Len(<< >>) > 1)
    OBVIOUS
  <2> QED
    BY <2>1 DEF Buttons!PointerPoll, ButtonsInv
<1>5. ButtonsInv'
  BY <1>1, <1>2, <1>3, <1>4, AgeFacts, LastClickAges DEF ButtonsInv
<1> QED
  BY <1>3, <1>5, NothingEmitted

\* What the listeners are told of a turn of the button.
LEMMA TellFacts ==
  ASSUME NEW events, NEW lost \in SUBSET events, Buttons!Tell(events, lost),
         toldLeft \in BOOLEAN, missedLeft \in BOOLEAN
  PROVE  /\ emitted'.sent \subseteq events
         /\ emitted'.sent \cup emitted'.lost = events
         /\ toldLeft' \in BOOLEAN /\ missedLeft' \in BOOLEAN
         /\ events \cap {"DOWN", "UP"} # {} /\ ~missedLeft' => (toldLeft' <=> "DOWN" \in events)
         /\ events \cap {"DOWN", "UP"} = {} => UNCHANGED <<toldLeft, missedLeft>>
<1> DEFINE turn == events \cap {"DOWN", "UP"}
<1>1. /\ emitted' = [sent |-> events \ lost, lost |-> lost]
      /\ toldLeft' = IF turn \subseteq lost THEN toldLeft ELSE "DOWN" \in events
      /\ missedLeft' = IF turn = {} THEN missedLeft ELSE turn \subseteq lost
  BY DEF Buttons!Tell
<1>2. emitted'.sent \subseteq events /\ emitted'.sent \cup emitted'.lost = events
  BY <1>1
<1>3. turn = {} => turn \subseteq lost
  OBVIOUS
<1> HIDE DEF turn
<1>4. toldLeft' \in BOOLEAN /\ missedLeft' \in BOOLEAN
  <2>1. ("DOWN" \in events) \in BOOLEAN /\ (turn \subseteq lost) \in BOOLEAN
    OBVIOUS
  <2> QED
    BY <1>1, <2>1
<1>5. turn # {} /\ ~missedLeft' => (toldLeft' <=> "DOWN" \in events)
  BY <1>1
<1>6. turn = {} => toldLeft' = toldLeft /\ missedLeft' = missedLeft
  BY <1>1, <1>3
<1> QED
  BY <1>2, <1>4, <1>5, <1>6 DEF turn

\* A poll with reports: what it leaves of the button and of its last click.
LEMMA ReportingPollInv ==
  ASSUME ButtonsInv, NEW reports \in Buttons!Reports, reports # << >>,
         Buttons!PointerPoll(reports)
  PROVE  ButtonsInv' /\ Earned /\ EndsPress
<1> DEFINE seen == Buttons!AfterReports(buttonInfo, cursor, reports)
           p == seen.button
           c == seen.cursor
           q == Buttons!Interact(p, c)
           events == Buttons!ButtonEvents(p, c)
<1>1. buttonInfo \in ButtonInfo /\ cursor \in Buttons!Position
  BY DEF ButtonsInv
<1>2. /\ Reported(buttonInfo, seen) /\ Len(reports) \in Nat
      /\ ~(Len(reports) > 1) => p.PreviousButton = buttonInfo.CurrentButton
  BY <1>1, ReportsFacts
<1>3. /\ polling /\ polling' = polling /\ zeroing' = zeroing /\ cursor' = c
      /\ buttonInfo' = Buttons!Age(q)
      /\ \E lost \in SUBSET events : Buttons!Tell(events, lost)
      /\ \/ /\ events \cap Buttons!ClickType = {}
            /\ lastClick' = [lastClick EXCEPT !.ago = Buttons!Upto(@, MAXIMUM_DOUBLE_CLICK_SPEED)]
         \/ \E e \in events \cap Buttons!ClickType :
              lastClick' = [type |-> e, at |-> c, ago |-> 1]
      /\ crowded' = (crowded \/ Len(reports) > 1)
  BY DEF Buttons!PointerPoll
<1> HIDE DEF seen
<1>4. /\ p \in ButtonInfo /\ c \in Buttons!Position
      /\ p.Polls = buttonInfo.Polls /\ p.PreviousEventType = buttonInfo.PreviousEventType
      /\ p.Position = buttonInfo.Position
  BY <1>2 DEF Reported
<1>5. p.PreviousButton \in BOOLEAN /\ p.CurrentButton \in BOOLEAN
      /\ buttonInfo.CurrentButton \in BOOLEAN
  BY <1>1, <1>4 DEF ButtonInfo
<1>6. /\ "DOWN" \in events <=> p.CurrentButton /\ ~p.PreviousButton
      /\ "UP" \in events <=> ~p.CurrentButton /\ p.PreviousButton
      /\ Buttons!IsClick(p, c) => events \cap Buttons!ClickType = {Buttons!ClickSent(p, c)}
      /\ ~Buttons!IsClick(p, c) => events \cap Buttons!ClickType = {}
  BY <1>4, EventsFacts
<1>7. /\ q \in ButtonInfo /\ q.CurrentButton = p.CurrentButton
      /\ Buttons!IsClick(p, c) =>
           /\ q.PreviousEventType = Buttons!ClickRemembered(p, c)
           /\ q.Position = c /\ q.Polls = 0
      /\ ~Buttons!IsClick(p, c) =>
           /\ q.PreviousEventType = buttonInfo.PreviousEventType
           /\ q.Position = buttonInfo.Position /\ q.Polls = buttonInfo.Polls
  BY <1>4, InteractFacts
<1> HIDE DEF q, events
<1>8. /\ emitted'.sent \subseteq events /\ emitted'.sent \cup emitted'.lost = events
      /\ toldLeft' \in BOOLEAN /\ missedLeft' \in BOOLEAN
      /\ events \cap {"DOWN", "UP"} # {} /\ ~missedLeft' => (toldLeft' <=> "DOWN" \in events)
      /\ events \cap {"DOWN", "UP"} = {} => UNCHANGED <<toldLeft, missedLeft>>
  <2>1. PICK lost \in SUBSET events : Buttons!Tell(events, lost)
    BY <1>3
  <2>2. toldLeft \in BOOLEAN /\ missedLeft \in BOOLEAN
    BY DEF ButtonsInv
  <2> QED
    BY <2>1, <2>2, TellFacts
<1>9. /\ Buttons!Age(q) \in ButtonInfo /\ Buttons!Age(q).CurrentButton = p.CurrentButton
      /\ Buttons!Age(q).PreviousEventType = q.PreviousEventType
      /\ Buttons!Age(q).Position = q.Position
      /\ Buttons!Age(q).Polls = Buttons!Upto(q.Polls, MAXIMUM_DOUBLE_CLICK_SPEED)
  BY <1>7, AgeFacts
<1>10. ~crowded' => ~crowded /\ p.PreviousButton = buttonInfo.CurrentButton
  BY <1>2, <1>3 DEF ButtonsInv
<1>11. ~crowded' /\ ~zeroing /\ ~missedLeft => (toldLeft <=> p.PreviousButton)
  BY <1>3, <1>10 DEF ButtonsInv
<1>12. ~crowded' /\ ~zeroing /\ ~missedLeft' => (toldLeft' <=> p.CurrentButton)
  <2>1. CASE events \cap {"DOWN", "UP"} = {}
    <3>1. "DOWN" \notin events /\ "UP" \notin events
      BY <2>1
    <3>2. p.PreviousButton <=> p.CurrentButton
      BY <1>5, <1>6, <3>1
    <3> QED
      BY <1>8, <1>11, <2>1, <3>2
  <2>2. CASE events \cap {"DOWN", "UP"} # {}
    <3>1. "DOWN" \in events \/ "UP" \in events
      BY <2>2
    <3>2. "DOWN" \in events <=> p.CurrentButton
      BY <1>5, <1>6, <3>1
    <3> QED
      BY <1>8, <2>2, <3>2
  <2> QED
    BY <2>1, <2>2
<1>13. crowded' \in BOOLEAN
  BY <1>3 DEF ButtonsInv
<1>14. /\ lastClick' \in LastClick
       /\ q.PreviousEventType = "CLICK" =>
            /\ lastClick'.type = "CLICK" /\ lastClick'.at = q.Position
            /\ lastClick'.ago = Buttons!Upto(q.Polls, MAXIMUM_DOUBLE_CLICK_SPEED)
  <2>1. CASE Buttons!IsClick(p, c)
    <3>1. lastClick' = [type |-> Buttons!ClickSent(p, c), at |-> c, ago |-> 1]
      BY <1>3, <1>6, <2>1
    <3>2. MAXIMUM_DOUBLE_CLICK_SPEED \in Nat /\ 0 \in 0 .. (MAXIMUM_DOUBLE_CLICK_SPEED + 1)
          /\ 1 \in 0 .. (MAXIMUM_DOUBLE_CLICK_SPEED + 1)
      BY EventsAssumption DEF Buttons!PointerAssumption
    <3>3. Buttons!Upto(0, MAXIMUM_DOUBLE_CLICK_SPEED) = 1
      BY <3>2, UptoFacts
    <3>4. Buttons!ClickSent(p, c) \in Buttons!ClickType
      BY DEF Buttons!ClickSent, Buttons!ClickType
    <3>5. Buttons!ClickRemembered(p, c) = "CLICK" => Buttons!ClickSent(p, c) = "CLICK"
      BY DEF Buttons!ClickRemembered, Buttons!ClickSent, Buttons!IsDoubleClick
    <3>6. lastClick' \in LastClick
      BY <1>4, <3>1, <3>2, <3>4 DEF LastClick
    <3> QED
      BY <1>7, <2>1, <3>1, <3>3, <3>5, <3>6
  <2>2. CASE ~Buttons!IsClick(p, c)
    <3>1. lastClick' = [lastClick EXCEPT !.ago = Buttons!Upto(@, MAXIMUM_DOUBLE_CLICK_SPEED)]
      BY <1>3, <1>6, <2>2
    <3> QED
      BY <1>7, <2>2, <3>1, LastClickAges DEF ButtonsInv
  <2> QED
    BY <2>1, <2>2
<1>15. ButtonsInv'
  BY <1>3, <1>4, <1>8, <1>9, <1>12, <1>13, <1>14 DEF ButtonsInv
<1>16. Earned
  <2> SUFFICES ASSUME "DOUBLE_CLICK" \in emitted'.sent
               PROVE  /\ lastClick.type = "CLICK"
                      /\ lastClick.ago <= MAXIMUM_DOUBLE_CLICK_SPEED
                      /\ Buttons!Near(lastClick.at, c)
    BY <1>3 DEF Earned
  <2>1. "DOUBLE_CLICK" \in events \cap Buttons!ClickType
    BY <1>8 DEF Buttons!ClickType
  <2>2. Buttons!ClickSent(p, c) = "DOUBLE_CLICK"
    BY <1>6, <2>1
  <2>3. Buttons!IsDoubleClick(p, c)
    BY <2>2 DEF Buttons!ClickSent
  <2> QED
    BY <1>4, <2>3 DEF Buttons!IsDoubleClick, ButtonsInv
<1>17. EndsPress
  <2> SUFFICES ASSUME emitted'.sent \cap Buttons!ClickType # {}
               PROVE  /\ Cardinality(emitted'.sent \cap Buttons!ClickType) = 1
                      /\ "UP" \in emitted'.sent \cup emitted'.lost
                      /\ ~crowded' /\ ~zeroing => toldLeft \/ missedLeft
    BY DEF EndsPress
  <2>1. Buttons!IsClick(p, c)
    BY <1>6, <1>8
  <2>2. p.PreviousButton /\ ~p.CurrentButton
    BY <2>1 DEF Buttons!IsClick
  <2>3. emitted'.sent \cap Buttons!ClickType = {Buttons!ClickSent(p, c)}
    BY <1>6, <1>8, <2>1
  <2>4. Cardinality(emitted'.sent \cap Buttons!ClickType) = 1
    BY <2>3, FS_Singleton
  <2> QED
    BY <1>6, <1>8, <1>11, <2>2, <2>4
<1> QED
  BY <1>15, <1>16, <1>17

LEMMA ButtonsQuietInv ==
  ASSUME ButtonsInv, UNCHANGED <<buttonInfo, toldLeft, missedLeft, zeroing, lastClick, crowded>>,
         cursor' \in Buttons!Position, polling' \in BOOLEAN, polling' => polling
  PROVE  ButtonsInv'
BY DEF ButtonsInv

LEMMA ButtonsNextInv ==
  ASSUME ButtonsInv, [Buttons!Next]_(Buttons!vars)
  PROVE  ButtonsInv' /\ ((Earned /\ EndsPress) \/ UNCHANGED Buttons!vars)
<1>1. CASE UNCHANGED Buttons!vars
  <2>1. ButtonsInv'
    BY <1>1, ButtonsQuietInv DEF Buttons!vars, ButtonsInv
  <2> QED
    BY <1>1, <2>1
<1>2. CASE Buttons!EventCreateSimplePointerPollEvent
  BY <1>2, PollTimerCreatedInv
<1>3. CASE Buttons!EventCreateSimplePointerPollEventEnd
  BY <1>3, PollTimerReadyInv
<1>4. CASE Buttons!EventCancelSimplePointerPollEvent
  <2>1. ButtonsInv'
    BY <1>4, ButtonsQuietInv DEF Buttons!EventCancelSimplePointerPollEvent, ButtonsInv
  <2> QED
    BY <1>4, <2>1, NothingEmitted DEF Buttons!EventCancelSimplePointerPollEvent
<1>5. ASSUME NEW reports \in Buttons!Reports, Buttons!PointerPoll(reports)
      PROVE  ButtonsInv' /\ Earned /\ EndsPress
  BY <1>5, IdlePollInv, ReportingPollInv
<1>6. ASSUME NEW p \in Buttons!Position, Buttons!EventSetCursorPosition(p)
      PROVE  ButtonsInv' /\ Earned /\ EndsPress
  <2>1. ButtonsInv'
    BY <1>6, ButtonsQuietInv DEF Buttons!EventSetCursorPosition, ButtonsInv
  <2> QED
    BY <1>6, <2>1, NothingEmitted DEF Buttons!EventSetCursorPosition
<1> QED
  BY <1>1, <1>2, <1>3, <1>4, <1>5, <1>6 DEF Buttons!Next

LEMMA ButtonsStep ==
  ASSUME [MCNext]_MCVars
  PROVE  [Buttons!Next]_(Buttons!vars)
BY DEF MCNext, MCVars, ButtonVars, Buttons!vars

LEMMA ButtonsInvSuffices ==
  ASSUME ButtonsInv
  PROVE  LeftButtonTold
<1>1. Buttons!TypeOK
  BY DEF Buttons!TypeOK, ButtonsInv, ButtonInfo
<1>2. buttonInfo.CurrentButton \in BOOLEAN /\ toldLeft \in BOOLEAN
  BY DEF ButtonInfo, ButtonsInv
<1> QED
  BY <1>1, <1>2 DEF LeftButtonTold, Buttons!LeftButtonTold, ButtonsInv

\* As long as no two devices report in one poll, what the listeners were told of the left
\* button is what the handler knows, unless memory ran out for its last press or release or
\* the creator of the timer cleared it, for any size of the screen, any limits and any number
\* of polls, timers and movements of the cursor (PointerHandler.c:537-567, 743-746, 843-856).
THEOREM LeftButtonStaysTold == MCSpec => []LeftButtonTold
<1>1. MCInit => ButtonsInv
  BY ButtonsInitInv DEF MCInit
<1>2. ButtonsInv /\ [MCNext]_MCVars => ButtonsInv'
  BY ButtonsStep, ButtonsNextInv
<1>3. ButtonsInv => LeftButtonTold
  BY ButtonsInvSuffices
<1> QED
  BY <1>1, <1>2, <1>3, PTL DEF MCSpec

\* A click is sent once, with a release that is sent too unless memory ran out for it, of a
\* press the listeners know or missed; and a double click only a short time after a single one
\* and near it, whichever events are lost, for any size of the screen and any limits
\* (PointerHandler.c:548-595, 849-856).
THEOREM ClicksAreEarned == MCSpec => ClicksEarned
<1>1. MCInit => ButtonsInv
  BY ButtonsInitInv DEF MCInit
<1>2. ButtonsInv /\ [MCNext]_MCVars => ButtonsInv'
  BY ButtonsStep, ButtonsNextInv
<1>3. ButtonsInv /\ [MCNext]_MCVars =>
        ["DOUBLE_CLICK" \in emitted'.sent =>
           /\ lastClick.type = "CLICK"
           /\ lastClick.ago <= MAXIMUM_DOUBLE_CLICK_SPEED
           /\ Buttons!Near(lastClick.at, cursor')]_(Buttons!vars)
  BY ButtonsStep, ButtonsNextInv DEF Earned
<1>4. ButtonsInv /\ [MCNext]_MCVars => [EndsPress]_(Buttons!vars)
  BY ButtonsStep, ButtonsNextInv
<1>5. MCSpec => Buttons!DoubleClickEarned
  BY <1>1, <1>2, <1>3, PTL DEF MCSpec, Buttons!DoubleClickEarned
<1>6. MCSpec => [][EndsPress]_(Buttons!vars)
  BY <1>1, <1>2, <1>4, PTL DEF MCSpec
<1>7. [][EndsPress]_(Buttons!vars) => Buttons!ClickEndsPress
  BY DEF EndsPress, Buttons!ClickEndsPress, Buttons!Cardinality, Cardinality
<1> QED
  BY <1>5, <1>6, <1>7 DEF ClicksEarned

----------------------------------------------------------------------------
(* The pointer devices. *)

Entry == [Handle : Device, Interface : Nat, Installed : BOOLEAN]
OnceEach(list) ==
  \A i, j \in DOMAIN list :
    list[i].Handle = list[j].Handle /\ list[i].Interface = list[j].Interface => i = j

\* An instance is of a device that was there once; of one that is there now, unless it came
\* back unnoticed, it is the instance with its present interface; a device whose arrival is
\* still to be noticed has none of its present interface.
EntriesRight(list, made, new, back) ==
  /\ list \in Seq(Entry) /\ OnceEach(list)
  /\ \A i \in DOMAIN list :
       LET p == list[i]
       IN  /\ p.Interface \in 1 .. made[p.Handle]
           /\ p.Installed /\ p.Handle \notin back => p.Interface = made[p.Handle]
           /\ p.Handle \in new => p.Interface # made[p.Handle]

DeviceTypes ==
  /\ generation \in [Device -> 0 .. MaxGeneration]
  /\ connected \subseteq Device /\ arrived \subseteq connected /\ IsFiniteSet(arrived)
  /\ \A h \in connected : generation[h] >= 1
  /\ pollEvent \in BOOLEAN
  /\ pollTime \in POINTER_POLL_FREQUENCY .. MAX_POINTER_POLL_FREQUENCY
  /\ scan.pc \in {"idle", "located", "swap", "reset"}

DevicesInv ==
  /\ DeviceTypes
  /\ EntriesRight(mPointerProtocols, generation, arrived, replaced)
  /\ Devices!OnlyLiveDevicesAsked


LEMMA InstalledFacts ==
  ASSUME NEW list \in Seq(Entry), OnceEach(list)
  PROVE  /\ Devices!Installed(list) \in Seq(Entry) /\ OnceEach(Devices!Installed(list))
         /\ IsInjective(Devices!Installed(list))
         /\ Range(Devices!Installed(list)) = {p \in Range(list) : p.Installed}
<1> DEFINE T == {p \in Range(list) : p.Installed}
           r == Devices!Installed(list)
<1>1. IsInjective(list)
  BY DEF OnceEach, IsInjective
<1>2. r = Only(list, T)
  BY DEF Devices!Installed, Devices!Only, Only, Devices!Range, Range
<1>3. OnlyRight(Entry, list, T, r, Len(list))
  BY <1>1, <1>2, OnlyFacts
<1>4. {list[i] : i \in 1 .. Len(list)} = Range(list)
  BY DEF Range
<1> HIDE DEF r
<1>5. r \in Seq(Entry) /\ IsInjective(r) /\ Range(r) = T
  BY <1>3, <1>4 DEF OnlyRight
<1>6. ASSUME NEW i \in DOMAIN r, NEW j \in DOMAIN r,
             r[i].Handle = r[j].Handle, r[i].Interface = r[j].Interface
      PROVE  i = j
  <2>1. r[i] \in Range(list) /\ r[j] \in Range(list)
    BY <1>5 DEF Range
  <2>2. PICK k \in DOMAIN list, l \in DOMAIN list : list[k] = r[i] /\ list[l] = r[j]
    BY <2>1 DEF Range
  <2>3. k = l
    BY <1>6, <2>2 DEF OnceEach
  <2> QED
    BY <1>5, <2>2, <2>3 DEF IsInjective
<1> QED
  BY <1>5, <1>6 DEF OnceEach, r

LEMMA CheckedFacts ==
  ASSUME NEW list \in Seq(Entry), NEW found
  PROVE  /\ Devices!Checked(list, found) \in Seq(Entry)
         /\ Len(Devices!Checked(list, found)) = Len(list)
         /\ DOMAIN Devices!Checked(list, found) = DOMAIN list
         /\ \A i \in DOMAIN list :
              /\ Devices!Checked(list, found)[i].Handle = list[i].Handle
              /\ Devices!Checked(list, found)[i].Interface = list[i].Interface
              /\ Devices!Checked(list, found)[i].Installed <=>
                   list[i].Installed /\ list[i].Handle \in found
<1> DEFINE r == Devices!Checked(list, found)
<1>1. DOMAIN list = 1 .. Len(list) /\ Len(list) \in Nat /\ \A i \in DOMAIN list : list[i] \in Entry
  OBVIOUS
<1>2. ASSUME NEW i \in DOMAIN list
      PROVE  /\ r[i] \in Entry /\ r[i].Handle = list[i].Handle
             /\ r[i].Interface = list[i].Interface
             /\ r[i].Installed <=> list[i].Installed /\ list[i].Handle \in found
  <2>1. PICK p \in Entry : p = list[i]
    BY <1>1
  <2>2. PICK ok \in BOOLEAN : ok <=> (p.Installed /\ p.Handle \in found)
    OBVIOUS
  <2>3. p.Installed \in BOOLEAN
    BY DEF Entry
  <2>4. r[i] = [p EXCEPT !.Installed = ok]
    BY <2>1, <2>2, <2>3 DEF Devices!Checked, Entry
  <2> QED
    BY <2>1, <2>2, <2>4 DEF Entry
<1>3. r \in [1 .. Len(list) -> Entry]
  BY <1>1, <1>2 DEF Devices!Checked
<1> HIDE DEF r
<1> QED
  BY <1>1, <1>2, <1>3, FunctionIsSeq DEF r

\* A list from which elements are missing is shorter.
LEMMA ShorterList ==
  ASSUME NEW S, NEW list \in Seq(S), NEW part \in Seq(S), IsInjective(list), IsInjective(part),
         Range(part) \subseteq Range(list), NEW e \in Range(list), e \notin Range(part)
  PROVE  Len(part) # Len(list)
<1>1. ASSUME NEW s \in Seq(S), IsInjective(s)
      PROVE  IsFiniteSet(Range(s)) /\ Cardinality(Range(s)) = Len(s)
  <2>1. DOMAIN s = 1 .. Len(s) /\ Len(s) \in Nat /\ 1 \in Int /\ Len(s) \in Int
    OBVIOUS
  <2>2. IsFiniteSet(1 .. Len(s)) /\ Cardinality(1 .. Len(s)) =
          IF 1 > Len(s) THEN 0 ELSE Len(s) - 1 + 1
    BY <2>1, FS_Interval
  <2>3. s \in Bijection(DOMAIN s, Range(s))
    BY <1>1 DEF Bijection, Injection, Surjection, IsInjective, Range
  <2>4. ExistsBijection(DOMAIN s, Range(s))
    BY <2>3 DEF ExistsBijection
  <2> QED
    BY <2>1, <2>2, <2>4, FS_Bijection
<1>2. IsFiniteSet(Range(list)) /\ Cardinality(Range(list)) = Len(list)
      /\ Cardinality(Range(part)) = Len(part)
  BY <1>1
<1>3. Range(part) # Range(list)
  OBVIOUS
<1> QED
  BY <1>2, <1>3, FS_Subset

\* Marking instances, dropping the marked ones, and forgetting that a device had come back
\* once it has no instance left, keep the array right.
LEMMA CheckedRight ==
  ASSUME NEW list, NEW made, NEW new, NEW back, EntriesRight(list, made, new, back), NEW found
  PROVE  /\ EntriesRight(Devices!Checked(list, found), made, new, back)
         /\ Len(Devices!Checked(list, found)) = Len(list)
         /\ \A p \in Range(Devices!Checked(list, found)) : p.Installed => p.Handle \in found
<1> DEFINE r == Devices!Checked(list, found)
<1>1. list \in Seq(Entry) /\ OnceEach(list)
  BY DEF EntriesRight
<1>2. /\ r \in Seq(Entry) /\ Len(r) = Len(list) /\ DOMAIN r = DOMAIN list
      /\ \A i \in DOMAIN list :
           /\ r[i].Handle = list[i].Handle /\ r[i].Interface = list[i].Interface
           /\ r[i].Installed <=> list[i].Installed /\ list[i].Handle \in found
  BY <1>1, CheckedFacts
<1> HIDE DEF r
<1>3. OnceEach(r)
  BY <1>1, <1>2 DEF OnceEach
<1>4. EntriesRight(r, made, new, back)
  BY <1>2, <1>3 DEF EntriesRight
<1>5. \A p \in Range(r) : p.Installed => p.Handle \in found
  BY <1>2 DEF Range
<1> QED
  BY <1>2, <1>4, <1>5 DEF r

LEMMA InstalledRight ==
  ASSUME NEW list, NEW made, NEW new, NEW back, EntriesRight(list, made, new, back)
  PROVE  /\ EntriesRight(Devices!Installed(list), made, new, back)
         /\ Range(Devices!Installed(list)) = {p \in Range(list) : p.Installed}
<1> DEFINE r == Devices!Installed(list)
<1>1. list \in Seq(Entry) /\ OnceEach(list)
  BY DEF EntriesRight
<1>2. r \in Seq(Entry) /\ OnceEach(r) /\ Range(r) = {p \in Range(list) : p.Installed}
  BY <1>1, InstalledFacts
<1> HIDE DEF r
<1>3. ASSUME NEW i \in DOMAIN r
      PROVE  \E j \in DOMAIN list : list[j] = r[i]
  <2>1. r[i] \in Range(list)
    BY <1>2 DEF Range
  <2> QED
    BY <2>1 DEF Range
<1>4. EntriesRight(r, made, new, back)
  BY <1>2, <1>3 DEF EntriesRight
<1> QED
  BY <1>2, <1>4 DEF r

LEMMA NoEntriesRight ==
  ASSUME NEW made, NEW new, NEW back
  PROVE  EntriesRight(<< >>, made, new, back) /\ Range(<< >>) = {}
<1>1. << >> \in Seq(Entry)
  BY EmptySeq
<1> QED
  BY <1>1 DEF EntriesRight, OnceEach, Range

LEMMA NoLongerReplaced ==
  ASSUME NEW made, NEW new, NEW back,
         EntriesRight(mPointerProtocols', made, new, back), replaced' = back \cap Devices!Known'
  PROVE  /\ EntriesRight(mPointerProtocols', made, new, replaced')
         /\ \A p \in Range(mPointerProtocols') : p.Installed /\ p.Handle \notin replaced' =>
              p.Handle \notin back
<1> DEFINE list == mPointerProtocols'
<1>1. replaced' = back \cap {p.Handle : p \in {q \in Range(list) : q.Installed}}
  BY DEF Devices!Known, Devices!Range, Range
<1> HIDE DEF list
<1>2. \A i \in DOMAIN list : list[i] \in Range(list)
  BY DEF Range
<1>3. \A p \in Range(list) : p.Installed /\ p.Handle \notin replaced' => p.Handle \notin back
  BY <1>1
<1>4. EntriesRight(list, made, new, replaced')
  BY <1>2, <1>3 DEF EntriesRight, list
<1> QED
  BY <1>3, <1>4 DEF list

LEMMA RemoveFacts ==
  ASSUME DevicesInv, NEW pool \in BOOLEAN, NEW ok \in BOOLEAN,
         Devices!RemoveUninstalled(pool, ok)
  PROVE  /\ EntriesRight(mPointerProtocols', generation, arrived, replaced')
         /\ \A p \in Range(mPointerProtocols') :
              \/ p.Handle \in replaced'
              \/ Devices!Stuck(pool, ok) /\ ~p.Installed
              \/ p.Handle \in connected /\ p.Interface = generation[p.Handle]
<1> DEFINE list == mPointerProtocols
           checked == Devices!Checked(list, connected)
           matches == Devices!Installed(checked)
           rest == mPointerProtocols'
<1>1. EntriesRight(list, generation, arrived, replaced)
  BY DEF DevicesInv
<1>2. /\ rest = IF Devices!LocateFails(pool) THEN << >>
                ELSE IF matches # << >> /\ ok THEN matches ELSE checked
      /\ replaced' = replaced \cap Devices!Known'
  BY DEF Devices!RemoveUninstalled, Devices!Remaining
<1>3. Devices!Stuck(pool, ok) <=> /\ ~Devices!LocateFails(pool) /\ Len(matches) # Len(list)
                                  /\ matches = << >> \/ ~ok
  BY DEF Devices!Stuck
<1>4. /\ EntriesRight(checked, generation, arrived, replaced) /\ Len(checked) = Len(list)
      /\ \A p \in Range(checked) : p.Installed => p.Handle \in connected
  BY <1>1, CheckedRight
<1> HIDE DEF checked, rest
<1>5. /\ EntriesRight(matches, generation, arrived, replaced)
      /\ Range(matches) = {p \in Range(checked) : p.Installed}
  BY <1>4, InstalledRight
<1> HIDE DEF matches
<1>6. /\ EntriesRight(rest, generation, arrived, replaced)
      /\ Range(rest) \subseteq Range(checked)
  BY <1>2, <1>4, <1>5, NoEntriesRight
<1>7. /\ EntriesRight(rest, generation, arrived, replaced')
      /\ \A p \in Range(rest) : p.Installed /\ p.Handle \notin replaced' => p.Handle \notin replaced
  BY <1>2, <1>6, NoLongerReplaced DEF rest
<1>8. ASSUME NEW p \in Range(rest), p.Installed, p.Handle \notin replaced'
      PROVE  p.Handle \in connected /\ p.Interface = generation[p.Handle]
  <2>1. PICK i \in DOMAIN rest : rest[i] = p
    BY DEF Range
  <2> QED
    BY <1>4, <1>6, <1>7, <1>8, <2>1 DEF EntriesRight
<1>9. ASSUME NEW p \in Range(rest), ~p.Installed
      PROVE  Devices!Stuck(pool, ok)
  <2>1. ~Devices!LocateFails(pool)
    BY <1>2, <1>9 DEF Range
  <2>2. p \in Range(checked) /\ p \notin Range(matches)
    BY <1>5, <1>6, <1>9
  <2>3. matches = << >> \/ ~ok
    BY <1>2, <2>1, <2>2
  <2>4. /\ checked \in Seq(Entry) /\ matches \in Seq(Entry)
        /\ IsInjective(checked) /\ IsInjective(matches)
    BY <1>4, <1>5 DEF EntriesRight, OnceEach, IsInjective
  <2>5. Len(matches) # Len(checked)
    BY <1>5, <2>2, <2>4, ShorterList
  <2> QED
    BY <1>3, <1>4, <2>1, <2>3, <2>5
<1> QED
  BY <1>7, <1>8, <1>9 DEF rest


LEMMA NobodyAsked ==
  ASSUME lastPoll' = Devices!None
  PROVE  Devices!OnlyLiveDevicesAsked'
BY DEF Devices!None, Devices!OnlyLiveDevicesAsked

LEMMA StretchedFacts ==
  ASSUME DeviceTypes, NEW t \in Nat
  PROVE  Devices!Stretched(t) \in POINTER_POLL_FREQUENCY .. MAX_POINTER_POLL_FREQUENCY
<1>1. /\ POINTER_POLL_FREQUENCY \in Nat /\ MAX_POINTER_POLL_FREQUENCY \in Nat
      /\ POINTER_POLL_FREQUENCY <= MAX_POINTER_POLL_FREQUENCY
      /\ pollTime \in POINTER_POLL_FREQUENCY .. MAX_POINTER_POLL_FREQUENCY
  BY EventsAssumption DEF Devices!InstancesAssumption, DeviceTypes
<1>2. CASE ~(pollTime < MAX_POINTER_POLL_FREQUENCY /\ t > pollTime * 55)
  BY <1>1, <1>2 DEF Devices!Stretched
<1>3. CASE pollTime < MAX_POINTER_POLL_FREQUENCY /\ t > pollTime * 55
  <2>1. PICK slow \in Nat : slow = t \div 50
    OBVIOUS
  <2>2. slow >= pollTime
    BY <1>1, <1>3, <2>1
  <2>3. \E x \in {slow, MAX_POINTER_POLL_FREQUENCY} :
          \A y \in {slow, MAX_POINTER_POLL_FREQUENCY} : x <= y
    BY <1>1
  <2>4. Devices!Min({slow, MAX_POINTER_POLL_FREQUENCY}) \in {slow, MAX_POINTER_POLL_FREQUENCY}
    BY <2>3 DEF Devices!Min
  <2>5. Devices!Min({slow, MAX_POINTER_POLL_FREQUENCY}) <= MAX_POINTER_POLL_FREQUENCY
    BY <2>3 DEF Devices!Min
  <2>6. Devices!Stretched(t) = Devices!Min({slow, MAX_POINTER_POLL_FREQUENCY})
    BY <1>3, <2>1 DEF Devices!Stretched
  <2> QED
    BY <1>1, <2>2, <2>4, <2>5, <2>6
<1> QED
  BY <1>2, <1>3

LEMMA ConnectInv ==
  ASSUME DevicesInv, NEW h \in Device, Devices!Connect(h)
  PROVE  DevicesInv'
<1>1. /\ h \notin connected /\ generation[h] < MaxGeneration /\ lastPoll' = Devices!None
      /\ generation' = [generation EXCEPT ![h] = @ + 1]
      /\ connected' = connected \cup {h} /\ arrived' = arrived \cup {h}
      /\ replaced' = IF h \in Devices!Known THEN replaced \cup {h} ELSE replaced
      /\ mPointerProtocols' = mPointerProtocols
      /\ pollEvent' = pollEvent /\ pollTime' = pollTime /\ scan' = scan
  BY DEF Devices!Connect, Devices!timer
<1>2. PICK n \in Nat : n = generation[h] /\ n < MaxGeneration
  BY <1>1 DEF DevicesInv, DeviceTypes
<1>3. generation' = [generation EXCEPT ![h] = n + 1] /\ MaxGeneration \in Nat
  BY <1>1, <1>2, EventsAssumption DEF Devices!InstancesAssumption
<1>4. /\ generation' \in [Device -> 0 .. MaxGeneration] /\ generation'[h] = n + 1
      /\ \A g \in Device \ {h} : generation'[g] = generation[g]
  BY <1>2, <1>3 DEF DevicesInv, DeviceTypes
<1>5. IsFiniteSet(arrived')
  BY <1>1, FS_AddElement DEF DevicesInv, DeviceTypes
<1>6. DeviceTypes'
  BY <1>1, <1>2, <1>4, <1>5 DEF DevicesInv, DeviceTypes
<1>7. ASSUME NEW i \in DOMAIN mPointerProtocols, NEW p, p = mPointerProtocols[i]
      PROVE  /\ p.Interface \in 1 .. generation'[p.Handle]
             /\ p.Installed /\ p.Handle \notin replaced' => p.Interface = generation'[p.Handle]
             /\ p.Handle \in arrived' => p.Interface # generation'[p.Handle]
  <2>1. /\ p \in Entry /\ p.Interface \in 1 .. generation[p.Handle]
        /\ p.Installed /\ p.Handle \notin replaced => p.Interface = generation[p.Handle]
        /\ p.Handle \in arrived => p.Interface # generation[p.Handle]
    BY <1>7 DEF DevicesInv, EntriesRight
  <2>2. CASE p.Handle = h
    <3>1. p.Interface \in 1 .. (n + 1) /\ p.Interface # n + 1
      BY <1>2, <2>1, <2>2
    <3>2. p.Installed => h \in Devices!Known
      BY <1>7, <2>2 DEF Devices!Known, Devices!Range
    <3> QED
      BY <1>1, <1>4, <2>2, <3>1, <3>2
  <2>3. CASE p.Handle # h
    <3>1. p.Handle \in Device \ {h}
      BY <2>1, <2>3 DEF Entry
    <3> QED
      BY <1>1, <1>4, <2>1, <3>1
  <2> QED
    BY <2>2, <2>3
<1>8. EntriesRight(mPointerProtocols, generation', arrived', replaced')
  BY <1>7 DEF DevicesInv, EntriesRight
<1> QED
  BY <1>1, <1>6, <1>8, NobodyAsked DEF DevicesInv

LEMMA DisconnectInv ==
  ASSUME DevicesInv, NEW h \in Device, Devices!Disconnect(h)
  PROVE  DevicesInv'
<1>1. /\ lastPoll' = Devices!None
      /\ connected' = connected \ {h} /\ arrived' = arrived \ {h}
      /\ generation' = generation /\ replaced' = replaced
      /\ mPointerProtocols' = mPointerProtocols
      /\ pollEvent' = pollEvent /\ pollTime' = pollTime /\ scan' = scan
  BY DEF Devices!Disconnect, Devices!timer
<1>2. IsFiniteSet(arrived')
  BY <1>1, FS_RemoveElement DEF DevicesInv, DeviceTypes
<1>3. DeviceTypes'
  BY <1>1, <1>2 DEF DevicesInv, DeviceTypes
<1>4. EntriesRight(mPointerProtocols, generation, arrived', replaced)
  BY <1>1 DEF DevicesInv, EntriesRight
<1> QED
  BY <1>1, <1>3, <1>4, NobodyAsked DEF DevicesInv

LEMMA InstallNotifyInv ==
  ASSUME DevicesInv, NEW order \in Devices!SetToSeqs(arrived), NEW ok \in SUBSET arrived,
         Devices!InstallNotify(order, ok)
  PROVE  DevicesInv'
<1> DEFINE list == mPointerProtocols
           new == Devices!Only(order, ok)
           added == Devices!Registered(order, ok)
<1>1. /\ mPointerProtocols' = list \o added /\ arrived' = {} /\ lastPoll' = Devices!None
      /\ generation' = generation /\ connected' = connected /\ replaced' = replaced
      /\ pollEvent' = pollEvent /\ pollTime' = pollTime /\ scan' = scan
  BY DEF Devices!InstallNotify, Devices!timer
<1>2. order \in Seq(arrived) /\ IsInjective(order)
  <2>1. PICK n \in Nat : n = Cardinality(arrived)
    BY FS_CardinalityType DEF DevicesInv, DeviceTypes
  <2>2. Devices!Cardinality(arrived) = Cardinality(arrived)
    BY DEF Devices!Cardinality, Cardinality
  <2>3. /\ order \in [1 .. n -> arrived]
        /\ \A i, j \in 1 .. n : i # j => order[i] # order[j]
    BY <2>1, <2>2 DEF Devices!SetToSeqs
  <2> QED
    BY <2>3, FunctionIsSeq DEF IsInjective
<1>3. new = Only(order, ok)
  BY DEF Devices!Only, Only
<1>4. new \in Seq(arrived) /\ IsInjective(new)
  BY <1>2, <1>3, OnlyFacts DEF OnlyRight
<1> HIDE DEF new
<1>5. ASSUME NEW h \in arrived
      PROVE  /\ Devices!Instance(h) \in Entry /\ Devices!Instance(h).Handle = h
             /\ Devices!Instance(h).Interface = generation[h]
             /\ generation[h] \in 1 .. generation[h]
  BY DEF Devices!Instance, Entry, DevicesInv, DeviceTypes
<1>6. /\ Len(new) \in Nat /\ DOMAIN new = 1 .. Len(new) /\ \A i \in DOMAIN new : new[i] \in arrived
      /\ added = [i \in DOMAIN new |-> Devices!Instance(new[i])]
  BY <1>4 DEF Devices!Registered, new
<1>7. added \in Seq(Entry) /\ Len(added) = Len(new) /\ DOMAIN added = 1 .. Len(new)
      /\ \A i \in 1 .. Len(new) : added[i] = Devices!Instance(new[i])
  <2>1. added \in [1 .. Len(new) -> Entry]
    BY <1>5, <1>6
  <2> HIDE DEF added
  <2> QED
    BY <1>6, <2>1, FunctionIsSeq
<1> HIDE DEF added
<1>8. /\ list \in Seq(Entry) /\ OnceEach(list) /\ Len(list) \in Nat /\ DOMAIN list = 1 .. Len(list)
      /\ \A i \in DOMAIN list :
           /\ list[i].Interface \in 1 .. generation[list[i].Handle]
           /\ list[i].Installed /\ list[i].Handle \notin replaced =>
                list[i].Interface = generation[list[i].Handle]
           /\ list[i].Handle \in arrived => list[i].Interface # generation[list[i].Handle]
  BY DEF DevicesInv, EntriesRight
<1> DEFINE whole == list \o added
<1>9. /\ whole \in Seq(Entry) /\ DOMAIN whole = 1 .. (Len(list) + Len(new))
      /\ \A i \in 1 .. Len(list) : whole[i] = list[i]
      /\ \A i \in 1 .. (Len(list) + Len(new)) : i > Len(list) => whole[i] = added[i - Len(list)]
  BY <1>6, <1>7, <1>8
<1> HIDE DEF whole
<1>10. ASSUME NEW i \in DOMAIN whole, i > Len(list)
       PROVE  /\ i - Len(list) \in 1 .. Len(new) /\ new[i - Len(list)] \in arrived
              /\ whole[i].Handle = new[i - Len(list)]
              /\ whole[i].Interface = generation[whole[i].Handle]
              /\ whole[i].Interface \in 1 .. generation[whole[i].Handle]
  <2>1. i - Len(list) \in 1 .. Len(new)
    BY <1>6, <1>8, <1>9, <1>10
  <2>2. PICK h \in arrived : h = new[i - Len(list)]
    BY <1>6, <2>1
  <2>3. whole[i] = Devices!Instance(h)
    BY <1>7, <1>9, <1>10, <2>1, <2>2
  <2> QED
    BY <1>5, <2>1, <2>2, <2>3
<1>11. ASSUME NEW i \in DOMAIN whole, NEW j \in DOMAIN whole,
              whole[i].Handle = whole[j].Handle, whole[i].Interface = whole[j].Interface
       PROVE  i = j
  <2>1. i \in Nat /\ j \in Nat
    BY <1>6, <1>8, <1>9
  <2>2. CASE i <= Len(list) /\ j <= Len(list)
    <3>1. i \in DOMAIN list /\ j \in DOMAIN list /\ whole[i] = list[i] /\ whole[j] = list[j]
      BY <1>8, <1>9, <2>1, <2>2
    <3> QED
      BY <1>8, <1>11, <3>1 DEF OnceEach
  <2>3. CASE i > Len(list) /\ j > Len(list)
    <3>1. /\ i - Len(list) \in DOMAIN new /\ j - Len(list) \in DOMAIN new
          /\ new[i - Len(list)] = new[j - Len(list)]
      BY <1>6, <1>10, <1>11, <2>3
    <3>2. i - Len(list) = j - Len(list)
      BY <1>4, <3>1 DEF IsInjective
    <3> QED
      BY <1>8, <2>1, <3>2
  <2>4. ASSUME NEW k \in DOMAIN whole, NEW l \in DOMAIN whole, k <= Len(list), l > Len(list),
               whole[k].Handle = whole[l].Handle, whole[k].Interface = whole[l].Interface
        PROVE  FALSE
    <3>1. k \in DOMAIN list /\ whole[k] = list[k]
      BY <1>8, <1>9, <2>4
    <3>2. whole[l].Handle \in arrived /\ whole[l].Interface = generation[whole[l].Handle]
      BY <1>10, <2>4
    <3> QED
      BY <1>8, <2>4, <3>1, <3>2
  <2> QED
    BY <1>8, <1>11, <2>1, <2>2, <2>3, <2>4
<1>12. ASSUME NEW i \in DOMAIN whole
       PROVE  /\ whole[i].Interface \in 1 .. generation[whole[i].Handle]
              /\ whole[i].Installed /\ whole[i].Handle \notin replaced =>
                   whole[i].Interface = generation[whole[i].Handle]
  <2>1. i \in Nat
    BY <1>6, <1>8, <1>9
  <2>2. CASE i <= Len(list)
    BY <1>8, <1>9, <2>1, <2>2
  <2>3. CASE i > Len(list)
    BY <1>10, <2>3
  <2> QED
    BY <1>8, <2>1, <2>2, <2>3
<1>13. EntriesRight(whole, generation, {}, replaced)
  BY <1>9, <1>11, <1>12 DEF EntriesRight, OnceEach
<1>14. DeviceTypes'
  <2>1. IsFiniteSet({})
    BY FS_EmptySet
  <2> QED
    BY <1>1, <2>1 DEF DevicesInv, DeviceTypes
<1> QED
  BY <1>1, <1>13, <1>14, NobodyAsked DEF DevicesInv, whole

\* A step that only moves the timer or the scan.
LEMMA DevicesQuietInv ==
  ASSUME DevicesInv, UNCHANGED <<generation, connected, arrived, mPointerProtocols, replaced>>,
         lastPoll' = Devices!None, pollEvent' \in BOOLEAN,
         pollTime' \in POINTER_POLL_FREQUENCY .. MAX_POINTER_POLL_FREQUENCY,
         scan'.pc \in {"idle", "located", "swap", "reset"}
  PROVE  DevicesInv'
<1>1. DeviceTypes'
  BY DEF DevicesInv, DeviceTypes
<1>2. EntriesRight(mPointerProtocols', generation', arrived', replaced')
  BY DEF DevicesInv
<1> QED
  BY <1>1, <1>2, NobodyAsked DEF DevicesInv

LEMMA ScanBeginInv ==
  ASSUME DevicesInv, NEW pool \in BOOLEAN, Devices!ScanBegin(pool)
  PROVE  DevicesInv'
<1>1. /\ UNCHANGED <<generation, connected, arrived, mPointerProtocols, replaced>>
      /\ pollEvent' = pollEvent /\ pollTime' = pollTime
      /\ lastPoll' = Devices!None /\ scan'.pc = "located"
  BY DEF Devices!ScanBegin, Devices!devices, Devices!timer
<1> QED
  BY <1>1, DevicesQuietInv DEF DevicesInv, DeviceTypes

LEMMA ScanMarkInv ==
  ASSUME DevicesInv, NEW ok \in BOOLEAN, Devices!ScanMark(ok)
  PROVE  DevicesInv'
<1> DEFINE checked == Devices!Checked(mPointerProtocols, scan.found)
<1>1. /\ mPointerProtocols' = IF scan.error THEN << >> ELSE checked
      /\ replaced' = replaced \cap Devices!Known'
      /\ lastPoll' = Devices!None /\ scan'.pc \in {"swap", "reset"}
      /\ generation' = generation /\ connected' = connected /\ arrived' = arrived
      /\ pollEvent' = pollEvent /\ pollTime' = pollTime
  BY DEF Devices!ScanMark, Devices!devices, Devices!timer
<1>2. EntriesRight(checked, generation, arrived, replaced)
  BY CheckedRight DEF DevicesInv
<1>3. EntriesRight(mPointerProtocols', generation, arrived, replaced)
  BY <1>1, <1>2, NoEntriesRight
<1>4. EntriesRight(mPointerProtocols', generation, arrived, replaced')
  BY <1>1, <1>3, NoLongerReplaced
<1>5. DeviceTypes'
  BY <1>1 DEF DevicesInv, DeviceTypes
<1> QED
  BY <1>1, <1>4, <1>5, NobodyAsked DEF DevicesInv

LEMMA ScanSwapInv ==
  ASSUME DevicesInv, Devices!ScanSwap
  PROVE  DevicesInv'
<1>1. /\ mPointerProtocols' = Devices!Installed(mPointerProtocols)
      /\ lastPoll' = Devices!None /\ scan'.pc = "reset" /\ replaced' = replaced
      /\ generation' = generation /\ connected' = connected /\ arrived' = arrived
      /\ pollEvent' = pollEvent /\ pollTime' = pollTime
  BY DEF Devices!ScanSwap, Devices!devices, Devices!timer
<1>2. EntriesRight(mPointerProtocols', generation, arrived, replaced)
  BY <1>1, InstalledRight DEF DevicesInv
<1>3. DeviceTypes'
  BY <1>1 DEF DevicesInv, DeviceTypes
<1> QED
  BY <1>1, <1>2, <1>3, NobodyAsked DEF DevicesInv

LEMMA ScanEndInv ==
  ASSUME DevicesInv, NEW timerOk \in BOOLEAN, Devices!ScanEnd(timerOk)
  PROVE  DevicesInv'
<1>1. /\ UNCHANGED <<generation, connected, arrived, mPointerProtocols, replaced>>
      /\ pollEvent' = timerOk /\ pollTime' = POINTER_POLL_FREQUENCY
      /\ lastPoll' = Devices!None /\ scan'.pc = "idle"
  BY DEF Devices!ScanEnd, Devices!devices
<1>2. POINTER_POLL_FREQUENCY \in POINTER_POLL_FREQUENCY .. MAX_POINTER_POLL_FREQUENCY
  BY EventsAssumption DEF Devices!InstancesAssumption
<1> QED
  BY <1>1, <1>2, DevicesQuietInv

LEMMA DevicePollInv ==
  ASSUME DevicesInv, NEW pool \in BOOLEAN, NEW ok \in BOOLEAN, NEW t \in Elapsed,
         Devices!PointerPoll(pool, ok, t)
  PROVE  DevicesInv'
<1>1. /\ Devices!RemoveUninstalled(pool, ok)
      /\ lastPoll' = [asked |-> Devices!Range(mPointerProtocols)', time |-> t,
                      stuck |-> Devices!Stuck(pool, ok)]
      /\ pollEvent' = (mPointerProtocols' # << >>)
      /\ pollTime' = IF pollEvent' THEN Devices!Stretched(t) ELSE pollTime
      /\ generation' = generation /\ connected' = connected /\ arrived' = arrived
      /\ scan' = scan
  BY DEF Devices!PointerPoll, Devices!devices, Devices!Range
<1>2. t \in Nat
  BY EventsAssumption DEF Devices!InstancesAssumption
<1>3. DeviceTypes'
  BY <1>1, <1>2, StretchedFacts DEF DevicesInv, DeviceTypes
<1>4. /\ EntriesRight(mPointerProtocols', generation, arrived, replaced')
      /\ \A p \in Range(mPointerProtocols') :
           \/ p.Handle \in replaced'
           \/ Devices!Stuck(pool, ok) /\ ~p.Installed
           \/ p.Handle \in connected /\ p.Interface = generation[p.Handle]
  BY <1>1, RemoveFacts
<1>5. /\ lastPoll'.asked = Range(mPointerProtocols')
      /\ lastPoll'.stuck <=> Devices!Stuck(pool, ok)
  BY <1>1 DEF Devices!Range, Range
<1>6. Devices!OnlyLiveDevicesAsked'
  BY <1>1, <1>4, <1>5 DEF Devices!OnlyLiveDevicesAsked
<1> QED
  BY <1>1, <1>3, <1>4, <1>6 DEF DevicesInv

LEMMA DevicesInitInv ==
  ASSUME Devices!Init
  PROVE  DevicesInv
<1>1. /\ generation = [h \in Device |-> 0] /\ connected = {} /\ arrived = {}
      /\ mPointerProtocols = << >> /\ lastPoll = Devices!None /\ replaced = {}
      /\ pollEvent = FALSE /\ pollTime = POINTER_POLL_FREQUENCY /\ scan.pc = "idle"
  BY DEF Devices!Init
<1>2. /\ POINTER_POLL_FREQUENCY \in POINTER_POLL_FREQUENCY .. MAX_POINTER_POLL_FREQUENCY
      /\ 0 \in 0 .. MaxGeneration
  BY EventsAssumption DEF Devices!InstancesAssumption
<1>3. DeviceTypes
  BY <1>1, <1>2, FS_EmptySet DEF DeviceTypes
<1>4. EntriesRight(mPointerProtocols, generation, arrived, replaced)
  BY <1>1, NoEntriesRight
<1>5. Devices!OnlyLiveDevicesAsked
  BY <1>1 DEF Devices!None, Devices!OnlyLiveDevicesAsked
<1> QED
  BY <1>3, <1>4, <1>5 DEF DevicesInv

LEMMA DevicesNextInv ==
  ASSUME DevicesInv, [Devices!Next]_(Devices!vars)
  PROVE  DevicesInv'
<1>1. CASE UNCHANGED Devices!vars
  BY <1>1 DEF Devices!vars, DevicesInv, DeviceTypes, Devices!OnlyLiveDevicesAsked
<1>2. ASSUME NEW h \in Device, Devices!Connect(h) \/ Devices!Disconnect(h)
      PROVE  DevicesInv'
  BY <1>2, ConnectInv, DisconnectInv
<1>3. CASE Devices!Arrival
  BY <1>3, InstallNotifyInv DEF Devices!Arrival
<1>4. CASE Devices!EventCreateSimplePointerPollEvent
  BY <1>4, ScanBeginInv, ScanMarkInv, ScanSwapInv, ScanEndInv
     DEF Devices!EventCreateSimplePointerPollEvent
<1>5. CASE Devices!EventCancelSimplePointerPollEvent
  <2>1. /\ pollEvent' = FALSE /\ lastPoll' = Devices!None
        /\ UNCHANGED <<generation, connected, arrived, mPointerProtocols, replaced>>
        /\ pollTime' = pollTime /\ scan' = scan
    BY <1>5 DEF Devices!EventCancelSimplePointerPollEvent, Devices!devices
  <2> QED
    BY <2>1, DevicesQuietInv DEF DevicesInv, DeviceTypes
<1>6. ASSUME NEW pool \in BOOLEAN, NEW ok \in BOOLEAN, NEW t \in Elapsed,
             Devices!PointerPoll(pool, ok, t)
      PROVE  DevicesInv'
  BY <1>6, DevicePollInv
<1> QED
  BY <1>1, <1>2, <1>3, <1>4, <1>5, <1>6 DEF Devices!Next


LEMMA DevicesStep ==
  ASSUME [MCNext]_MCVars
  PROVE  [Devices!Next]_(Devices!vars)
BY DEF MCNext, MCVars, DeviceVars, Devices!vars

LEMMA DevicesInvSuffices ==
  ASSUME DevicesInv
  PROVE  OnlyLiveDevicesAsked
<1> DEFINE list == mPointerProtocols
           Shown == [Handle : Device, Interface : 1 .. MaxGeneration, Installed : BOOLEAN]
<1>1. /\ list \in Seq(Entry) /\ OnceEach(list) /\ Len(list) \in Nat /\ DOMAIN list = 1 .. Len(list)
      /\ \A i \in DOMAIN list :
           /\ list[i] \in Entry
           /\ list[i].Interface \in 1 .. generation[list[i].Handle]
           /\ list[i].Installed /\ list[i].Handle \notin replaced =>
                list[i].Interface = generation[list[i].Handle]
  BY DEF DevicesInv, EntriesRight
<1>2. ASSUME NEW i \in DOMAIN list PROVE list[i] \in Shown
  <2>1. PICK p \in Entry : p = list[i]
    BY <1>1
  <2>2. PICK n \in 0 .. MaxGeneration : n = generation[p.Handle]
    BY DEF DevicesInv, DeviceTypes, Entry
  <2>3. p.Interface \in 1 .. n /\ MaxGeneration \in Nat
    BY <1>1, <2>1, <2>2, EventsAssumption DEF Devices!InstancesAssumption
  <2>4. p.Interface \in 1 .. MaxGeneration
    BY <2>2, <2>3
  <2> QED
    BY <2>1, <2>4 DEF Entry
<1>3. list \in Seq(Shown)
  <2>1. list \in [1 .. Len(list) -> Shown]
    BY <1>1, <1>2
  <2> HIDE DEF Shown
  <2> QED
    BY <1>1, <2>1, FunctionIsSeq
<1>4. Devices!TypeOK
  BY <1>3 DEF Devices!TypeOK, DevicesInv, DeviceTypes
<1>5. ASSUME NEW h \in Devices!Known \ replaced
      PROVE  Cardinality({i \in DOMAIN list : list[i].Handle = h /\ list[i].Installed}) = 1
  <2>1. PICK i \in DOMAIN list : list[i].Handle = h /\ list[i].Installed
    BY DEF Devices!Known, Devices!Range
  <2>2. ASSUME NEW j \in DOMAIN list, list[j].Handle = h, list[j].Installed
        PROVE  j = i
    <3>1. list[j].Interface = generation[h] /\ list[i].Interface = generation[h]
      BY <1>1, <1>5, <2>1, <2>2
    <3> QED
      BY <1>1, <2>1, <2>2, <3>1 DEF OnceEach
  <2>3. {j \in DOMAIN list : list[j].Handle = h /\ list[j].Installed} = {i}
    BY <2>1, <2>2
  <2> QED
    BY <2>3, FS_Singleton
<1>6. \A S : Devices!Cardinality(S) = Cardinality(S)
  BY DEF Devices!Cardinality, Cardinality
<1>7. Devices!NoDeviceTwice
  BY <1>5, <1>6 DEF Devices!NoDeviceTwice
<1> QED
  BY <1>4, <1>7 DEF OnlyLiveDevicesAsked, DevicesInv


\* A poll only asks pointer devices that are there, through the interface they have now, and
\* each once, for any number of devices that come and go any number of times, also while the
\* creation of the timer cleans the array, in any order in which their arrivals are noticed and
\* whichever lookups and allocations fail (PointerHandler.c:170-173, 206-340, 672-680).
THEOREM OnlyLiveDevicesAreAsked == MCSpec => []OnlyLiveDevicesAsked
<1>1. MCInit => DevicesInv
  BY DevicesInitInv DEF MCInit
<1>2. DevicesInv /\ [MCNext]_MCVars => DevicesInv'
  BY DevicesStep, DevicesNextInv
<1>3. DevicesInv => OnlyLiveDevicesAsked
  BY DevicesInvSuffices
<1> QED
  BY <1>1, <1>2, <1>3, PTL DEF MCSpec

----------------------------------------------------------------------------
(* The pointer shim. *)

Motion == Int \X Int
SlotType ==
  [DeviceHandle : AimHandle \cup {NoHandle}, SimplePointer : AimHandle \cup {NoHandle},
   OriginalGetState : {"null", "firmware"}, PositionChanged : BOOLEAN, Position : Motion]

\* The slots in use are the first ones; each has its own device, whose protocol is hooked
\* unless the device left, and whose function of the firmware it keeps; and a protocol that is
\* hooked has a slot.
HooksRight(map, get, left) ==
  /\ \A s, q \in Ami!Slot : map[s].DeviceHandle # NoHandle /\ q < s => map[q].DeviceHandle # NoHandle
  /\ \A s \in Ami!Slot : map[s].DeviceHandle # NoHandle =>
       /\ map[s].SimplePointer = map[s].DeviceHandle /\ map[s].OriginalGetState = "firmware"
       /\ get[map[s].DeviceHandle] = "shim" \/ map[s].DeviceHandle \in left
  /\ \A s, q \in Ami!Slot :
       map[s].DeviceHandle # NoHandle /\ map[s].DeviceHandle = map[q].DeviceHandle => s = q
  /\ \A h \in AimHandle : get[h] = "shim" => \E s \in Ami!Slot : map[s].DeviceHandle = h

\* A slot holds what its device is owed.
Level(map, owed) ==
  \A s \in Ami!Slot : /\ map[s].Position = owed[s]
                      /\ map[s].Position # Ami!Still => map[s].PositionChanged

\* The slots belong to whom they belonged.
SameOwners(map, new) ==
  \A s \in Ami!Slot : /\ new[s].DeviceHandle = map[s].DeviceHandle
                      /\ new[s].SimplePointer = map[s].SimplePointer
                      /\ new[s].OriginalGetState = map[s].OriginalGetState

\* The slots hold the movements they held.
SameMovements(map, new) ==
  \A s \in Ami!Slot : /\ new[s].Position = map[s].Position
                      /\ new[s].PositionChanged = map[s].PositionChanged

AmiTypes ==
  /\ PointerMap \in [Ami!Slot -> SlotType]
  /\ GetState \in [AimHandle -> {"absent", "firmware", "shim"}]
  /\ aimOwed \in [Ami!Slot -> Motion]
  /\ mAmiShimPointer \in [TimersInitialised : BOOLEAN, UsageStarted : BOOLEAN,
                          arriveEvent : BOOLEAN]
  /\ aimBetween \in BOOLEAN
  /\ \/ aimCall = Ami!NoQuestion
     \/ aimCall.pc = "clear" /\ aimCall.slot \in Ami!Slot /\ mAmiShimPointer.UsageStarted

AmiInv == AmiTypes /\ HooksRight(PointerMap, GetState, aimLeft) /\ Ami!MovementKept

LEMMA SlotFacts ==
  /\ AIM_MAX_POINTERS \in Nat /\ Ami!Slot = 1 .. AIM_MAX_POINTERS /\ 0 \notin Ami!Slot
  /\ NoHandle \notin AimHandle /\ IsFiniteSet(AimHandle)
  /\ Ami!Still \in Motion
<1>1. IsFiniteSet(AimHandle)
  BY EventsAssumption DEF Ami!AimAssumption, Ami!IsFiniteSet, IsFiniteSet
<1> QED
  BY <1>1, EventsAssumption DEF Ami!AimAssumption, Ami!Slot, Ami!Still, Motion

\* The first slot that passes a test.
LEMMA FirstSlot ==
  ASSUME NEW map \in [Ami!Slot -> SlotType], NEW I \in SUBSET Ami!Slot, I # {}
  PROVE  Ami!Min(I) \in I /\ \A i \in I : Ami!Min(I) <= i
<1>1. I \in SUBSET Nat
  BY SlotFacts
<1>2. \E n \in I : \A i \in I : n <= i
  BY <1>1, NatSetHasMinimum
<1> QED
  BY <1>2 DEF Ami!Min

\* The slot found for a protocol, and for a device.
OfProtocol(map, h) == Ami!SelectInSeq(map, LAMBDA p : p.SimplePointer = h)
OfDevice(map, h) == Ami!SelectInSeq(map, LAMBDA p : p.DeviceHandle = h)

LEMMA SelectFacts ==
  ASSUME NEW map \in [Ami!Slot -> SlotType], NEW h
  PROVE  /\ (\E q \in Ami!Slot : map[q].SimplePointer = h) =>
              /\ OfProtocol(map, h) \in Ami!Slot
              /\ map[OfProtocol(map, h)].SimplePointer = h
              /\ \A q \in Ami!Slot : map[q].SimplePointer = h => OfProtocol(map, h) <= q
         /\ ~(\E q \in Ami!Slot : map[q].SimplePointer = h) => OfProtocol(map, h) = 0
         /\ (\E q \in Ami!Slot : map[q].DeviceHandle = h) =>
              /\ OfDevice(map, h) \in Ami!Slot /\ map[OfDevice(map, h)].DeviceHandle = h
              /\ \A q \in Ami!Slot : map[q].DeviceHandle = h => OfDevice(map, h) <= q
         /\ ~(\E q \in Ami!Slot : map[q].DeviceHandle = h) => OfDevice(map, h) = 0
<1>1. Len(map) = AIM_MAX_POINTERS
  BY SlotFacts, FunctionIsSeq
<1> DEFINE I == {q \in Ami!Slot : map[q].SimplePointer = h}
           J == {q \in Ami!Slot : map[q].DeviceHandle = h}
<1>2. /\ OfProtocol(map, h) = IF I # {} THEN Ami!Min(I) ELSE 0
      /\ OfDevice(map, h) = IF J # {} THEN Ami!Min(J) ELSE 0
  BY <1>1, SlotFacts DEF Ami!SelectInSeq, OfProtocol, OfDevice
<1>3. /\ I # {} => Ami!Min(I) \in I /\ \A i \in I : Ami!Min(I) <= i
      /\ J # {} => Ami!Min(J) \in J /\ \A i \in J : Ami!Min(J) <= i
  BY FirstSlot
<1> QED
  BY <1>2, <1>3

LEMMA FoundFacts ==
  ASSUME PointerMap \in [Ami!Slot -> SlotType], NEW h, Ami!Found(h) # 0
  PROVE  Ami!Found(h) \in Ami!Slot
<1>1. Ami!Found(h) = OfProtocol(PointerMap, h)
  BY DEF Ami!Found, OfProtocol
<1> QED
  BY <1>1, SelectFacts

LEMMA HooksAreFound ==
  ASSUME AmiTypes, HooksRight(PointerMap, GetState, aimLeft)
  PROVE  Ami!HooksFound
<1> SUFFICES ASSUME NEW h \in AimHandle
             PROVE  /\ GetState[h] # "null"
                    /\ GetState[h] = "shim" => \E s \in Ami!Slot : PointerMap[s].DeviceHandle = h
                    /\ (\E s \in Ami!Slot : PointerMap[s].DeviceHandle = h) =>
                         GetState[h] = "shim" \/ h \in aimLeft
                    /\ GetState[h] = "shim" =>
                         /\ Ami!Found(h) # 0
                         /\ PointerMap[Ami!Found(h)].DeviceHandle = h
                         /\ PointerMap[Ami!Found(h)].OriginalGetState = "firmware"
  BY DEF Ami!HooksFound
<1>1. GetState[h] # "null" /\ h # NoHandle
  BY SlotFacts DEF AmiTypes
<1>2. /\ GetState[h] = "shim" => \E s \in Ami!Slot : PointerMap[s].DeviceHandle = h
      /\ (\E s \in Ami!Slot : PointerMap[s].DeviceHandle = h) =>
           GetState[h] = "shim" \/ h \in aimLeft
  BY <1>1 DEF HooksRight
<1>3. ASSUME NEW s \in Ami!Slot, PointerMap[s].DeviceHandle = h
      PROVE  Ami!Found(h) = s
  <2>1. Ami!Found(h) = OfProtocol(PointerMap, h)
    BY DEF Ami!Found, OfProtocol
  <2>2. PointerMap \in [Ami!Slot -> SlotType] /\ PointerMap[s].SimplePointer = h
    BY <1>1, <1>3 DEF AmiTypes, HooksRight
  <2>3. PICK q \in Ami!Slot : /\ q = OfProtocol(PointerMap, h) /\ q <= s
                              /\ PointerMap[q].SimplePointer = h
    BY <2>2, SelectFacts
  <2>4. q = s \/ q < s
    BY <2>3, SlotFacts
  <2>5. PointerMap[q].DeviceHandle # NoHandle
    BY <1>1, <1>3, <2>4 DEF HooksRight
  <2>6. PointerMap[q].DeviceHandle = h
    BY <2>3, <2>5 DEF HooksRight
  <2> QED
    BY <1>1, <1>3, <2>1, <2>3, <2>6 DEF HooksRight
<1> QED
  BY <1>1, <1>2, <1>3, SlotFacts DEF HooksRight

LEMMA SmoothedFacts ==
  ASSUME NEW m \in Motion, NEW f
  PROVE  Ami!Smoothed(m, f).m \in Motion
<1>1. PICK x \in Int, y \in Int : m = <<x, y>>
  BY DEF Motion
<1>2. ASSUME NEW v \in Int, NEW counts, NEW i
      PROVE  Ami!Boosted(Ami!Filtered(v, counts, i).v) \in Int
  <2>1. PICK w \in Int : w = Ami!Filtered(v, counts, i).v
    BY DEF Ami!Filtered
  <2> QED
    BY <2>1 DEF Ami!Boosted
<1>3. CASE m = Ami!Still
  BY <1>3 DEF Ami!Smoothed
<1>4. CASE m # Ami!Still
  <2>1. PICK v \in Int : v = Ami!Boosted(Ami!Filtered(x, f.gXCounts, f.gIndex).v)
    BY <1>2
  <2>2. PICK w \in Int : w = Ami!Boosted(Ami!Filtered(y, f.gYCounts, f.gIndex).v)
    BY <1>2
  <2>3. Ami!Smoothed(m, f).m = <<v, w>>
    BY <1>1, <1>4, <2>1, <2>2 DEF Ami!Smoothed
  <2> QED
    BY <2>3 DEF Motion
<1> QED
  BY <1>3, <1>4

\* What a collection may do to slots and debts: movements are added to both.
CollectRight(map, owed, r) ==
  /\ r.map \in [Ami!Slot -> SlotType] /\ r.owed \in [Ami!Slot -> Motion]
  /\ SameOwners(map, r.map)
  /\ Level(map, owed) => Level(r.map, r.owed)

LEMMA CollectStep ==
  ASSUME NEW r, r.map \in [Ami!Slot -> SlotType], r.owed \in [Ami!Slot -> Motion],
         NEW s \in Ami!Slot, NEW m \in Motion
  PROVE  CollectRight(r.map, r.owed, Ami!CollectedFrom(r, s, m))
<1> DEFINE t == Ami!CollectedFrom(r, s, m)
<1>1. PICK d \in Motion : d = Ami!Smoothed(m, r.f).m
  BY SmoothedFacts
<1>2. CASE r.map[s].DeviceHandle = NoHandle
  <2>1. t = r
    BY <1>2 DEF Ami!CollectedFrom
  <2>2. CollectRight(r.map, r.owed, r)
    BY DEF CollectRight, SameOwners
  <2> HIDE DEF t
  <2> QED
    BY <2>1, <2>2 DEF t
<1>3. CASE r.map[s].DeviceHandle # NoHandle /\ d = Ami!Still
  <2>1. t = [r EXCEPT !.f = Ami!Smoothed(m, r.f).f]
    BY <1>1, <1>3 DEF Ami!CollectedFrom
  <2>2. t.map = r.map /\ t.owed = r.owed
    BY <2>1
  <2> HIDE DEF t
  <2>3. CollectRight(r.map, r.owed, t)
    BY <2>2 DEF CollectRight, SameOwners
  <2> QED
    BY <2>3 DEF t
<1>4. CASE r.map[s].DeviceHandle # NoHandle /\ d # Ami!Still
  <2>1. PICK p \in SlotType : p = r.map[s]
    OBVIOUS
  <2>2. PICK new \in Motion, debt \in Motion :
          new = Ami!Plus(p.Position, d) /\ debt = Ami!Plus(r.owed[s], d)
    <3>1. PICK a \in Int, b \in Int : d = <<a, b>>
      BY DEF Motion
    <3>2. PICK a1 \in Int, b1 \in Int : p.Position = <<a1, b1>>
      BY DEF SlotType, Motion
    <3>3. PICK a2 \in Int, b2 \in Int : r.owed[s] = <<a2, b2>>
      BY DEF Motion
    <3>4. Ami!Plus(p.Position, d) = <<a1 + a, b1 + b>> /\ Ami!Plus(r.owed[s], d) = <<a2 + a, b2 + b>>
      BY <3>1, <3>2, <3>3 DEF Ami!Plus
    <3> QED
      BY <3>4 DEF Motion
  <2>3. t.map = [r.map EXCEPT ![s] = [p EXCEPT !.Position = new, !.PositionChanged = TRUE]]
    BY <1>1, <1>4, <2>1, <2>2 DEF Ami!CollectedFrom, SlotType
  <2>4. t.owed = [r.owed EXCEPT ![s] = debt]
    BY <1>1, <1>4, <2>1, <2>2 DEF Ami!CollectedFrom
  <2> HIDE DEF t
  <2>5. [p EXCEPT !.Position = new, !.PositionChanged = TRUE] \in SlotType
    BY DEF SlotType
  <2>6. t.map \in [Ami!Slot -> SlotType] /\ t.owed \in [Ami!Slot -> Motion]
    BY <2>3, <2>4, <2>5
  <2>7. /\ t.map[s] = [p EXCEPT !.Position = new, !.PositionChanged = TRUE]
        /\ \A q \in Ami!Slot : q # s => t.map[q] = r.map[q] /\ t.owed[q] = r.owed[q]
        /\ t.owed[s] = debt
    BY <2>3, <2>4
  <2>8. /\ t.map[s].Position = new /\ t.map[s].PositionChanged = TRUE
        /\ t.map[s].DeviceHandle = p.DeviceHandle /\ t.map[s].SimplePointer = p.SimplePointer
        /\ t.map[s].OriginalGetState = p.OriginalGetState
    BY <2>7 DEF SlotType
  <2>9. SameOwners(r.map, t.map)
    BY <2>1, <2>7, <2>8 DEF SameOwners
  <2>10. ASSUME Level(r.map, r.owed) PROVE Level(t.map, t.owed)
    <3>1. p.Position = r.owed[s]
      BY <2>1, <2>10 DEF Level
    <3>2. t.map[s].Position = t.owed[s]
      BY <2>2, <2>7, <2>8, <3>1
    <3>3. ASSUME NEW q \in Ami!Slot
          PROVE  /\ t.map[q].Position = t.owed[q]
                 /\ t.map[q].Position # Ami!Still => t.map[q].PositionChanged
      BY <2>7, <2>8, <2>10, <3>2 DEF Level
    <3> QED
      BY <3>3 DEF Level
  <2> QED
    BY <2>6, <2>9, <2>10 DEF CollectRight, t
<1> QED
  BY <1>2, <1>3, <1>4

\* One step of a collection, given what the slots before it made of it.
CollectedStep(r, moved, after, s) ==
  IF s = 0 THEN r ELSE Ami!CollectedFrom(after[s - 1], s, moved[s])

LEMMA CollectIsDefined ==
  ASSUME NEW r, NEW moved, NEW m \in Nat
  PROVE  \E after : after = [s \in 0 .. m |-> CollectedStep(r, moved, after, s)]
<1> DEFINE Defined(k) == \E after : after = [s \in 0 .. k |-> CollectedStep(r, moved, after, s)]
           without == {k \in Nat : ~Defined(k)}
<1> SUFFICES ASSUME without # {} PROVE FALSE
  OBVIOUS
<1>1. PICK first \in without : \A k \in without : first <= k
  <2>1. without \in SUBSET Nat
    OBVIOUS
  <2> HIDE DEF without
  <2> QED
    BY <2>1, NatSetHasMinimum
<1>2. CASE first = 0
  <2>1. [s \in 0 .. 0 |-> r] = [s \in 0 .. 0 |-> CollectedStep(r, moved, [k \in 0 .. 0 |-> r], s)]
    BY DEF CollectedStep
  <2> QED
    BY <1>1, <1>2, <2>1
<1>3. CASE first # 0
  <2>1. first \in Nat /\ first - 1 \in Nat /\ ~(first <= first - 1)
    BY <1>1, <1>3
  <2>2. first - 1 \notin without
    BY <1>1, <2>1
  <2>3. PICK after : after = [s \in 0 .. (first - 1) |-> CollectedStep(r, moved, after, s)]
    BY <2>1, <2>2
  <2> DEFINE more == [s \in 0 .. first |-> IF s = first THEN CollectedStep(r, moved, after, s)
                                           ELSE after[s]]
  <2>4. ASSUME NEW s \in 0 .. first PROVE more[s] = CollectedStep(r, moved, more, s)
    <3>1. CollectedStep(r, moved, more, s) = CollectedStep(r, moved, after, s)
      BY <2>1 DEF CollectedStep
    <3>2. s # first => after[s] = CollectedStep(r, moved, after, s)
      BY <2>1, <2>3
    <3> QED
      BY <3>1, <3>2
  <2>5. more = [s \in 0 .. first |-> CollectedStep(r, moved, more, s)]
    BY <2>4
  <2> QED
    BY <1>1, <2>5
<1> QED
  BY <1>2, <1>3

\* What a collection does to the slots and to what is owed.
LEMMA CollectFacts ==
  ASSUME NEW map \in [Ami!Slot -> SlotType], aimOwed \in [Ami!Slot -> Motion], NEW f,
         NEW moved \in Ami!Movements
  PROVE  CollectRight(map, aimOwed, Ami!Collected(map, f, moved))
<1> DEFINE r == [map |-> map, f |-> f, owed |-> aimOwed]
           after == CHOOSE g : g = [s \in 0 .. AIM_MAX_POINTERS |-> CollectedStep(r, moved, g, s)]
<1>1. Ami!Collected(map, f, moved) = after[AIM_MAX_POINTERS]
  BY DEF Ami!Collected, CollectedStep
<1>2. after = [s \in 0 .. AIM_MAX_POINTERS |-> CollectedStep(r, moved, after, s)]
  <2> HIDE DEF r
  <2>1. AIM_MAX_POINTERS \in Nat
    BY SlotFacts
  <2>2. \E g : g = [s \in 0 .. AIM_MAX_POINTERS |-> CollectedStep(r, moved, g, s)]
    BY <2>1, CollectIsDefined
  <2> QED
    BY <2>2
<1> HIDE DEF after
<1>3. \A s \in 0 .. AIM_MAX_POINTERS : after[s] = CollectedStep(r, moved, after, s)
  BY <1>2
<1>4. \A s \in Ami!Slot : moved[s] \in Motion
  BY DEF Ami!Movements, Motion
<1> DEFINE wrong == {s \in 0 .. AIM_MAX_POINTERS : ~CollectRight(map, aimOwed, after[s])}
<1> SUFFICES ASSUME wrong # {} PROVE FALSE
  BY <1>1, SlotFacts
<1>5. PICK s \in wrong : \A q \in wrong : s <= q
  <2>1. wrong \in SUBSET Nat
    BY SlotFacts
  <2> HIDE DEF wrong
  <2> QED
    BY <2>1, NatSetHasMinimum
<1>6. CASE s = 0
  <2>1. after[s] = r
    BY <1>3, <1>6, SlotFacts DEF CollectedStep
  <2> QED
    BY <1>5, <2>1 DEF CollectRight, SameOwners
<1>7. CASE s # 0
  <2>1. s \in Ami!Slot /\ s - 1 \in 0 .. AIM_MAX_POINTERS /\ ~(s <= s - 1)
    BY <1>5, <1>7, SlotFacts
  <2> DEFINE p == after[s - 1]
  <2>2. CollectRight(map, aimOwed, p)
    BY <1>5, <2>1
  <2>3. after[s] = Ami!CollectedFrom(p, s, moved[s])
    BY <1>3, <1>7, <2>1 DEF CollectedStep
  <2>4. CollectRight(p.map, p.owed, after[s])
    BY <1>4, <2>1, <2>2, <2>3, CollectStep DEF CollectRight
  <2>5. CollectRight(map, aimOwed, after[s])
    BY <2>2, <2>4 DEF CollectRight, SameOwners
  <2> QED
    BY <1>5, <2>5
<1> QED
  BY <1>6, <1>7

\* What installations may do: slots and protocols stay together and the movements in the slots
\* stay where they are.
InstallRight(map, get, r) ==
  /\ r.map \in [Ami!Slot -> SlotType]
  /\ r.get \in [AimHandle -> {"absent", "firmware", "shim"}]
  /\ HooksRight(r.map, r.get, aimLeft) /\ SameMovements(map, r.map)
  /\ \A h \in AimHandle : get[h] # "absent" => r.get[h] # "absent"

LEMMA InstallStep ==
  ASSUME NEW map, NEW get, NEW r, InstallRight(map, get, r), NEW h \in AimHandle,
         get[h] # "absent"
  PROVE  InstallRight(map, get, Ami!InstallOnHandle(r, h))
<1> DEFINE s == OfDevice(r.map, NoHandle)
           t == Ami!InstallOnHandle(r, h)
<1>1. /\ r.map \in [Ami!Slot -> SlotType] /\ HooksRight(r.map, r.get, aimLeft)
      /\ r.get \in [AimHandle -> {"absent", "firmware", "shim"}]
      /\ SameMovements(map, r.map) /\ r.get[h] # "absent"
      /\ \A g \in AimHandle : get[g] # "absent" => r.get[g] # "absent"
  BY DEF InstallRight
<1>2. CASE s = 0 \/ \E q \in Ami!Slot : r.map[q].DeviceHandle = h
  <2>1. t = r
    BY <1>2 DEF Ami!InstallOnHandle, OfDevice
  <2> HIDE DEF t
  <2> QED
    BY <2>1 DEF t
<1>3. CASE s # 0 /\ ~\E q \in Ami!Slot : r.map[q].DeviceHandle = h
  <2>1. /\ s \in Ami!Slot /\ r.map[s].DeviceHandle = NoHandle
        /\ \A q \in Ami!Slot : r.map[q].DeviceHandle = NoHandle => s <= q
    BY <1>1, <1>3, SelectFacts
  <2>2. r.get[h] = "firmware"
    BY <1>1, <1>3 DEF HooksRight
  <2>3. PICK p \in SlotType : p = r.map[s]
    BY <1>1, <2>1
  <2> DEFINE new == [p EXCEPT !.DeviceHandle = h, !.SimplePointer = h,
                              !.OriginalGetState = "firmware"]
  <2>4. t = [map |-> [r.map EXCEPT ![s] = new], get |-> [r.get EXCEPT ![h] = "shim"],
             installed |-> TRUE]
    BY <1>1, <1>3, <2>2, <2>3 DEF Ami!InstallOnHandle, OfDevice, SlotType
  <2>5. /\ new \in SlotType /\ new.DeviceHandle = h /\ new.SimplePointer = h
        /\ new.OriginalGetState = "firmware" /\ new.Position = p.Position
        /\ new.PositionChanged = p.PositionChanged
    BY DEF SlotType
  <2> HIDE DEF s, t, new
  <2>6. /\ t.map = [r.map EXCEPT ![s] = new] /\ t.get = [r.get EXCEPT ![h] = "shim"]
    BY <2>4
  <2>7. /\ t.map \in [Ami!Slot -> SlotType] /\ t.map[s] = new
        /\ \A q \in Ami!Slot : q # s => t.map[q] = r.map[q]
        /\ t.get \in [AimHandle -> {"absent", "firmware", "shim"}] /\ t.get[h] = "shim"
        /\ \A g \in AimHandle : g # h => t.get[g] = r.get[g]
    BY <1>1, <2>1, <2>5, <2>6
  <2>8. h # NoHandle /\ \A q \in Ami!Slot : r.map[q].DeviceHandle \in AimHandle \cup {NoHandle}
    BY <1>1, SlotFacts DEF SlotType
  <2>9. ASSUME NEW a \in Ami!Slot, NEW q \in Ami!Slot, t.map[a].DeviceHandle # NoHandle, q < a
        PROVE  t.map[q].DeviceHandle # NoHandle
    <3>1. CASE a = s
      <4>1. q # s /\ ~(s <= q)
        BY <2>1, <2>9, <3>1, SlotFacts
      <4> QED
        BY <2>1, <2>7, <4>1
    <3>2. CASE a # s
      <4>1. r.map[a].DeviceHandle # NoHandle
        BY <2>7, <2>9, <3>2
      <4>2. r.map[q].DeviceHandle # NoHandle
        BY <1>1, <2>9, <4>1 DEF HooksRight
      <4> QED
        BY <2>1, <2>7, <4>2
    <3> QED
      BY <3>1, <3>2
  <2>10. ASSUME NEW a \in Ami!Slot, t.map[a].DeviceHandle # NoHandle
         PROVE  /\ t.map[a].SimplePointer = t.map[a].DeviceHandle
                /\ t.map[a].OriginalGetState = "firmware"
                /\ \/ t.get[t.map[a].DeviceHandle] = "shim"
                   \/ t.map[a].DeviceHandle \in aimLeft
    <3>1. CASE a = s
      BY <2>5, <2>7, <3>1
    <3>2. CASE a # s
      <4>1. t.map[a] = r.map[a] /\ r.map[a].DeviceHandle # h /\ r.map[a].DeviceHandle \in AimHandle
        BY <1>3, <2>7, <2>8, <2>10, <3>2
      <4>2. /\ r.map[a].SimplePointer = r.map[a].DeviceHandle
            /\ r.map[a].OriginalGetState = "firmware"
            /\ r.get[r.map[a].DeviceHandle] = "shim" \/ r.map[a].DeviceHandle \in aimLeft
        BY <1>1, <2>10, <4>1 DEF HooksRight
      <4> QED
        BY <2>7, <4>1, <4>2
    <3> QED
      BY <3>1, <3>2
  <2>11. ASSUME NEW a \in Ami!Slot, NEW q \in Ami!Slot, t.map[a].DeviceHandle # NoHandle,
                t.map[a].DeviceHandle = t.map[q].DeviceHandle
         PROVE  a = q
    BY <1>1, <1>3, <2>5, <2>7, <2>11 DEF HooksRight
  <2>12. ASSUME NEW g \in AimHandle, t.get[g] = "shim"
         PROVE  \E a \in Ami!Slot : t.map[a].DeviceHandle = g
    <3>1. CASE g = h
      BY <2>1, <2>5, <2>7, <3>1
    <3>2. CASE g # h
      <4>1. PICK a \in Ami!Slot : r.map[a].DeviceHandle = g
        BY <1>1, <2>7, <2>12, <3>2 DEF HooksRight
      <4>2. a # s
        BY <2>1, <4>1, SlotFacts
      <4> QED
        BY <2>7, <4>1, <4>2
    <3> QED
      BY <3>1, <3>2
  <2>13. HooksRight(t.map, t.get, aimLeft)
    BY <2>9, <2>10, <2>11, <2>12 DEF HooksRight
  <2>14. SameMovements(map, t.map)
    BY <1>1, <2>3, <2>5, <2>7 DEF SameMovements
  <2>15. \A g \in AimHandle : get[g] # "absent" => t.get[g] # "absent"
    BY <1>1, <2>7
  <2>16. InstallRight(map, get, t)
    BY <2>7, <2>13, <2>14, <2>15 DEF InstallRight
  <2> QED
    BY <2>16 DEF t
<1> QED
  BY <1>2, <1>3

\* One step of the installation on the handles of a list.
InstalledStep(r, order, after, n) ==
  IF n = 0 THEN r ELSE Ami!InstallOnHandle(after[n - 1], order[n])

LEMMA InstalledIsDefined ==
  ASSUME NEW r, NEW order, NEW m \in Nat
  PROVE  \E after : after = [n \in 0 .. m |-> InstalledStep(r, order, after, n)]
<1> DEFINE Defined(k) == \E after : after = [n \in 0 .. k |-> InstalledStep(r, order, after, n)]
           without == {k \in Nat : ~Defined(k)}
<1> SUFFICES ASSUME without # {} PROVE FALSE
  OBVIOUS
<1>1. PICK first \in without : \A k \in without : first <= k
  <2>1. without \in SUBSET Nat
    OBVIOUS
  <2> HIDE DEF without
  <2> QED
    BY <2>1, NatSetHasMinimum
<1>2. CASE first = 0
  <2>1. [n \in 0 .. 0 |-> r] = [n \in 0 .. 0 |-> InstalledStep(r, order, [k \in 0 .. 0 |-> r], n)]
    BY DEF InstalledStep
  <2> QED
    BY <1>1, <1>2, <2>1
<1>3. CASE first # 0
  <2>1. first \in Nat /\ first - 1 \in Nat /\ ~(first <= first - 1)
    BY <1>1, <1>3
  <2>2. first - 1 \notin without
    BY <1>1, <2>1
  <2>3. PICK after : after = [n \in 0 .. (first - 1) |-> InstalledStep(r, order, after, n)]
    BY <2>1, <2>2
  <2> DEFINE more == [n \in 0 .. first |-> IF n = first THEN InstalledStep(r, order, after, n)
                                           ELSE after[n]]
  <2>4. ASSUME NEW n \in 0 .. first PROVE more[n] = InstalledStep(r, order, more, n)
    <3>1. InstalledStep(r, order, more, n) = InstalledStep(r, order, after, n)
      BY <2>1 DEF InstalledStep
    <3>2. n # first => after[n] = InstalledStep(r, order, after, n)
      BY <2>1, <2>3
    <3> QED
      BY <3>1, <3>2
  <2>5. more = [n \in 0 .. first |-> InstalledStep(r, order, more, n)]
    BY <2>4
  <2> QED
    BY <1>1, <2>5
<1> QED
  BY <1>2, <1>3

\* What the installation on a list of handles that have a pointer does.
LEMMA InstallFacts ==
  ASSUME NEW get \in [AimHandle -> {"absent", "firmware", "shim"}],
         PointerMap \in [Ami!Slot -> SlotType], HooksRight(PointerMap, get, aimLeft),
         NEW order \in Seq(AimHandle), \A n \in DOMAIN order : get[order[n]] # "absent"
  PROVE  InstallRight(PointerMap, get, Ami!InstalledOn(order, get))
<1> DEFINE r == [map |-> PointerMap, get |-> get, installed |-> FALSE]
           after == CHOOSE g : g = [n \in 0 .. Len(order) |-> InstalledStep(r, order, g, n)]
<1>1. Ami!InstalledOn(order, get) = after[Len(order)]
  BY DEF Ami!InstalledOn, InstalledStep
<1>2. Len(order) \in Nat /\ DOMAIN order = 1 .. Len(order)
  OBVIOUS
<1>3. after = [n \in 0 .. Len(order) |-> InstalledStep(r, order, after, n)]
  <2> HIDE DEF r
  <2>1. \E g : g = [n \in 0 .. Len(order) |-> InstalledStep(r, order, g, n)]
    BY <1>2, InstalledIsDefined
  <2> QED
    BY <2>1
<1>4. InstallRight(PointerMap, get, r)
  BY DEF InstallRight, SameMovements
<1> HIDE DEF after, r
<1>5. \A n \in 0 .. Len(order) : after[n] = InstalledStep(r, order, after, n)
  BY <1>3
<1> DEFINE wrong == {n \in 0 .. Len(order) : ~InstallRight(PointerMap, get, after[n])}
<1> SUFFICES ASSUME wrong # {} PROVE FALSE
  BY <1>1, <1>2
<1>6. PICK n \in wrong : \A q \in wrong : n <= q
  <2>1. wrong \in SUBSET Nat
    BY <1>2
  <2> HIDE DEF wrong
  <2> QED
    BY <2>1, NatSetHasMinimum
<1>7. CASE n = 0
  <2>1. after[n] = r
    BY <1>2, <1>5, <1>7 DEF InstalledStep
  <2> QED
    BY <1>4, <1>6, <2>1
<1>8. CASE n # 0
  <2>1. n \in DOMAIN order /\ n - 1 \in 0 .. Len(order) /\ ~(n <= n - 1)
    BY <1>2, <1>6, <1>8
  <2>2. order[n] \in AimHandle /\ get[order[n]] # "absent"
    BY <2>1
  <2>3. InstallRight(PointerMap, get, after[n - 1])
    BY <1>6, <2>1
  <2>4. after[n] = Ami!InstallOnHandle(after[n - 1], order[n])
    BY <1>5, <1>8, <2>1 DEF InstalledStep
  <2>5. InstallRight(PointerMap, get, after[n])
    BY <2>2, <2>3, <2>4, InstallStep
  <2> QED
    BY <1>6, <2>5
<1> QED
  BY <1>7, <1>8

LEMMA OrderFacts ==
  ASSUME NEW get \in [AimHandle -> {"absent", "firmware", "shim"}], NEW order \in Ami!Orders(get)
  PROVE  order \in Seq(AimHandle) /\ \A n \in DOMAIN order : get[order[n]] # "absent"
<1> DEFINE S == {h \in AimHandle : get[h] # "absent"}
<1>1. IsFiniteSet(S)
  <2>1. S \subseteq AimHandle /\ IsFiniteSet(AimHandle)
    BY SlotFacts
  <2> HIDE DEF S
  <2> QED
    BY <2>1, FS_Subset
<1>2. Cardinality(S) \in Nat
  BY <1>1, FS_CardinalityType
<1>3. Ami!Cardinality(S) = Cardinality(S)
  BY DEF Ami!Cardinality, Cardinality
<1>4. PICK m \in Nat : m = Ami!Cardinality(S)
  BY <1>2, <1>3
<1>5. order \in [1 .. m -> S]
  BY <1>4 DEF Ami!Orders
<1>6. order \in [1 .. m -> AimHandle]
  BY <1>5
<1> QED
  BY <1>5, <1>6, FunctionIsSeq

\* A level shim that nobody asks keeps its movements.
LEMMA LevelIsKept ==
  ASSUME AmiTypes', aimCall'.pc = "none" /\ aimCall'.slot = 0, Level(PointerMap', aimOwed')
  PROVE  Ami!MovementKept'
BY SlotFacts DEF Ami!MovementKept, Level

LEMMA KeptIsLevel ==
  ASSUME AmiInv, ~aimBetween, ~aimStray, aimCall.pc = "none"
  PROVE  aimCall = Ami!NoQuestion /\ Level(PointerMap, aimOwed)
<1>1. aimCall = Ami!NoQuestion /\ aimCall.slot = 0
  BY DEF AmiInv, AmiTypes, Ami!NoQuestion
<1> QED
  BY <1>1, SlotFacts DEF AmiInv, Ami!MovementKept, Level

LEMMA OwnersKeepHooks ==
  ASSUME NEW map, NEW new, NEW get, NEW left, SameOwners(map, new),
         HooksRight(map, get, left)
  PROVE  HooksRight(new, get, left)
BY DEF SameOwners, HooksRight

LEMMA AmiInitInv ==
  ASSUME Ami!AimInit
  PROVE  AmiInv
<1>1. Ami!FreeSlot \in SlotType /\ Ami!FreeSlot.DeviceHandle = NoHandle
      /\ Ami!FreeSlot.Position = Ami!Still
  BY SlotFacts DEF Ami!FreeSlot, SlotType
<1>2. /\ PointerMap = [s \in Ami!Slot |-> Ami!FreeSlot]
      /\ GetState = [h \in AimHandle |-> "absent"]
      /\ aimOwed = [s \in Ami!Slot |-> Ami!Still] /\ aimCall = Ami!NoQuestion
      /\ aimBetween = FALSE
      /\ mAmiShimPointer = [TimersInitialised |-> FALSE, UsageStarted |-> FALSE,
                            arriveEvent |-> FALSE]
  BY DEF Ami!AimInit
<1>3. AmiTypes
  BY <1>1, <1>2, SlotFacts DEF AmiTypes
<1>4. \A s \in Ami!Slot : PointerMap[s].DeviceHandle = NoHandle /\ PointerMap[s].Position = Ami!Still
  BY <1>1, <1>2
<1>5. HooksRight(PointerMap, GetState, aimLeft)
  BY <1>2, <1>4 DEF HooksRight
<1>6. Ami!MovementKept
  BY <1>2, <1>4 DEF Ami!MovementKept
<1> QED
  BY <1>3, <1>5, <1>6 DEF AmiInv

LEMMA PositionHandlerInv ==
  ASSUME AmiInv, ~aimBetween, ~aimStray, NEW moved \in Ami!Movements,
         Ami!AmiShimPointerPositionHandler(moved)
  PROVE  AmiInv'
<1> DEFINE c == Ami!Collected(PointerMap, aimFilter, moved)
<1>1. /\ PointerMap' = c.map /\ aimOwed' = c.owed /\ aimBetween' = (aimCall.pc # "none")
      /\ mAmiShimPointer' = mAmiShimPointer /\ GetState' = GetState /\ aimCall' = aimCall
      /\ aimLeft' = aimLeft
  BY DEF Ami!AmiShimPointerPositionHandler, Ami!Adds
<1> HIDE DEF c
<1>2. CollectRight(PointerMap, aimOwed, c)
  BY CollectFacts DEF AmiInv, AmiTypes, c
<1>3. AmiTypes'
  BY <1>1, <1>2 DEF AmiInv, AmiTypes, CollectRight
<1>4. HooksRight(PointerMap', GetState', aimLeft')
  BY <1>1, <1>2, OwnersKeepHooks DEF AmiInv, CollectRight
<1>5. CASE aimCall.pc # "none"
  BY <1>1, <1>3, <1>4, <1>5 DEF AmiInv, Ami!MovementKept
<1>6. CASE aimCall.pc = "none"
  <2>1. aimCall = Ami!NoQuestion /\ Level(PointerMap, aimOwed)
    BY <1>6, KeptIsLevel
  <2>2. Level(PointerMap', aimOwed')
    BY <1>1, <1>2, <2>1 DEF CollectRight
  <2>3. aimCall'.pc = "none" /\ aimCall'.slot = 0
    BY <1>1, <2>1 DEF Ami!NoQuestion
  <2> QED
    BY <1>3, <1>4, <2>2, <2>3, LevelIsKept DEF AmiInv
<1> QED
  BY <1>5, <1>6

\* A slot whose movement has been taken.
Reset(map, s) == [map EXCEPT ![s].Position = Ami!Still, ![s].PositionChanged = FALSE]

LEMMA ResetFacts ==
  ASSUME NEW map \in [Ami!Slot -> SlotType], NEW s \in Ami!Slot
  PROVE  /\ Reset(map, s) \in [Ami!Slot -> SlotType] /\ SameOwners(map, Reset(map, s))
         /\ Reset(map, s)[s].Position = Ami!Still
         /\ \A q \in Ami!Slot : q # s => Reset(map, s)[q] = map[q]
<1> DEFINE new == Reset(map, s)
<1>1. PICK p \in SlotType : p = map[s]
  OBVIOUS
<1> DEFINE r == [p EXCEPT !.Position = Ami!Still, !.PositionChanged = FALSE]
<1>2. new = [map EXCEPT ![s] = r]
  BY <1>1 DEF SlotType, Reset
<1>3. /\ r \in SlotType /\ r.Position = Ami!Still /\ r.DeviceHandle = p.DeviceHandle
      /\ r.SimplePointer = p.SimplePointer /\ r.OriginalGetState = p.OriginalGetState
  BY SlotFacts DEF SlotType
<1> HIDE DEF r
<1>4. /\ new \in [Ami!Slot -> SlotType] /\ new[s] = r
      /\ \A q \in Ami!Slot : q # s => new[q] = map[q]
  BY <1>2, <1>3
<1> QED
  BY <1>1, <1>3, <1>4 DEF SameOwners

LEMMA ToldFacts ==
  ASSUME NEW owed \in [Ami!Slot -> Motion], NEW s \in Ami!Slot, NEW told \in Motion, NEW new,
         new = [owed EXCEPT ![s] = <<@[1] - told[1], @[2] - told[2]>>]
  PROVE  /\ new \in [Ami!Slot -> Motion] /\ \A q \in Ami!Slot : q # s => new[q] = owed[q]
         /\ told = owed[s] => new[s] = Ami!Still
<1>1. PICK a \in Int, b \in Int : owed[s] = <<a, b>>
  BY DEF Motion
<1>2. PICK c \in Int, d \in Int : told = <<c, d>>
  BY DEF Motion
<1>3. new = [owed EXCEPT ![s] = <<a - c, b - d>>]
  BY <1>1, <1>2
<1>4. <<a - c, b - d>> \in Motion
  BY DEF Motion
<1>5. told = owed[s] => a - c = 0 /\ b - d = 0
  BY <1>1, <1>2
<1> QED
  BY <1>3, <1>4, <1>5 DEF Ami!Still

LEMMA UpdateStateInv ==
  ASSUME AmiInv, ~aimBetween, ~aimStray, NEW h \in AimHandle, NEW buttons \in BOOLEAN,
         NEW moved \in Ami!Movements, Ami!AmiShimPointerUpdateState(h, buttons, moved)
  PROVE  AmiInv'
<1> DEFINE s == Ami!Found(h)
           c == IF mAmiShimPointer.UsageStarted
                THEN [map |-> PointerMap, f |-> aimFilter, owed |-> aimOwed]
                ELSE Ami!Collected(PointerMap, aimFilter, moved)
           told == c.map[s].Position
           report == buttons \/ c.map[s].PositionChanged
<1>1. /\ s # 0
      /\ mAmiShimPointer' = [mAmiShimPointer EXCEPT !.UsageStarted = TRUE]
      /\ report =>
           /\ PointerMap' = [c.map EXCEPT ![s].Position = Ami!Still, ![s].PositionChanged = FALSE]
           /\ aimOwed' = [c.owed EXCEPT ![s] = <<@[1] - told[1], @[2] - told[2]>>]
           /\ aimBetween' = (aimCall.pc # "none")
      /\ ~report => PointerMap' = c.map /\ aimOwed' = c.owed /\ aimBetween' = aimBetween
      /\ GetState' = GetState /\ aimCall' = aimCall /\ aimLeft' = aimLeft
  BY DEF Ami!AmiShimPointerUpdateState
<1>2. CollectRight(PointerMap, aimOwed, c)
  <2>1. CASE mAmiShimPointer.UsageStarted
    <3>1. c.map = PointerMap /\ c.owed = aimOwed
      BY <2>1
    <3> HIDE DEF c
    <3> QED
      BY <3>1 DEF CollectRight, SameOwners, AmiInv, AmiTypes
  <2>2. CASE ~mAmiShimPointer.UsageStarted
    BY <2>2, CollectFacts DEF AmiInv, AmiTypes
  <2> QED
    BY <2>1, <2>2
<1>3. mAmiShimPointer.UsageStarted => c.map = PointerMap /\ c.owed = aimOwed
  OBVIOUS
<1> HIDE DEF c
<1>4. s \in Ami!Slot
  BY <1>1, FoundFacts DEF AmiInv, AmiTypes
<1>5. /\ c.map \in [Ami!Slot -> SlotType] /\ c.owed \in [Ami!Slot -> Motion]
      /\ SameOwners(PointerMap, c.map)
      /\ Level(PointerMap, aimOwed) => Level(c.map, c.owed)
  BY <1>2 DEF CollectRight
<1>6. HooksRight(c.map, GetState, aimLeft)
  BY <1>5, OwnersKeepHooks DEF AmiInv
<1>7. mAmiShimPointer' \in [TimersInitialised : BOOLEAN, UsageStarted : BOOLEAN,
                            arriveEvent : BOOLEAN]
      /\ mAmiShimPointer'.UsageStarted = TRUE
  BY <1>1 DEF AmiInv, AmiTypes
<1> HIDE DEF s
<1>8. told \in Motion
  BY <1>4, <1>5 DEF SlotType
<1>9. aimCall.pc = "none" => aimCall = Ami!NoQuestion /\ Level(c.map, c.owed)
  BY <1>5, KeptIsLevel
<1> HIDE DEF told
<1>10. CASE report
  <2>1. /\ PointerMap' \in [Ami!Slot -> SlotType] /\ SameOwners(c.map, PointerMap')
        /\ PointerMap'[s].Position = Ami!Still
        /\ \A q \in Ami!Slot : q # s => PointerMap'[q] = c.map[q]
    <3>1. PointerMap' = Reset(c.map, s)
      BY <1>1, <1>10 DEF Reset
    <3> QED
      BY <1>4, <1>5, <3>1, ResetFacts
  <2>2. /\ aimOwed' \in [Ami!Slot -> Motion]
        /\ \A q \in Ami!Slot : q # s => aimOwed'[q] = c.owed[q]
        /\ told = c.owed[s] => aimOwed'[s] = Ami!Still
    BY <1>1, <1>4, <1>5, <1>8, <1>10, ToldFacts
  <2>3. AmiTypes'
    BY <1>1, <1>7, <1>10, <2>1, <2>2 DEF AmiInv, AmiTypes
  <2>4. HooksRight(PointerMap', GetState', aimLeft')
    BY <1>1, <1>6, <2>1, OwnersKeepHooks
  <2>5. CASE aimCall.pc # "none"
    BY <1>1, <1>10, <2>3, <2>4, <2>5 DEF AmiInv, Ami!MovementKept
  <2>6. CASE aimCall.pc = "none"
    <3>1. told = c.owed[s]
      BY <1>4, <1>9, <2>6 DEF Level, told
    <3>2. Level(PointerMap', aimOwed')
      BY <1>9, <2>1, <2>2, <2>6, <3>1 DEF Level
    <3>3. aimCall'.pc = "none" /\ aimCall'.slot = 0
      BY <1>1, <1>9, <2>6 DEF Ami!NoQuestion
    <3> QED
      BY <2>3, <2>4, <3>2, <3>3, LevelIsKept DEF AmiInv
  <2> QED
    BY <2>5, <2>6
<1>11. CASE ~report
  <2>1. PointerMap' = c.map /\ aimOwed' = c.owed /\ aimBetween' = aimBetween
    BY <1>1, <1>11
  <2>2. AmiTypes'
    BY <1>1, <1>5, <1>7, <2>1 DEF AmiInv, AmiTypes
  <2>3. HooksRight(PointerMap', GetState', aimLeft')
    BY <1>1, <1>6, <2>1
  <2>4. CASE aimCall.pc # "none"
    <3>1. mAmiShimPointer.UsageStarted
      BY <2>4 DEF AmiInv, AmiTypes, Ami!NoQuestion
    <3>2. Ami!MovementKept'
      BY <1>1, <1>3, <2>1, <3>1 DEF AmiInv, Ami!MovementKept
    <3> QED
      BY <2>2, <2>3, <3>2 DEF AmiInv
  <2>5. CASE aimCall.pc = "none"
    <3>1. aimCall'.pc = "none" /\ aimCall'.slot = 0
      BY <1>1, <1>9, <2>5 DEF Ami!NoQuestion
    <3> QED
      BY <1>9, <2>1, <2>2, <2>3, <2>5, <3>1, LevelIsKept DEF AmiInv
  <2> QED
    BY <2>4, <2>5
<1> QED
  BY <1>10, <1>11

LEMMA AskReadInv ==
  ASSUME AmiInv, ~aimBetween, ~aimStray, NEW h \in AimHandle, NEW buttons \in BOOLEAN,
         Ami!AskRead(h, buttons)
  PROVE  AmiInv'
<1> DEFINE s == Ami!Found(h)
           told == PointerMap[s].Position
<1>1. /\ s # 0 /\ aimCall.pc = "none" /\ mAmiShimPointer.UsageStarted
      /\ aimCall' = [pc |-> "clear", slot |-> s]
      /\ aimOwed' = [aimOwed EXCEPT ![s] = <<@[1] - told[1], @[2] - told[2]>>]
      /\ UNCHANGED <<mAmiShimPointer, PointerMap, GetState, aimBetween, aimLeft>>
  BY DEF Ami!AskRead
<1>2. s \in Ami!Slot
  BY <1>1, FoundFacts DEF AmiInv, AmiTypes
<1> HIDE DEF s
<1>3. told \in Motion /\ aimOwed \in [Ami!Slot -> Motion]
  BY <1>2 DEF AmiInv, AmiTypes, SlotType
<1>4. Level(PointerMap, aimOwed)
  BY <1>1, KeptIsLevel
<1>5. told = aimOwed[s]
  BY <1>2, <1>4 DEF Level
<1> HIDE DEF told
<1>6. /\ aimOwed' \in [Ami!Slot -> Motion]
      /\ \A q \in Ami!Slot : q # s => aimOwed'[q] = aimOwed[q]
      /\ aimOwed'[s] = Ami!Still
  <2>1. aimOwed' = [aimOwed EXCEPT ![s] = <<@[1] - told[1], @[2] - told[2]>>]
    BY <1>1
  <2> QED
    BY <1>2, <1>3, <1>5, <2>1, ToldFacts
<1>7. AmiTypes'
  BY <1>1, <1>2, <1>6 DEF AmiInv, AmiTypes
<1>8. aimCall'.slot = s
  BY <1>1
<1>9. Ami!MovementKept'
  BY <1>1, <1>4, <1>6, <1>8 DEF Ami!MovementKept, Level
<1> QED
  BY <1>1, <1>7, <1>9 DEF AmiInv

LEMMA AskClearInv ==
  ASSUME AmiInv, ~aimBetween, ~aimStray, Ami!AskClear
  PROVE  AmiInv'
<1> DEFINE s == aimCall.slot
<1>1. /\ aimCall.pc = "clear"
      /\ PointerMap' = [PointerMap EXCEPT ![s].Position = Ami!Still, ![s].PositionChanged = FALSE]
      /\ aimCall' = Ami!NoQuestion
      /\ UNCHANGED <<mAmiShimPointer, GetState, aimOwed, aimBetween, aimLeft>>
  BY DEF Ami!AskClear
<1>2. s \in Ami!Slot
  BY <1>1 DEF AmiInv, AmiTypes, Ami!NoQuestion
<1> HIDE DEF s
<1>3. /\ PointerMap' \in [Ami!Slot -> SlotType] /\ SameOwners(PointerMap, PointerMap')
      /\ PointerMap'[s].Position = Ami!Still
      /\ \A q \in Ami!Slot : q # s => PointerMap'[q] = PointerMap[q]
  <2>1. PointerMap' = Reset(PointerMap, s)
    BY <1>1 DEF Reset
  <2>2. PointerMap \in [Ami!Slot -> SlotType]
    BY DEF AmiInv, AmiTypes
  <2> QED
    BY <1>2, <2>1, <2>2, ResetFacts
<1>4. AmiTypes'
  BY <1>1, <1>3 DEF AmiInv, AmiTypes
<1>5. HooksRight(PointerMap', GetState', aimLeft')
  BY <1>1, <1>3, OwnersKeepHooks DEF AmiInv
<1>6. /\ aimOwed[s] = Ami!Still
      /\ \A q \in Ami!Slot : q # s =>
           /\ PointerMap[q].Position = aimOwed[q]
           /\ PointerMap[q].Position # Ami!Still => PointerMap[q].PositionChanged
  BY <1>2 DEF AmiInv, Ami!MovementKept, s
<1>7. Level(PointerMap', aimOwed')
  BY <1>1, <1>3, <1>6 DEF Level
<1>8. aimCall'.pc = "none" /\ aimCall'.slot = 0
  BY <1>1 DEF Ami!NoQuestion
<1> QED
  BY <1>4, <1>5, <1>7, <1>8, LevelIsKept DEF AmiInv

LEMMA AmiInstallInv ==
  ASSUME AmiInv, ~aimBetween, ~aimStray, aimCall.pc = "none",
         NEW get \in [AimHandle -> {"absent", "firmware", "shim"}], HooksRight(PointerMap, get, aimLeft),
         NEW order \in Ami!Orders(get), NEW timer \in BOOLEAN,
         Ami!AmiShimPointerInstall(get, order, timer),
         UNCHANGED <<aimCall, aimOwed, aimBetween, aimLeft, aimStray>>
  PROVE  AmiInv'
<1> DEFINE r == Ami!InstalledOn(order, get)
<1>1. /\ PointerMap' = r.map /\ GetState' = r.get
      /\ mAmiShimPointer' = [mAmiShimPointer EXCEPT
                               !.TimersInitialised = @ \/ (r.installed /\ timer),
                               !.arriveEvent = TRUE]
  BY DEF Ami!AmiShimPointerInstall
<1>2. InstallRight(PointerMap, get, r)
  BY OrderFacts, InstallFacts DEF AmiInv, AmiTypes
<1> HIDE DEF r
<1>3. PICK on \in BOOLEAN : on <=> (mAmiShimPointer.TimersInitialised \/ (r.installed /\ timer))
  OBVIOUS
<1>4. aimCall = Ami!NoQuestion /\ Level(PointerMap, aimOwed)
  BY KeptIsLevel
<1>5. mAmiShimPointer' \in [TimersInitialised : BOOLEAN, UsageStarted : BOOLEAN,
                            arriveEvent : BOOLEAN]
  <2>1. mAmiShimPointer' = [mAmiShimPointer EXCEPT !.TimersInitialised = on, !.arriveEvent = TRUE]
    BY <1>1, <1>3 DEF AmiInv, AmiTypes
  <2> QED
    BY <2>1 DEF AmiInv, AmiTypes
<1>6. AmiTypes'
  BY <1>1, <1>2, <1>4, <1>5 DEF AmiInv, AmiTypes, InstallRight
<1>7. Level(PointerMap', aimOwed')
  BY <1>1, <1>2, <1>4 DEF InstallRight, SameMovements, Level
<1>8. aimCall'.pc = "none" /\ aimCall'.slot = 0
  BY <1>4 DEF Ami!NoQuestion
<1> QED
  BY <1>1, <1>2, <1>6, <1>7, <1>8, LevelIsKept DEF AmiInv, InstallRight

LEMMA PointerInitInv ==
  ASSUME AmiInv, ~aimBetween, ~aimStray, NEW order \in Ami!Orders(GetState), NEW timer \in BOOLEAN,
         Ami!OcAppleGenericInputPointerInit(order, timer)
  PROVE  AmiInv'
BY AmiInstallInv DEF AmiInv, AmiTypes, Ami!OcAppleGenericInputPointerInit

LEMMA ArriveInv ==
  ASSUME AmiInv, ~aimBetween, ~aimStray, NEW h \in AimHandle,
         NEW order \in Ami!Orders([GetState EXCEPT ![h] = "firmware"]), NEW timer \in BOOLEAN,
         Ami!Arrive(h, order, timer)
  PROVE  AmiInv'
<1> DEFINE get == [GetState EXCEPT ![h] = "firmware"]
<1>1. /\ GetState[h] = "absent" /\ aimCall.pc = "none"
      /\ UNCHANGED <<aimCall, aimOwed, aimBetween, aimLeft>>
      /\ \/ Ami!AmiShimPointerInstall(get, order, timer)
         \/ GetState' = get /\ UNCHANGED <<mAmiShimPointer, PointerMap>>
      /\ aimStray' = aimStray
  BY DEF Ami!Arrive
<1>2. /\ get \in [AimHandle -> {"absent", "firmware", "shim"}] /\ get[h] = "firmware"
      /\ \A g \in AimHandle : g # h => get[g] = GetState[g]
      /\ order \in Ami!Orders(get)
  BY DEF AmiInv, AmiTypes
<1> HIDE DEF get
<1>3. \A s \in Ami!Slot : PointerMap[s].DeviceHandle \in AimHandle \cup {NoHandle}
  BY DEF AmiInv, AmiTypes, SlotType
<1>4. \A s \in Ami!Slot : PointerMap[s].DeviceHandle = h => h \in aimLeft
  BY <1>1, SlotFacts DEF AmiInv, HooksRight
<1>5. HooksRight(PointerMap, get, aimLeft)
  BY <1>2, <1>3, <1>4 DEF AmiInv, HooksRight
<1>6. CASE Ami!AmiShimPointerInstall(get, order, timer)
  BY <1>1, <1>2, <1>5, <1>6, AmiInstallInv
<1>7. CASE GetState' = get /\ UNCHANGED <<mAmiShimPointer, PointerMap>>
  <2>1. AmiTypes'
    BY <1>1, <1>2, <1>7 DEF AmiInv, AmiTypes
  <2>2. Ami!MovementKept'
    BY <1>1, <1>7 DEF AmiInv, Ami!MovementKept
  <2> QED
    BY <1>1, <1>5, <1>7, <2>1, <2>2 DEF AmiInv
<1> QED
  BY <1>1, <1>6, <1>7

LEMMA PointerExitInv ==
  ASSUME AmiInv, ~aimBetween, ~aimStray, NEW gone \in SUBSET AimHandle, Ami!AmiShimPointerUninstall(gone)
  PROVE  AmiInv'
<1>1. /\ aimCall.pc = "none" /\ UNCHANGED <<aimCall, aimOwed, aimBetween, aimLeft>>
      /\ mAmiShimPointer' = [mAmiShimPointer EXCEPT !.TimersInitialised = FALSE]
      /\ PointerMap' = [s \in Ami!Slot |-> [PointerMap[s] EXCEPT !.DeviceHandle = NoHandle]]
  BY DEF Ami!AmiShimPointerUninstall
<1>2. GetState' = [h \in AimHandle |->
        IF OfDevice(PointerMap, h) = 0 THEN GetState[h]
        ELSE IF h \in gone THEN "absent"
             ELSE PointerMap[OfDevice(PointerMap, h)].OriginalGetState]
  BY DEF Ami!AmiShimPointerUninstall, OfDevice
<1>3. ASSUME NEW s \in Ami!Slot
      PROVE  /\ PointerMap'[s] \in SlotType /\ PointerMap'[s].DeviceHandle = NoHandle
             /\ PointerMap'[s].Position = PointerMap[s].Position
             /\ PointerMap'[s].PositionChanged = PointerMap[s].PositionChanged
  <2>1. PICK p \in SlotType : p = PointerMap[s]
    BY DEF AmiInv, AmiTypes
  <2>2. PointerMap'[s] = [p EXCEPT !.DeviceHandle = NoHandle]
    BY <1>1, <2>1
  <2> QED
    BY <2>1, <2>2 DEF SlotType
<1>4. ASSUME NEW h \in AimHandle
      PROVE  GetState'[h] \in {"absent", "firmware"}
  <2>3. PointerMap \in [Ami!Slot -> SlotType]
    BY DEF AmiInv, AmiTypes
  <2>1. CASE \E s \in Ami!Slot : PointerMap[s].DeviceHandle = h
    <3>1. PICK s \in Ami!Slot : s = OfDevice(PointerMap, h) /\ PointerMap[s].DeviceHandle = h
      BY <2>1, <2>3, SelectFacts
    <3>2. PointerMap[s].OriginalGetState = "firmware"
      BY <3>1, SlotFacts DEF AmiInv, HooksRight
    <3> QED
      BY <1>2, <3>1, <3>2, SlotFacts
  <2>2. CASE ~\E s \in Ami!Slot : PointerMap[s].DeviceHandle = h
    <3>1. OfDevice(PointerMap, h) = 0
      BY <2>2, <2>3, SelectFacts
    <3>2. GetState[h] \in {"absent", "firmware"}
      BY <2>2 DEF AmiInv, AmiTypes, HooksRight
    <3> QED
      BY <1>2, <3>1, <3>2
  <2> QED
    BY <2>1, <2>2
<1>5. aimCall = Ami!NoQuestion /\ Level(PointerMap, aimOwed)
  BY <1>1, KeptIsLevel
<1>6. /\ PointerMap' \in [Ami!Slot -> SlotType]
      /\ GetState' \in [AimHandle -> {"absent", "firmware", "shim"}]
  BY <1>1, <1>2, <1>3, <1>4
<1>7. AmiTypes'
  BY <1>1, <1>5, <1>6 DEF AmiInv, AmiTypes
<1>8. HooksRight(PointerMap', GetState', aimLeft')
  BY <1>3, <1>4 DEF HooksRight
<1>9. Level(PointerMap', aimOwed')
  BY <1>1, <1>3, <1>5 DEF Level
<1>10. aimCall'.pc = "none" /\ aimCall'.slot = 0
  BY <1>1, <1>5 DEF Ami!NoQuestion
<1> QED
  BY <1>7, <1>8, <1>9, <1>10, LevelIsKept DEF AmiInv

LEMMA DepartInv ==
  ASSUME AmiInv, ~aimBetween, ~aimStray, NEW h \in AimHandle, Ami!Depart(h)
  PROVE  AmiInv'
<1>1. /\ GetState' = [GetState EXCEPT ![h] = "absent"] /\ aimLeft \subseteq aimLeft'
      /\ (\E s \in Ami!Slot : PointerMap[s].DeviceHandle = h) => h \in aimLeft'
      /\ UNCHANGED <<mAmiShimPointer, PointerMap, aimCall, aimOwed, aimBetween, aimStray>>
  BY DEF Ami!Depart
<1>2. /\ GetState' \in [AimHandle -> {"absent", "firmware", "shim"}] /\ GetState'[h] = "absent"
      /\ \A g \in AimHandle : g # h => GetState'[g] = GetState[g]
  BY <1>1 DEF AmiInv, AmiTypes
<1>3. AmiTypes'
  BY <1>1, <1>2 DEF AmiInv, AmiTypes
<1>4. \A s \in Ami!Slot : PointerMap[s].DeviceHandle \in AimHandle \cup {NoHandle}
  BY DEF AmiInv, AmiTypes, SlotType
<1>5. HooksRight(PointerMap, GetState', aimLeft')
  BY <1>1, <1>2, <1>4 DEF AmiInv, HooksRight
<1>6. Ami!MovementKept'
  BY <1>1 DEF AmiInv, Ami!MovementKept
<1> QED
  BY <1>1, <1>3, <1>5, <1>6 DEF AmiInv

LEMMA AmiNextInv ==
  ASSUME AmiInv, [Ami!AimNext]_(Ami!aimVars)
  PROVE  AmiInv'
<1>1. CASE UNCHANGED Ami!aimVars
  BY <1>1 DEF Ami!aimVars, AmiInv, AmiTypes, Ami!MovementKept
<1>2. ASSUME ~aimBetween, ~aimStray, NEW moved \in Ami!Movements,
             Ami!AmiShimPointerPositionHandler(moved)
      PROVE  AmiInv'
  BY <1>2, PositionHandlerInv
<1>3. ASSUME ~aimBetween, ~aimStray, NEW h \in AimHandle, NEW buttons \in BOOLEAN,
             NEW moved \in Ami!Movements, Ami!AmiShimPointerUpdateState(h, buttons, moved)
      PROVE  AmiInv'
  BY <1>3, UpdateStateInv
<1>4. ASSUME ~aimBetween, ~aimStray, NEW h \in AimHandle, NEW buttons \in BOOLEAN, Ami!AskRead(h, buttons)
      PROVE  AmiInv'
  BY <1>4, AskReadInv
<1>5. ASSUME ~aimBetween, ~aimStray, Ami!AskClear PROVE AmiInv'
  BY <1>5, AskClearInv
<1>6. ASSUME ~aimBetween, ~aimStray, NEW order \in Ami!Orders(GetState), NEW timer \in BOOLEAN,
             Ami!OcAppleGenericInputPointerInit(order, timer)
      PROVE  AmiInv'
  BY <1>6, PointerInitInv
<1>7. ASSUME ~aimBetween, ~aimStray, NEW h \in AimHandle,
             NEW order \in Ami!Orders([GetState EXCEPT ![h] = "firmware"]), NEW timer \in BOOLEAN,
             Ami!Arrive(h, order, timer)
      PROVE  AmiInv'
  BY <1>7, ArriveInv
<1>8. ASSUME ~aimBetween, ~aimStray, NEW gone \in SUBSET AimHandle, Ami!AmiShimPointerUninstall(gone)
      PROVE  AmiInv'
  BY <1>8, PointerExitInv
<1>9. ASSUME ~aimBetween, ~aimStray, NEW h \in AimHandle, Ami!Depart(h) PROVE AmiInv'
  BY <1>9, DepartInv
<1> QED
  BY <1>1, <1>2, <1>3, <1>4, <1>5, <1>6, <1>7, <1>8, <1>9 DEF Ami!AimNext

LEMMA AmiStep ==
  ASSUME [MCNext]_MCVars
  PROVE  [Ami!AimNext]_(Ami!aimVars)
BY DEF MCNext, MCVars, AmiVars, Ami!aimVars

\* The movement of a pointer is told once: a slot holds what was collected and not yet told,
\* until a question at TPL_APPLICATION is interrupted or the protocol of a device that left is
\* used, for any number of slots and handles and through installations, arrivals, departures and
\* exits (AIM.c:198-206, 244-298).
THEOREM MovementIsKept == MCSpec => []MovementKept
<1>1. MCInit => AmiInv
  BY AmiInitInv DEF MCInit
<1>2. AmiInv /\ [MCNext]_MCVars => AmiInv'
  BY AmiStep, AmiNextInv
<1>3. AmiInv => MovementKept
  BY DEF AmiInv, MovementKept
<1> QED
  BY <1>1, <1>2, <1>3, PTL DEF MCSpec

\* A hooked pointer has one slot, which the hook finds although other slots keep protocols of
\* devices that left, and which holds the function of the firmware; and the device of a slot is
\* hooked unless it has left, for any number of slots and handles, in whatever order they are
\* installed, arrive and leave (AIM.c:412-441, 507-524).
THEOREM HooksStayFound == MCSpec => []HooksFound
<1>1. MCInit => AmiInv
  BY AmiInitInv DEF MCInit
<1>2. AmiInv /\ [MCNext]_MCVars => AmiInv'
  BY AmiStep, AmiNextInv
<1>3. AmiInv => HooksFound
  BY HooksAreFound DEF AmiInv, HooksFound
<1> QED
  BY <1>1, <1>2, <1>3, PTL DEF MCSpec
=============================================================================
