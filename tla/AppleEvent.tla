----------------------------- MODULE AppleEvent -----------------------------
(***************************************************************************)
(* Registration of event handlers and delivery of events to them           *)
(* (OcAppleEventLib/OcAppleEventLib.c and EventQueue.c).                   *)
(*                                                                         *)
(* Poll timers put events into a queue at TPL_NOTIFY and signal the queue  *)
(* event; its notification, also at TPL_NOTIFY, drains the queue and calls *)
(* every registered handler for every event.  A handler may register and   *)
(* unregister handlers itself, in the middle of the walk over the list it  *)
(* is in.  The application registers and unregisters at TPL_APPLICATION    *)
(* and does not raise it: a drain, with all that its callbacks do, may     *)
(* come between any two of its statements, so its calls go step by step    *)
(* (the variable app), while a callback's calls are whole.                 *)
(***************************************************************************)
EXTENDS Integers, Sequences, SequencesExt, FiniteSets, ListLoops

CONSTANTS
  Handle,         \* addresses of APPLE_EVENT_HANDLE_PRIVATE allocations
  Masks,          \* bound: the sets of kinds that handlers ask for
  MaxQueue,       \* bound: events waiting in the queue
  MaxTimers,      \* bound: live timers of one kind
  GoOnAfter,      \* bound: the mistakes after which handlers begin calls again
  CounterRange    \* values of mNumberOfEventHandles, 2^64 in the code

Kind == {"key", "pointer"}

ASSUME EventAssumption ==
  /\ IsFiniteSet(Handle) /\ MaxQueue \in Nat /\ MaxTimers \in Nat \ {0}
  /\ Masks \subseteq SUBSET Kind
  /\ CounterRange \in Nat /\ CounterRange > Cardinality(Handle) + 1

VARIABLES
  mEventHandles,          \* the list, as a sequence of handles
  info,                   \* contents of the allocations
  mNumberOfEventHandles,
  timers,                 \* per kind: the variable holds a timer; timers that run
  mQueue,                 \* [EventType, and as history who was registered when it
                          \* was queued and who has been told]
  mQueueEventCreated,
  signaled,               \* the queue event's notification is pending
  drain,                  \* where that notification is
  app,                    \* where the application is in a call of its own
  handleLost,             \* history: a registration failed after it created timers
  selfReplaced,           \* history: a handler unregistered itself, then registered
  miscounted,             \* history: the counter was changed behind the back of another
                          \* change, or for a handle already unregistered
  pollsCut,               \* history: the last handler left while the application, which
                          \* had seen it counted, was about to register another
  wild                    \* an entry in use was freed, or the list lost an entry

vars == <<mEventHandles, info, mNumberOfEventHandles, timers, mQueue, mQueueEventCreated,
          signaled, drain, app, handleLost, selfReplaced, miscounted, pollsCut, wild>>
registry == <<mEventHandles, info, mNumberOfEventHandles, timers, handleLost, miscounted,
              pollsCut>>
queueing == <<mQueue, mQueueEventCreated, signaled>>

Freed == [Registered |-> FALSE, Ready |-> FALSE, EventType |-> {}]
New(types) == [Registered |-> TRUE, Ready |-> FALSE, EventType |-> types]
Listed == Range(mEventHandles)
Registered == {h \in Listed : info[h].Registered}
Kept == Only(mEventHandles, Registered)
LastOf == IF mEventHandles = << >> THEN {} ELSE {Last(mEventHandles)}

\* The handle that the application has allocated and not linked yet.
InFlight == IF app.pc \in {"count", "link"} THEN {app.h} ELSE {}

\* The entries that the application's call is going to read or write.
Held ==
  CASE app.pc \in {"sweep", "find"} -> {app.at}
    [] app.pc = "free" -> {app.at} \cup app.then
    [] app.pc = "uncount" -> IF app.names = Handle THEN {app.at} ELSE {}
    [] app.pc = "link" -> app.tail
    [] app.pc = "back" -> {app.h}
    [] OTHER -> {}

----------------------------------------------------------------------------
Init ==
  /\ mEventHandles = << >> /\ info = [h \in Handle |-> Freed]
  /\ mNumberOfEventHandles = 0
  /\ timers = [k \in Kind |-> [current |-> FALSE, live |-> 0]]
  /\ mQueue = << >> /\ mQueueEventCreated \in BOOLEAN /\ signaled = FALSE
  /\ drain = [pc |-> "idle"] /\ app = [pc |-> "idle"]
  /\ handleLost = FALSE /\ selfReplaced = FALSE /\ miscounted = FALSE
  /\ pollsCut = FALSE /\ wild = FALSE

\* EventLibCreateTimerEvent assigned to the variable of the kind; a timer that
\* the variable held before keeps running.
Created(t, ok) == [current |-> ok, live |-> IF ok THEN t.live + 1 ELSE t.live]

\* EventLibCancelEvent, which does nothing when the variable is NULL.
Cancelled(t) ==
  [current |-> FALSE, live |-> IF t.current THEN t.live - 1 ELSE t.live]

PollsCancelled == [k \in Kind |-> Cancelled(timers[k])]

\* InternalCreatePollEvents.  A missing key map leaves the key variable alone.
PollsCreated(outcome) ==
  LET pointer == Created(timers["pointer"], outcome # "noPointerTimer")
  IN  CASE outcome = "noPointerTimer" -> [timers EXCEPT !["pointer"] = pointer]
        [] outcome = "noKeyMap" -> [timers EXCEPT !["pointer"] = Cancelled(pointer)]
        [] outcome = "noKeyTimer" ->
             [timers EXCEPT !["pointer"] = Cancelled(pointer),
                            !["key"] = Created(@, FALSE)]
        [] OTHER -> [timers EXCEPT !["pointer"] = pointer, !["key"] = Created(@, TRUE)]

Outcome == {"ok", "noPointerTimer", "noKeyMap", "noKeyTimer", "noHandle"}

\* Mutant: a new handler is ready at once.
RelistReady(h, types, ok) ==
  /\ mEventHandles' = IF ok THEN Append(Kept, h) ELSE Kept
  /\ info' = [g \in Handle |->
       IF ok /\ g = h THEN [New(types) EXCEPT !.Ready = TRUE]
       ELSE IF g \in Registered \cup InFlight THEN info[g] ELSE Freed]
  /\ wild' = (Held \ Registered # {} \/ (ok /\ app.pc = "back"))

\* InternalRemoveUnregisteredEvents of a callback, then its new handle if there is one.
\* The application loses its way when an entry it holds is freed, and the list loses
\* the application's new entry when its tail does not lead back to it yet.
Relist(h, types, ok) ==
  /\ mEventHandles' = IF ok THEN Append(Kept, h) ELSE Kept
  /\ info' = [g \in Handle |->
       IF ok /\ g = h THEN New(types)
       ELSE IF g \in Registered \cup InFlight THEN info[g] ELSE Freed]
  /\ wild' = (Held \ Registered # {} \/ (ok /\ app.pc = "back"))

\* The counter is unsigned.
Up(n) == IF n + 1 = CounterRange THEN 0 ELSE n + 1
Down(n, k) == IF k <= n THEN n - k ELSE n - k + CounterRange

\* EventRegisterHandler(types) of a callback: the poll timers are created for the first
\* handler.
EventRegisterHandler(h, types, outcome) ==
  LET first == mNumberOfEventHandles = 0
      polls == first => outcome \in {"ok", "noHandle"}
      ok    == polls /\ outcome # "noHandle"
  IN  /\ h \in Handle \ (Registered \cup InFlight)
      /\ first /\ outcome # "noPointerTimer" => \A k \in Kind : timers[k].live < MaxTimers
      /\ ~first => outcome \in {"ok", "noHandle"}
      /\ Relist(h, types, ok)
      /\ timers' = IF first THEN PollsCreated(outcome) ELSE timers
      /\ pollsCut' = (pollsCut /\ ~first)
      /\ mNumberOfEventHandles' = IF ok THEN Up(mNumberOfEventHandles)
                                        ELSE mNumberOfEventHandles
      /\ handleLost' = (handleLost \/ (first /\ outcome = "noHandle"))
      \* history: a reused address is a new handler
      /\ mQueue' = [i \in DOMAIN mQueue |->
           [mQueue[i] EXCEPT !.birth = @ \ {h}, !.told = @ \ {h}]]

\* What a caller of EventUnregisterHandler names: an entry of the list, which may be
\* unregistered already, or (UINTN)-1 for all of them.
Names == {{h} : h \in Listed} \cup {Handle}

\* Mutant: the handles leave the list at once.
EventUnregisterHandlerUnlinks(names) ==
  LET hits  == names \cap Listed
      count == Down(mNumberOfEventHandles, Cardinality(hits))
  IN  /\ info' = [h \in Handle |-> [info[h] EXCEPT !.Registered = @ /\ h \notin hits]]
      /\ mEventHandles' = SelectSeq(mEventHandles, LAMBDA g : g \notin hits)
      /\ mNumberOfEventHandles' = count
      /\ timers' = IF count = 0 THEN PollsCancelled ELSE timers
      /\ miscounted' = (miscounted \/ ~(hits \subseteq Registered))
      /\ pollsCut' = IF count = 0 THEN app.pc = "allocate" ELSE pollsCut
      /\ UNCHANGED handleLost

\* EventUnregisterHandler of a callback.  The handles stay in the list until the next
\* registration or the end of the drain, and one that is named again is counted again.
EventUnregisterHandler(names) ==
  LET hits  == names \cap Listed
      count == Down(mNumberOfEventHandles, Cardinality(hits))
  IN  /\ info' = [h \in Handle |-> [info[h] EXCEPT !.Registered = @ /\ h \notin hits]]
      /\ mNumberOfEventHandles' = count
      /\ timers' = IF count = 0 THEN PollsCancelled ELSE timers
      /\ miscounted' = (miscounted \/ ~(hits \subseteq Registered))
      /\ pollsCut' = IF count = 0 THEN app.pc = "allocate" ELSE pollsCut
      /\ UNCHANGED <<mEventHandles, handleLost>>

----------------------------------------------------------------------------
(* EventRegisterHandler and EventUnregisterHandler of the application, at            *)
(* TPL_APPLICATION, where it only goes on while no notification is pending or runs.  *)

Quiet == drain.pc = "idle" /\ ~signaled

FirstOf == IF mEventHandles = << >> THEN {} ELSE {mEventHandles[1]}
Behind(h) ==
  {mEventHandles[i + 1] : i \in {j \in 1 .. Len(mEventHandles) - 1 : mEventHandles[j] = h}}

\* The walk goes on with the entry in S, or is over.
SweepAt(S) ==
  IF S = {} THEN [pc |-> "polls"] ELSE [pc |-> "sweep", at |-> CHOOSE h \in S : TRUE]
FindAt(S, names) ==
  IF S = {} THEN [pc |-> "cancel"]
            ELSE [pc |-> "find", at |-> CHOOSE h \in S : TRUE, names |-> names]

RegisterBegin ==
  /\ app.pc = "idle" /\ app' = SweepAt(FirstOf)
  /\ UNCHANGED <<registry, wild>>

\* The link of the entry is read, then its flag (OcAppleEventLib.c:251-257).
SweepEntry ==
  /\ app.pc = "sweep"
  /\ app' = IF info[app.at].Registered THEN SweepAt(Behind(app.at))
            ELSE [pc |-> "free", at |-> app.at, then |-> Behind(app.at)]
  /\ UNCHANGED <<registry, wild>>

FreeEntry ==
  /\ app.pc = "free"
  /\ mEventHandles' = Only(mEventHandles, Handle \ {app.at})
  /\ info' = [info EXCEPT ![app.at] = Freed]
  /\ app' = SweepAt(app.then)
  /\ UNCHANGED <<mNumberOfEventHandles, timers, handleLost, miscounted, pollsCut, wild>>

\* The poll timers are created for the first handler, nobody being there whom a drain
\* could call in between.
CheckCounter(outcome) ==
  LET first == mNumberOfEventHandles = 0
      polls == first => outcome = "ok"
  IN  /\ app.pc = "polls" /\ outcome # "noHandle" /\ (~first => outcome = "ok")
      /\ first /\ outcome # "noPointerTimer" => \A k \in Kind : timers[k].live < MaxTimers
      /\ timers' = IF first THEN PollsCreated(outcome) ELSE timers
      /\ app' = IF polls THEN [pc |-> "allocate", first |-> first] ELSE [pc |-> "idle"]
      /\ pollsCut' = (pollsCut /\ ~first)
      /\ UNCHANGED <<mEventHandles, info, mNumberOfEventHandles, handleLost, miscounted, wild>>

\* The handle is allocated and filled in, and the counter is read for its increment.
AllocateHandle(h, types, ok) ==
  /\ app.pc = "allocate" /\ (ok => h \notin Listed)
  /\ info' = IF ok THEN [info EXCEPT ![h] = New(types)] ELSE info
  /\ app' = IF ok THEN [pc |-> "count", h |-> h, n |-> mNumberOfEventHandles]
                  ELSE [pc |-> "idle"]
  /\ handleLost' = (handleLost \/ (app.first /\ ~ok))
  /\ UNCHANGED <<mEventHandles, mNumberOfEventHandles, timers, miscounted, pollsCut, wild>>

\* The counter is stored, and InsertTailList begins: the list's back link is read, then the
\* entry there is linked to the new one, and last the list's back link is set.
CountUp ==
  /\ app.pc = "count"
  /\ mNumberOfEventHandles' = Up(app.n)
  /\ miscounted' = (miscounted \/ mNumberOfEventHandles # app.n)
  /\ app' = [pc |-> "link", h |-> app.h, tail |-> LastOf]
  /\ UNCHANGED <<mEventHandles, info, timers, handleLost, pollsCut, wild>>

\* An entry that a callback appended behind the tail that was read is lost.
LinkForward ==
  /\ app.pc = "link"
  /\ mEventHandles' = Append(mEventHandles, app.h)
  /\ wild' = (LastOf # app.tail)
  /\ app' = [pc |-> "back", h |-> app.h]
  /\ UNCHANGED <<info, mNumberOfEventHandles, timers, handleLost, miscounted, pollsCut>>

LinkBack ==
  /\ app.pc = "back" /\ app' = [pc |-> "idle"]
  /\ UNCHANGED <<registry, wild>>

RegisterStep ==
  \/ SweepEntry \/ FreeEntry
  \/ \E outcome \in Outcome : CheckCounter(outcome)
  \/ \E h \in Handle, types \in Masks, ok \in BOOLEAN : AllocateHandle(h, types, ok)
  \/ CountUp \/ LinkForward \/ LinkBack

UnregisterBegin(names) ==
  /\ app.pc = "idle" /\ app' = FindAt(FirstOf, names)
  /\ UNCHANGED <<registry, wild>>

\* The flag is cleared and the counter read for its decrement.
FindEntry ==
  /\ app.pc = "find"
  /\ IF app.at \in app.names
     THEN /\ info' = [info EXCEPT ![app.at].Registered = FALSE]
          /\ miscounted' = (miscounted \/ ~info[app.at].Registered)
          /\ app' = [pc |-> "uncount", at |-> app.at, names |-> app.names,
                     n |-> mNumberOfEventHandles]
     ELSE /\ app' = FindAt(Behind(app.at), app.names)
          /\ UNCHANGED <<info, miscounted>>
  /\ UNCHANGED <<mEventHandles, mNumberOfEventHandles, timers, handleLost, pollsCut, wild>>

CountDown ==
  /\ app.pc = "uncount"
  /\ mNumberOfEventHandles' = Down(app.n, 1)
  /\ miscounted' = (miscounted \/ mNumberOfEventHandles # app.n)
  /\ app' = IF app.names = Handle THEN FindAt(Behind(app.at), Handle) ELSE [pc |-> "cancel"]
  /\ UNCHANGED <<mEventHandles, info, timers, handleLost, pollsCut, wild>>

CancelPolls ==
  /\ app.pc = "cancel"
  /\ IF mNumberOfEventHandles = 0 THEN timers' = PollsCancelled /\ pollsCut' = FALSE
                                  ELSE UNCHANGED <<timers, pollsCut>>
  /\ app' = [pc |-> "idle"]
  /\ UNCHANGED <<mEventHandles, info, mNumberOfEventHandles, handleLost, miscounted, wild>>

UnregisterStep == FindEntry \/ CountDown \/ CancelPolls

Application ==
  /\ Quiet
  /\ \/ RegisterStep \/ UnregisterStep
     \/ /\ miscounted => "miscount" \in GoOnAfter
        /\ RegisterBegin \/ \E names \in Names : UnregisterBegin(names)
  /\ UNCHANGED <<queueing, drain, selfReplaced>>

----------------------------------------------------------------------------
\* A poll timer of the kind fires and its handler queues an event with
\* EventAddEventToQueue, which may find no memory for the queue entry and
\* signals the queue event all the same.
EventAddEventToQueue(kind, ok) ==
  /\ drain.pc = "idle" /\ timers[kind].live > 0
  /\ mQueueEventCreated /\ Len(mQueue) < MaxQueue
  /\ mQueue' = IF ok THEN Append(mQueue, [EventType |-> kind, birth |-> Registered,
                                          told |-> {}])
                     ELSE mQueue
  /\ signaled' = TRUE
  /\ UNCHANGED <<registry, mQueueEventCreated, drain, app, selfReplaced, wild>>

\* The pointer poll finds no pointer device and cancels the timer in the variable.
PointerPollGivesUp ==
  /\ drain.pc = "idle" /\ timers["pointer"].live > 0 /\ timers["pointer"].current
  /\ timers' = [timers EXCEPT !["pointer"] = Cancelled(@)]
  /\ UNCHANGED <<mEventHandles, info, mNumberOfEventHandles, handleLost, miscounted, pollsCut,
                 queueing, drain, app, selfReplaced, wild>>

----------------------------------------------------------------------------
(* InternalQueueEventNotifyFunction *)

\* The lock is taken and every handle in the list is flagged ready.
DrainBegin ==
  /\ drain.pc = "idle" /\ signaled
  /\ signaled' = FALSE
  /\ info' = [h \in Handle |-> IF h \in Listed THEN [info[h] EXCEPT !.Ready = TRUE]
                                              ELSE info[h]]
  /\ drain' = [pc |-> "event"]
  /\ UNCHANGED <<mEventHandles, mNumberOfEventHandles, timers, handleLost, miscounted, pollsCut,
                 mQueue, mQueueEventCreated, app, selfReplaced, wild>>

\* The event at the front has been shown to the whole list.
DropEvent == mQueue' = Tail(mQueue) /\ drain' = [pc |-> "event"]

\* InternalSignalEvents begins with the first handle, if there is one.
DrainEvent ==
  /\ drain.pc = "event" /\ mQueue # << >>
  /\ IF mEventHandles = << >> THEN DropEvent
     ELSE drain' = [pc |-> "walk", at |-> mEventHandles[1]] /\ UNCHANGED mQueue
  /\ UNCHANGED <<registry, mQueueEventCreated, signaled, app, selfReplaced, wild>>

Wanted(h) ==
  info[h].Registered /\ info[h].Ready /\ Head(mQueue).EventType \in info[h].EventType

WalkCall ==
  /\ drain.pc = "walk" /\ Wanted(drain.at)
  /\ drain' = [drain EXCEPT !.pc = "callback"]
  /\ mQueue' = [mQueue EXCEPT ![1].told = @ \cup {drain.at}]
  /\ UNCHANGED <<registry, mQueueEventCreated, signaled, app, selfReplaced, wild>>

\* The walk goes on behind the handle it is at.
Advance ==
  LET p == CHOOSE i \in DOMAIN mEventHandles : mEventHandles[i] = drain.at
  IN  IF p = Len(mEventHandles) THEN DropEvent
      ELSE drain' = [pc |-> "walk", at |-> mEventHandles[p + 1]] /\ UNCHANGED mQueue

WalkSkip ==
  /\ drain.pc = "walk" /\ ~Wanted(drain.at)
  /\ Advance
  /\ UNCHANGED <<registry, mQueueEventCreated, signaled, app, selfReplaced, wild>>

CallbackCalls ==
  /\ drain.pc = "callback"
  /\ miscounted => "miscount" \in GoOnAfter
  /\ handleLost => "lostHandle" \in GoOnAfter

CallbackRegister(h, types, outcome) ==
  /\ CallbackCalls
  /\ EventRegisterHandler(h, types, outcome)
  /\ selfReplaced' = (selfReplaced \/ drain.at \notin Registered)
  /\ UNCHANGED <<mQueueEventCreated, signaled, drain, app, miscounted>>

CallbackUnregister(names) ==
  /\ CallbackCalls
  /\ EventUnregisterHandler(names)
  /\ UNCHANGED <<queueing, drain, app, selfReplaced, wild>>

\* The handler returns and the walk reads the link of the handle it was called for,
\* freed and perhaps allocated again when the handler replaced itself.
CallbackReturn ==
  /\ drain.pc = "callback"
  /\ IF drain.at \in Listed /\ ~selfReplaced THEN Advance /\ UNCHANGED wild
     ELSE wild' = TRUE /\ UNCHANGED <<drain, mQueue>>
  /\ UNCHANGED <<registry, mQueueEventCreated, signaled, app, selfReplaced>>

\* Mutant: a drain may stop after any event.
DrainEndEarly ==
  /\ drain.pc = "event"
  /\ mEventHandles' = Kept
  /\ info' = [h \in Handle |-> IF h \in Registered \cup InFlight THEN info[h] ELSE Freed]
  /\ wild' = (Held \ Registered # {})
  /\ drain' = [pc |-> "idle"]
  /\ UNCHANGED <<mNumberOfEventHandles, timers, handleLost, miscounted, pollsCut, queueing, app,
                 selfReplaced>>

\* The queue is empty: unregistered handles are freed and the lock is released.
DrainEnd ==
  /\ drain.pc = "event" /\ mQueue = << >>
  /\ mEventHandles' = Kept
  /\ info' = [h \in Handle |-> IF h \in Registered \cup InFlight THEN info[h] ELSE Freed]
  /\ wild' = (Held \ Registered # {})
  /\ drain' = [pc |-> "idle"]
  /\ UNCHANGED <<mNumberOfEventHandles, timers, handleLost, miscounted, pollsCut, queueing, app,
                 selfReplaced>>

Drain ==
  DrainBegin \/ DrainEvent \/ WalkCall \/ WalkSkip \/ CallbackReturn \/ DrainEnd

Next ==
  \/ ~wild /\ \/ Drain
              \/ \E h \in Handle, types \in Masks, outcome \in Outcome :
                   CallbackRegister(h, types, outcome)
              \/ \E names \in Names : CallbackUnregister(names)
              \/ Application
              \/ \E kind \in Kind, ok \in BOOLEAN : EventAddEventToQueue(kind, ok)
              \/ PointerPollGivesUp
  \/ (wild \/ miscounted) /\ UNCHANGED vars    \* where a behaviour may end

Spec == Init /\ [][Next]_vars

\* A pending notification is dispatched, runs, and the handlers it calls return.
FairSpec == Spec /\ WF_vars(~wild /\ Drain)

----------------------------------------------------------------------------
TypeOK ==
  /\ mEventHandles \in Seq(Handle) /\ IsInjective(mEventHandles)
  /\ \A h \in Handle : /\ info[h].Registered \in BOOLEAN /\ info[h].Ready \in BOOLEAN
                       /\ info[h].EventType \subseteq Kind
                       /\ h \notin Listed \cup InFlight => info[h] = Freed
  /\ mNumberOfEventHandles \in 0 .. CounterRange - 1
  /\ \A k \in Kind : timers[k].current \in BOOLEAN /\ timers[k].live \in 0 .. MaxTimers
  /\ Len(mQueue) <= MaxQueue
  /\ drain.pc \in {"idle", "event", "walk", "callback"}

\* The counter that decides about the poll timers counts the registered handles, the
\* application's entry that is about to be linked or uncounted included, and not those that
\* wait to be freed; unless a handle was unregistered twice, or a callback changed the
\* counter within the application's increment or decrement
\* (OcAppleEventLib.c:333, 354, 393, 405).
CounterMatchesList ==
  ~miscounted =>
    mNumberOfEventHandles =
      Cardinality(Registered)
        + IF app.pc \in {"link", "uncount"} THEN 1 ELSE 0

\* While the counter is right: the key poll runs as long as somebody is registered, unless
\* the last handler left between the application's look at the counter and its
\* increment; and, unless a registration failed after it had created the timers, no timer
\* runs that could not be cancelled, and none when nobody is registered and no call
\* is about to create or cancel them (OcAppleEventLib.c:333-341, 405).
PollsFollowHandlers ==
  /\ \A k \in Kind : timers[k].current => timers[k].live > 0
  /\ ~miscounted =>
       /\ mNumberOfEventHandles > 0 /\ ~pollsCut => timers["key"].current
       /\ ~handleLost => \A k \in Kind :
            /\ timers[k].live = IF timers[k].current THEN 1 ELSE 0
            /\ timers[k].current =>
                 \/ mNumberOfEventHandles > 0
                 \/ app.pc \in {"allocate", "count", "find", "cancel"}

\* A handler is called for an event at most once, only if it was registered
\* when the event was queued, and never after it was unregistered, whatever the
\* handlers called before it did (OcAppleEventLib.c:195, 221, 346).
OnlyListenersTold ==
  [][drain.pc = "walk" /\ drain'.pc = "callback" =>
       /\ drain.at \in Head(mQueue).birth \ Head(mQueue).told
       /\ drain.at \in Registered]_vars

\* An event is given up only after every handler that was registered when it was
\* queued, and still is, has been called for it, even when handlers before it in
\* the list unregistered and registered others (OcAppleEventLib.c:215-231).
NobodyLeftOut ==
  [][Len(mQueue') < Len(mQueue) =>
       \A h \in Head(mQueue).birth \cap Registered' :
         Head(mQueue).EventType \in info[h].EventType =>
           h \in Head(mQueue).told]_vars

\* The walk never stands on a freed entry, except after a handler that
\* unregistered itself registered another one (OcAppleEventLib.c:230, 263, 329).
WalkKeepsFooting ==
  drain.pc \in {"walk", "callback"} /\ ~selfReplaced => drain.at \in Listed

\* The entries that the application's calls go to are in the list, whatever a drain
\* did between two of their statements (OcAppleEventLib.c:249-267, 356, 385-402).
CallKeepsFooting == ~wild => Held \subseteq Listed /\ InFlight \cap Listed = {}

\* The registry as a whole: the counter, the timers, the walk of a drain and the calls of
\* the application (OcAppleEventLib.c:195-413).
HandlersRight == TypeOK /\ CounterMatchesList /\ PollsFollowHandlers /\ WalkKeepsFooting
                 /\ CallKeepsFooting

\* Events reach whom they are for and nobody else (OcAppleEventLib.c:195-231).
ListenersTold == OnlyListenersTold /\ NobodyLeftOut

\* The queue is drained, and no wake-up is lost (EventQueue.c:91-120, 204-222).
QueueDrains == mQueue # << >> ~> (mQueue = << >> \/ wild)
=============================================================================
