--------------------------- MODULE PointerButtons ---------------------------
(***************************************************************************)
(* Buttons and cursor of the pointer poll (OcAppleEventLib/PointerHandler.c*)
(* from InternalHandleButtonInteraction on): the reports of the pointer    *)
(* devices become MOUSE_DOWN, MOUSE_UP, CLICK and DOUBLE_CLICK events, and *)
(* move a cursor that stays on the screen.                                 *)
(*                                                                         *)
(* A poll runs at TPL_NOTIFY and is one action; memory may run out for any *)
(* of its events, which is then not sent, while the buttons go on as if it *)
(* had been.  A poll may also come between the creation of its timer and   *)
(* the end of the call that created it, at TPL_APPLICATION.  The cursor    *)
(* has one axis here; the other one is treated alike.  Counters are exact  *)
(* up to the limit they are compared with and stop behind it.              *)
(*                                                                         *)
(* The left button is followed.  The right one goes through the same code  *)
(* and changes nothing for the left one; but its previous state is taken   *)
(* from the left button (line 745), so that its events do not follow its   *)
(* own presses, and nothing is claimed for it.                             *)
(***************************************************************************)
EXTENDS Integers, Sequences, SequencesExt, FiniteSets

CONSTANTS
  Resolution,                   \* mResolution, as found by a poll timer's creation
  Movement,                     \* scaled movements a device reports
  MAXIMUM_CLICK_DURATION,
  MAXIMUM_DOUBLE_CLICK_SPEED,
  MINIMAL_MOVEMENT

PointerAssumption ==
  /\ Resolution \in Nat /\ Movement \subseteq Int
  /\ MAXIMUM_CLICK_DURATION \in Nat /\ MAXIMUM_DOUBLE_CLICK_SPEED \in Nat
  /\ MINIMAL_MOVEMENT \in Nat

VARIABLES
  info,           \* mLeftButtonInfo
  cursor,         \* mCursorPosition
  polling,        \* the poll timer runs
  zeroing,        \* the timer runs, but its creator has not cleared the buttons yet
  emitted,        \* history: the last poll's events, and those that were not sent
  toldLeft,       \* history: the left button is down for the listeners
  missedLeft,     \* history: the left button's last press or release was not sent, or
                  \* was cleared by the creator of the timer
  lastClick,      \* history: the left button's last click or double click, sent or not,
                  \* where it was and how many polls ago
  crowded         \* history: two devices reported in one poll

vars == <<info, cursor, polling, zeroing, emitted, toldLeft, missedLeft, lastClick, crowded>>

Position == 0 .. Resolution
Near(p, q) == p - q \in (- MINIMAL_MOVEMENT) .. MINIMAL_MOVEMENT
Upto(n, limit) == IF n <= limit THEN n + 1 ELSE n
ClickType == {"CLICK", "DOUBLE_CLICK"}
Event == {"DOWN", "UP"} \cup ClickType
NoEvents == [sent |-> {}, lost |-> {}]

\* What a device may report, and what one poll may collect.
Report == [move : Movement, left : BOOLEAN]
Reports == {<< >>} \cup {<<r>> : r \in Report} \cup {<<r, s>> : r, s \in Report}

----------------------------------------------------------------------------
Init ==
  /\ info = [NumberOfStrokes |-> 0, Polls |-> 0, PreviousEventType |-> "none",
              PreviousButton |-> FALSE, CurrentButton |-> FALSE,
              PreviousPosition |-> 0, Position |-> 0]
  /\ cursor = 0 /\ polling = FALSE /\ zeroing = FALSE
  /\ emitted = NoEvents /\ toldLeft = FALSE /\ missedLeft = FALSE /\ crowded = FALSE
  /\ lastClick = [type |-> "none", at |-> 0, ago |-> 0]

\* EventCreateSimplePointerPollEvent that gets its timer.  The last click's age survives
\* from the time before, the buttons do not.
EventCreateSimplePointerPollEvent ==
  /\ ~polling /\ ~zeroing
  /\ polling' = TRUE /\ zeroing' = TRUE /\ cursor' = 0
  /\ emitted' = NoEvents /\ toldLeft' = FALSE /\ missedLeft' = FALSE
  /\ UNCHANGED <<info, lastClick, crowded>>

\* Its end, where what polls have found meanwhile is cleared; unless one of them has given
\* the timer up before the variable is tested.
EventCreateSimplePointerPollEventEnd ==
  /\ zeroing
  /\ zeroing' = FALSE /\ emitted' = NoEvents
  /\ \/ info' = [info EXCEPT !.PreviousButton = FALSE, !.CurrentButton = FALSE]
     \/ ~polling /\ UNCHANGED info
  /\ missedLeft' = (missedLeft \/ toldLeft)
  /\ UNCHANGED <<cursor, polling, toldLeft, lastClick, crowded>>

EventCancelSimplePointerPollEvent ==
  /\ polling
  /\ polling' = FALSE /\ emitted' = NoEvents
  /\ UNCHANGED <<info, cursor, zeroing, toldLeft, missedLeft, lastClick, crowded>>

\* The cursor after a movement.
Moved(c, move) ==
  IF c + move > Resolution THEN Resolution ELSE IF c + move < 0 THEN 0 ELSE c + move

TakeReport(p, r) ==
  [p EXCEPT !.PreviousButton = p.CurrentButton, !.CurrentButton = r.left]

\* What is known of the button and the cursor after one report, and after all.
AfterReport(s, r) == [button |-> TakeReport(s.button, r), cursor |-> Moved(s.cursor, r.move)]

AfterReports(button, c, reports) ==
  LET after[n \in 0 .. Len(reports)] ==
        IF n = 0 THEN [button |-> button, cursor |-> c]
        ELSE AfterReport(after[n - 1], reports[n])
  IN  after[Len(reports)]

\* The release that ends a short press near the place where it began.
IsClick(p, c) ==
  /\ p.PreviousButton /\ ~p.CurrentButton
  /\ p.NumberOfStrokes <= MAXIMUM_CLICK_DURATION /\ Near(p.PreviousPosition, c)

\* Mutant: the time since the last click does not matter.
IsDoubleClickSlow(p, c) == p.PreviousEventType = "CLICK" /\ Near(p.Position, c)

IsDoubleClick(p, c) ==
  /\ p.PreviousEventType = "CLICK"
  /\ p.Polls <= MAXIMUM_DOUBLE_CLICK_SPEED /\ Near(p.Position, c)

ClickSent(p, c) == IF IsDoubleClick(p, c) THEN "DOUBLE_CLICK" ELSE "CLICK"

\* The type remembered for the next click; a series of fast clicks goes on as
\* double clicks that are not announced as such.
ClickRemembered(p, c) ==
  IF p.PreviousEventType # "DOUBLE_CLICK" THEN ClickSent(p, c)
  ELSE IF p.Polls <= MAXIMUM_DOUBLE_CLICK_SPEED THEN "DOUBLE_CLICK" ELSE "CLICK"

\* InternalHandleButtonInteraction with a good status.
Interact(p, c) ==
  LET pressed == [p EXCEPT !.NumberOfStrokes = 0, !.PreviousPosition = c]
      clicked == [p EXCEPT !.PreviousEventType = ClickRemembered(p, c),
                           !.Position = c, !.Polls = 0]
      q == IF p.CurrentButton /\ ~p.PreviousButton THEN pressed
           ELSE IF IsClick(p, c) THEN clicked ELSE p
  IN  [q EXCEPT !.PreviousButton = p.CurrentButton]

\* Its end, which runs with a bad status as well.
Age(p) ==
  [p EXCEPT !.NumberOfStrokes = IF p.PreviousButton /\ p.CurrentButton
                                THEN Upto(@, MAXIMUM_CLICK_DURATION) ELSE @,
            !.Polls = Upto(@, MAXIMUM_DOUBLE_CLICK_SPEED)]

\* Mutant: a release is only sent when it ends a click.
ButtonEventsClicksOnly(p, c) ==
  {e \in Event :
     \/ e = "DOWN" /\ p.CurrentButton /\ ~p.PreviousButton
     \/ IsClick(p, c) /\ e \in {"UP", ClickSent(p, c)}}

ButtonEvents(p, c) ==
  {e \in Event :
     \/ e = "DOWN" /\ p.CurrentButton /\ ~p.PreviousButton
     \/ e = "UP" /\ ~p.CurrentButton /\ p.PreviousButton
     \/ IsClick(p, c) /\ e = ClickSent(p, c)}

\* What the listeners are told when the events in lost find no memory, in
\* EventCreateAppleEventQueueInfo or EventAddEventToQueue.
Tell(events, lost) ==
  LET turn == events \cap {"DOWN", "UP"}
  IN  /\ emitted' = [sent |-> events \ lost, lost |-> lost]
      /\ toldLeft' = IF turn \subseteq lost THEN toldLeft
                     ELSE "DOWN" \in events
      /\ missedLeft' = IF turn = {} THEN missedLeft ELSE turn \subseteq lost

\* A poll that finds a device; without a report the status is EFI_NOT_READY.
PointerPoll(reports) ==
  LET seen   == AfterReports(info, cursor, reports)
      events == IF reports = << >> THEN {} ELSE ButtonEvents(seen.button, seen.cursor)
  IN  /\ polling
      /\ cursor' = seen.cursor
      /\ info' = Age(IF reports = << >> THEN info ELSE Interact(seen.button, seen.cursor))
      /\ \E lost \in SUBSET events : Tell(events, lost)
      /\ \/ /\ events \cap ClickType = {}
            /\ lastClick' = [lastClick EXCEPT !.ago = Upto(@, MAXIMUM_DOUBLE_CLICK_SPEED)]
         \/ \E e \in events \cap ClickType :
              lastClick' = [type |-> e, at |-> seen.cursor, ago |-> 1]
      /\ crowded' = (crowded \/ Len(reports) > 1)
      /\ UNCHANGED <<polling, zeroing>>

\* EventSetCursorPosition with a position that it accepts.
EventSetCursorPosition(p) ==
  /\ p >= 0 /\ p < Resolution
  /\ cursor' = p /\ emitted' = NoEvents
  /\ UNCHANGED <<info, polling, zeroing, toldLeft, missedLeft, lastClick, crowded>>

Next ==
  \/ EventCreateSimplePointerPollEvent \/ EventCreateSimplePointerPollEventEnd
  \/ EventCancelSimplePointerPollEvent
  \/ \E reports \in Reports : PointerPoll(reports)
  \/ \E p \in Position : EventSetCursorPosition(p)

Spec == Init /\ [][Next]_vars

----------------------------------------------------------------------------
TypeOK ==
  /\ cursor \in Position /\ polling \in BOOLEAN
  /\ info.NumberOfStrokes \in 0 .. (MAXIMUM_CLICK_DURATION + 1)
  /\ info.Polls \in 0 .. (MAXIMUM_DOUBLE_CLICK_SPEED + 1)
  /\ info.PreviousEventType \in ClickType \cup {"none"}
  /\ info.PreviousButton \in BOOLEAN /\ info.CurrentButton \in BOOLEAN
  /\ info.PreviousPosition \in Position /\ info.Position \in Position

\* As long as no two devices report in the same poll, what the listeners were told
\* about the left button is what the handler knows, so presses and releases take turns;
\* unless memory ran out for the last of them, or the creator of the timer cleared the button
\* behind the first poll, until the next one is sent
\* (PointerHandler.c:537-556, 743-746, 843-856).
LeftButtonTold ==
  ~crowded /\ polling /\ ~zeroing => missedLeft \/ toldLeft = info.CurrentButton

\* A double click follows a single click of the same button, sent or lost for memory, a
\* short time ago and near the cursor, so no three clicks make two double clicks
\* (PointerHandler.c:566-595).
DoubleClickEarned ==
  []["DOUBLE_CLICK" \in emitted'.sent =>
       /\ lastClick.type = "CLICK"
       /\ lastClick.ago <= MAXIMUM_DOUBLE_CLICK_SPEED
       /\ Near(lastClick.at, cursor')]_vars

\* A left click is sent with the release of a press, which is sent too unless memory ran out
\* for it, and the listeners know of the press unless they missed it; never in the
\* first poll of a timer, whose press belongs to nobody, once its creator is done
\* (PointerHandler.c:548-565, 849-856).
ClickEndsPress ==
  [][emitted'.sent \cap ClickType # {} =>
       /\ Cardinality(emitted'.sent \cap ClickType) = 1
       /\ "UP" \in emitted'.sent \cup emitted'.lost
       /\ ~crowded' /\ ~zeroing => toldLeft \/ missedLeft]_vars
=============================================================================
