-------------------------------- MODULE AIK --------------------------------
(***************************************************************************)
(* The keyboard shim coming and going (OcInputLib, AIK.c, AIKSource.c,     *)
(* AIKShim.c and the installation of AIKTarget.c): it hooks the keyboard   *)
(* protocols of the console, polls them from a timer, and waits for the    *)
(* key map database when that is not there yet.                            *)
(*                                                                         *)
(* A caller initialises the shim once and exits once, as OpenCore does.    *)
(* Protocols of the console, and the database, may come at any time; the   *)
(* database may be installed again by another driver.                      *)
(***************************************************************************)
EXTENDS Naturals, FiniteSets

CONSTANTS
  AikDatabases   \* bound: installations of the key map database

VARIABLES
  gAikSelf,      \* [started, Mode, OurJobIsDone, InPollKeyboardEvent, KeyMapDbArriveEvent]
  Source,        \* hooked protocols -> what was kept of them: [read, wait]
  KeyMapDb,      \* the target knows the database
  Console,       \* protocol -> [read, wait]: whose function and whose event it has
  aikDatabase,   \* [installed: how often, sets: key sets of the shim in it]
  aikTimers      \* poll timers that run; the shim remembers the last one

aikVars == <<gAikSelf, Source, KeyMapDb, Console, aikDatabase, aikTimers>>

Protocols == {"Ami", "V1", "V2"}
Absent == [read |-> "none", wait |-> "none"]
Firmware == [read |-> "firmware", wait |-> "firmware"]
NotHooked == [read |-> "null", wait |-> "null"]
Hooked(source) == {p \in Protocols : source[p] # NotHooked}

AikInit ==
  /\ gAikSelf = [started |-> FALSE, Mode |-> "Auto", OurJobIsDone |-> FALSE,
                 InPollKeyboardEvent |-> FALSE, KeyMapDbArriveEvent |-> FALSE]
  /\ Source = [p \in Protocols |-> NotHooked] /\ KeyMapDb = FALSE
  /\ Console = [p \in Protocols |-> Absent]
  /\ aikDatabase = [installed |-> 0, sets |-> 0] /\ aikTimers = 0

----------------------------------------------------------------------------
\* AIKTargetInstall: the database is found and makes room for the keys, which may fail.
TargetInstalled(db, room) == KeyMapDb \/ (db.installed > 0 /\ room)

\* AIKSourceInstall hooks the protocols of the mode that the console has, unless some
\* are hooked.  The replacement of an event may fail; the protocol keeps its own then.
Wanted(mode) ==
  {p \in Protocols : (mode = "Auto" \/ mode = p) /\ Console[p] # Absent}

Kept(mode, waits) ==
  [p \in Protocols |->
     IF p \notin Wanted(mode) THEN NotHooked
     ELSE [read |-> Console[p].read, wait |-> IF p \in waits THEN Console[p].wait ELSE "null"]]

Shimmed(mode, waits) ==
  [p \in Protocols |->
     IF p \notin Wanted(mode) THEN Console[p]
     ELSE [read |-> "shim", wait |-> IF p \in waits THEN "shim" ELSE Console[p].wait]]

\* AIKSourceUninstall gives the functions back, and the events that were replaced.
Restored(source, console) ==
  [p \in Protocols |->
     IF p \notin Hooked(source) THEN console[p]
     ELSE [read |-> source[p].read,
           wait |-> IF source[p].wait \notin {"null", console[p].wait}
                    THEN source[p].wait ELSE console[p].wait]]

\* AIKInstall.  Room for keys, events and a timer may be missing; what was done before
\* is undone then.
AIKInstall(db, mode, room, waits, timer) ==
  LET target  == TargetInstalled(db, room)
      fresh   == Hooked(Source) = {}
      source  == IF fresh THEN Kept(mode, waits) ELSE Source
      console == IF fresh THEN Shimmed(mode, waits) ELSE Console
      ok      == target /\ Hooked(source) # {} /\ timer
  IN
  /\ KeyMapDb' = ok
  /\ aikDatabase' = [db EXCEPT !.sets = IF ok THEN (IF KeyMapDb THEN @ ELSE @ + 1)
                                        ELSE IF KeyMapDb THEN @ - 1 ELSE @]
  /\ Source' = IF ok THEN source
               ELSE IF target THEN [p \in Protocols |-> NotHooked] ELSE Source
  /\ Console' = IF ok THEN console ELSE IF target THEN Restored(source, console) ELSE Console
  /\ aikTimers' = IF ok THEN aikTimers + 1 ELSE aikTimers

Installed == KeyMapDb'

\* OcAppleGenericInputKeycodeInit: a shim that cannot be installed waits for the
\* database, if it gets the event.
OcAppleGenericInputKeycodeInit(mode, room, waits, timer, event) ==
  /\ ~gAikSelf.started
  /\ AIKInstall(aikDatabase, mode, room, waits, timer)
  /\ gAikSelf' = [gAikSelf EXCEPT !.started = TRUE, !.Mode = mode,
                                  !.KeyMapDbArriveEvent = ~Installed /\ event]

\* Mutant: the shim goes on waiting for the database when it has it.
AIKProtocolArriveHandlerWaits(room, waits, timer) ==
  LET db == [aikDatabase EXCEPT !.installed = @ + 1] IN
  /\ db.installed <= AikDatabases
  /\ IF gAikSelf.KeyMapDbArriveEvent /\ ~gAikSelf.OurJobIsDone
     THEN AIKInstall(db, gAikSelf.Mode, room, waits, timer)
     ELSE aikDatabase' = db /\ UNCHANGED <<Source, KeyMapDb, Console, aikTimers>>
  /\ UNCHANGED gAikSelf

\* The database is installed, and AIKProtocolArriveHandler told if it waits for that.
AIKProtocolArriveHandler(room, waits, timer) ==
  LET db == [aikDatabase EXCEPT !.installed = @ + 1] IN
  /\ db.installed <= AikDatabases
  /\ IF gAikSelf.KeyMapDbArriveEvent /\ ~gAikSelf.OurJobIsDone
     THEN /\ AIKInstall(db, gAikSelf.Mode, room, waits, timer)
          /\ gAikSelf' = [gAikSelf EXCEPT !.KeyMapDbArriveEvent = ~Installed]
     ELSE aikDatabase' = db /\ UNCHANGED <<gAikSelf, Source, KeyMapDb, Console, aikTimers>>

\* A keyboard protocol appears on the console.
ConsoleArrives(p) ==
  /\ Console[p] = Absent /\ Console' = [Console EXCEPT ![p] = Firmware]
  /\ UNCHANGED <<gAikSelf, Source, KeyMapDb, aikDatabase, aikTimers>>

\* AIKPollKeyboardHandler begins, and ends.  Only the firmware runs in between.
PollBegins ==
  /\ aikTimers > 0 /\ ~gAikSelf.OurJobIsDone
  /\ gAikSelf' = [gAikSelf EXCEPT !.InPollKeyboardEvent = TRUE]
  /\ UNCHANGED <<Source, KeyMapDb, Console, aikDatabase, aikTimers>>

PollEnds ==
  /\ gAikSelf.InPollKeyboardEvent
  /\ gAikSelf' = [gAikSelf EXCEPT !.InPollKeyboardEvent = FALSE]
  /\ UNCHANGED <<Source, KeyMapDb, Console, aikDatabase, aikTimers>>

\* AIKUninstall: the last timer is cancelled and everything given back.
\* DisconnectController may take the protocols from the console.
OcAppleGenericInputKeycodeExit(gone) ==
  /\ gAikSelf.started /\ ~gAikSelf.OurJobIsDone
  /\ gAikSelf' = [gAikSelf EXCEPT !.OurJobIsDone = TRUE, !.KeyMapDbArriveEvent = FALSE]
  /\ aikTimers' = IF aikTimers > 0 THEN aikTimers - 1 ELSE 0
  /\ Source' = [p \in Protocols |-> NotHooked] /\ KeyMapDb' = FALSE
  /\ LET restored == Restored(Source, Console)
     IN  Console' = [p \in Protocols |->
                       IF p \in gone /\ Hooked(Source) # {} THEN Absent ELSE restored[p]]
  /\ aikDatabase' = [aikDatabase EXCEPT !.sets = IF KeyMapDb THEN @ - 1 ELSE @]

AikNext ==
  \/ /\ ~gAikSelf.InPollKeyboardEvent
     /\ \/ \E mode \in Protocols \cup {"Auto"}, room, timer, event \in BOOLEAN,
             waits \in SUBSET Protocols :
             OcAppleGenericInputKeycodeInit(mode, room, waits, timer, event)
        \/ \E room, timer \in BOOLEAN, waits \in SUBSET Protocols :
             AIKProtocolArriveHandler(room, waits, timer)
        \/ \E p \in Protocols : ConsoleArrives(p)
        \/ PollBegins
        \/ \E gone \in SUBSET Protocols : OcAppleGenericInputKeycodeExit(gone)
  \/ PollEnds
  \/ gAikSelf.OurJobIsDone /\ UNCHANGED aikVars   \* nothing more is asked of it

AikSpec == AikInit /\ [][AikNext]_aikVars

----------------------------------------------------------------------------
\* Where the key of a read through the protocol comes from (AIKShim.c): the ring of the
\* shim, what it kept of the firmware, or nowhere once the shim is done.
ReadFrom(p) ==
  IF Console[p].read # "shim" THEN Console[p].read
  ELSE IF gAikSelf.OurJobIsDone THEN "refused"
  ELSE IF p \in Hooked(Source) /\ ~gAikSelf.InPollKeyboardEvent THEN "ring"
  ELSE Source[p].read

\* Whatever is missing, late or installed again, the shim is there as a whole or not at
\* all: one timer, the database with one set of its keys, and hooks that kept the
\* firmware's own functions.  Reads get keys from the ring exactly when something fills
\* it, and from the firmware during a poll and after the exit (AIK.c:154-268,
\* AIKSource.c:57-212, AIKShim.c:22-198).
ShimWholeOrGone ==
  LET on == Hooked(Source) # {} IN
  /\ KeyMapDb = on /\ aikTimers = (IF on THEN 1 ELSE 0)
  /\ aikDatabase.sets = (IF on THEN 1 ELSE 0)
  /\ gAikSelf.KeyMapDbArriveEvent => ~on
  /\ \A p \in Protocols :
       /\ Console[p] # Absent =>
            ReadFrom(p) = IF p \in Hooked(Source) /\ ~gAikSelf.InPollKeyboardEvent
                          THEN "ring" ELSE "firmware"
       /\ Console[p].wait = "shim" => p \in Hooked(Source) /\ Source[p].wait = "firmware"
=============================================================================
