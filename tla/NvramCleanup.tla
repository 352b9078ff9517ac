--------------------------- MODULE NvramCleanup ----------------------------
(***************************************************************************)
(* The NVRAM cleanup of the boot menu (OcBootManagementLib/                *)
(* VariableManagement.c, DeleteVariables): it enumerates all variables,    *)
(* deletes those it may, and enumerates from the start again after every   *)
(* deletion, for a firmware need not go on after a variable that is gone.  *)
(*                                                                         *)
(* Restarting, reading a name and deleting are one turn of its loop, and   *)
(* one action.  The firmware may fail, refuse a deletion, or not find what *)
(* it has just named.                                                      *)
(***************************************************************************)
EXTENDS Naturals, Sequences, SequencesExt, FiniteSetsExt

CONSTANTS
  Deletable, Kept,            \* variables IsDeletableVariable accepts and does not
  Refused,                    \* variables the firmware does not let go
  Unfound,                    \* variables the firmware names and cannot find
  LongName,                   \* variables whose name needs a larger buffer
  MaxFaults                   \* bound: failures of the firmware's enumeration

Variable == Deletable \cup Kept
Start == "empty"              \* the name an enumeration starts from

ASSUME NvramCleanupAssumption ==
  /\ IsFiniteSet(Variable) /\ Deletable \cap Kept = {} /\ Start \notin Variable
  /\ Refused \cup Unfound \subseteq Variable /\ Refused \cap Unfound = {}
  /\ LongName \subseteq Variable /\ MaxFaults \in Nat

VARIABLES
  store,            \* the firmware's variables, in the order it enumerates them
  Buffer,           \* the name in the buffer
  large,            \* the buffer has grown
  RequestedSize,    \* a larger buffer is wanted
  Restart, CriticalFailure,
  outcome,          \* how the loop ended
  faults            \* failures of the enumeration, for the bound

vars == <<store, Buffer, large, RequestedSize, Restart, CriticalFailure, outcome, faults>>

Init ==
  /\ \E present \in SUBSET Variable : store \in SetToSeqs(present)
  /\ Buffer = Start /\ large = FALSE /\ RequestedSize = FALSE
  /\ Restart = TRUE /\ CriticalFailure = FALSE
  /\ outcome = "none" /\ faults = 0

----------------------------------------------------------------------------
Leave(how) ==
  outcome' = how /\ UNCHANGED <<store, Buffer, RequestedSize, CriticalFailure, faults>>

\* The place of the enumeration: 0 at its start, and for a variable that is gone the
\* length of the list, at whose end a firmware reports NOT_FOUND.
Place(name) == IF name = Start THEN 0
               ELSE IF name \in Range(store) THEN CHOOSE i \in DOMAIN store : store[i] = name
               ELSE Len(store)

From == IF Restart THEN Start ELSE Buffer

\* Mutant: the enumeration goes on after what was deleted.
DeletedGoesOn(name) ==
  /\ store' = RemoveAt(store, Place(name))
  /\ Restart' = FALSE /\ Buffer' = name
  /\ UNCHANGED <<RequestedSize, CriticalFailure, outcome, faults>>

\* SetVariable succeeds: start again.
Deleted(name) ==
  /\ store' = RemoveAt(store, Place(name))
  /\ Restart' = TRUE /\ Buffer' = name
  /\ UNCHANGED <<RequestedSize, CriticalFailure, outcome, faults>>

\* The name that was read is deleted, skipped or refused.  The status of a skipped one
\* is also the loop's condition.
Handle(name) ==
  \/ name \in Deletable \ (Refused \cup Unfound) /\ Deleted(name)
  \/ name \in Deletable \cap Unfound /\ Restart' = FALSE /\ Leave("skipped")
  \/ name \in Deletable \cap Refused /\ Restart' = FALSE /\ Leave("refused")
  \/ /\ name \in Kept
     /\ Buffer' = name /\ Restart' = FALSE
     /\ UNCHANGED <<store, RequestedSize, CriticalFailure, outcome, faults>>

\* GetNextVariableName reports BUFFER_TOO_SMALL and the size it needs.
TooSmall ==
  /\ RequestedSize' = TRUE /\ Buffer' = From /\ Restart' = FALSE
  /\ UNCHANGED <<store, CriticalFailure, outcome, faults>>

\* GetNextVariableName fails: the first time the loop goes on from the same name.
Fault ==
  /\ faults < MaxFaults /\ faults' = faults + 1
  /\ Buffer' = From /\ Restart' = FALSE /\ CriticalFailure' = TRUE
  /\ outcome' = IF CriticalFailure THEN "aborted" ELSE outcome
  /\ UNCHANGED <<store, RequestedSize>>

\* The rest of a turn, with a buffer that is large or not.
Enumerate(buffer) ==
  LET place == Place(From)
  IN  \/ /\ place < Len(store)
         /\ IF store[place + 1] \in LongName /\ ~buffer THEN TooSmall
            ELSE Handle(store[place + 1])
      \/ place = Len(store) /\ Restart' = FALSE /\ Leave("end")
      \/ Fault

\* One turn of the loop.
Turn ==
  /\ outcome = "none"
  /\ \/ /\ RequestedSize => large
        /\ Enumerate(large) /\ UNCHANGED large
     \/ /\ RequestedSize /\ ~large
        /\ \/ large' = TRUE /\ Enumerate(TRUE)
           \/ Leave("exhausted") /\ UNCHANGED <<large, Restart>>

Done == outcome # "none" /\ UNCHANGED vars

Next == Turn \/ Done

\* The loop runs.
Spec == Init /\ [][Next]_vars /\ WF_vars(Turn)

----------------------------------------------------------------------------
TypeOK ==
  /\ store \in Seq(Variable) /\ Buffer \in Variable \cup {Start}
  /\ {large, RequestedSize, Restart, CriticalFailure} \subseteq BOOLEAN
  /\ outcome \in {"none", "end", "skipped", "refused", "aborted", "exhausted"}
  /\ faults \in 0 .. MaxFaults

\* A cleanup that came to the end of the list has deleted everything it may, with names
\* of any length and failures on the way (VariableManagement.c:154-236).
CleanupComplete ==
  /\ TypeOK
  /\ outcome = "end" => Range(store) \cap Deletable = {}

\* The cleanup ends, although it starts again after every deletion
\* (VariableManagement.c:202-205, 236).
CleanupEnds == <>(outcome # "none")

\* A variable that is skipped is passed over, and the rest is still deleted
\* (VariableManagement.c:206-213).
SkippedIsPassedOver == outcome = "skipped" => Range(store) \cap (Deletable \ Unfound) = {}
=============================================================================
