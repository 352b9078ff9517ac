--------------------------- MODULE VariableNames ---------------------------
(***************************************************************************)
(* A walk over the names of all variables while boot variables are         *)
(* redirected (FwRuntimeServices/UefiRuntimeServices.c,                    *)
(* WrapGetNextVariableName).  The walk has two parts: variables that are   *)
(* not the firmware's boot variables, as they are, then OpenCore's boot    *)
(* variables under the firmware's GUID.  The wrapper keeps no state: which *)
(* part a call is in follows from the name the caller passes back.         *)
(*                                                                         *)
(* The caller starts with a small buffer and grows it when asked to; other *)
(* variables are deleted while it walks.                                   *)
(***************************************************************************)
EXTENDS Naturals, Sequences, SequencesExt, FiniteSetsExt

CONSTANTS
  BootName, OtherName,        \* names with and without the Boot prefix
  LongName,                   \* the names for which a small buffer is too small
  HugeName,                   \* the names longer than TempName
  MaxStore,                   \* bound: variables stored
  MaxDeleted                  \* bound: variables deleted during a walk

Name == BootName \cup OtherName

VariableNamesAssumption ==
  /\ BootName \cap OtherName = {} /\ HugeName \subseteq OtherName
  /\ LongName \subseteq Name \ HugeName
  /\ MaxStore \in Nat /\ MaxDeleted \in Nat

Guid == {"EfiGlobal", "OcVendor"}
Variable == [guid : Guid, name : Name]
Start == [guid |-> "zero", name |-> "empty"]      \* what a walk starts from

VARIABLES
  store,          \* the firmware's variables, in the order it enumerates them
  name,           \* what the caller passes: the variable returned last, or Start
  large,          \* the size of the caller's buffer
  status,         \* of the last call
  returned,       \* history: the variables returned
  lost,           \* history: the variable the walk had reached was deleted
  deleted         \* number of variables deleted, for the bound

vars == <<store, name, large, status, returned, lost, deleted>>

Final == {"NOT_FOUND", "DEVICE_ERROR", "INVALID_PARAMETER"}

IsEfiBootVar(v) == v.guid = "EfiGlobal" /\ v.name \in BootName
IsOcBootVar(v) == v.guid = "OcVendor" /\ v.name \in BootName

\* Where WrapGetVariable and WrapSetVariable find a variable.
Redirected(v) == IF IsEfiBootVar(v) THEN [v EXCEPT !.guid = "OcVendor"] ELSE v

Init ==
  /\ store \in {s \in UNION {[1 .. k -> Variable] : k \in 0 .. MaxStore} : IsInjective(s)}
  /\ name = Start /\ large = FALSE
  /\ status = "SUCCESS" /\ returned = << >>
  /\ lost = FALSE /\ deleted = 0

----------------------------------------------------------------------------
\* mStoredGetNextVariableName, over and over, is a scan of the variables after v.
Position(v) == IF v = Start THEN 0 ELSE CHOOSE i \in DOMAIN store : store[i] = v
Known(v) == v = Start \/ v \in Range(store)

\* Where the first loop may stop after v; a name that does not fit ends it with an error.
OrdinaryAfter(v) ==
  {i \in DOMAIN store : i > Position(v) /\ ~IsEfiBootVar(store[i])}

\* The second loop; a name that does not fit ends it.
BootAfter(v) ==
  {i \in DOMAIN store : i > Position(v) /\ (IsOcBootVar(store[i]) \/ store[i].name \in HugeName)}

\* Mutant: the size the caller needs is not told.
ReturnUntold(v) ==
  \/ /\ v.name \notin LongName \/ large
     /\ name' = v /\ returned' = Append(returned, v)
     /\ status' = "SUCCESS" /\ UNCHANGED large
  \/ /\ v.name \in LongName /\ ~large
     /\ status' = "BUFFER_TOO_SMALL" /\ UNCHANGED <<name, large, returned>>

\* Hand v to the caller, or ask for a larger buffer.
Return(v) ==
  \/ /\ v.name \notin LongName \/ large
     /\ name' = v /\ returned' = Append(returned, v)
     /\ status' = "SUCCESS" /\ UNCHANGED large
  \/ /\ v.name \in LongName /\ ~large
     /\ status' = "BUFFER_TOO_SMALL" /\ large' = TRUE
     /\ UNCHANGED <<name, returned>>

Report(error) == status' = error /\ UNCHANGED <<name, large, returned>>

\* OpenCore's boot variables are shown as the firmware's.
Shown(v) == [v EXCEPT !.guid = "EfiGlobal"]

\* The second loop, from the beginning or from a variable of OpenCore's.  Any error
\* of the firmware is the end.
NextBootVariable(v) ==
  LET after == BootAfter(v)
  IN  IF Known(v) /\ after # {} /\ store[Min(after)].name \notin HugeName
      THEN Return(Shown(store[Min(after)]))
      ELSE Report("NOT_FOUND")

\* Mutant: the walk of boot variables goes on under the caller's GUID.
ContinueBootVariablesAsGiven(v) == NextBootVariable(v)

\* A walk that shows the firmware's boot variables goes on under OpenCore's GUID.
ContinueBootVariables(v) == NextBootVariable(Redirected(v))

\* The first loop.  For a variable that is gone a firmware reports NOT_FOUND, or, from
\* UEFI 2.7 on, INVALID_PARAMETER.
NextOrdinaryVariable(v) ==
  LET after == OrdinaryAfter(v)
  IN  \/ ~Known(v) /\ Report("INVALID_PARAMETER")
      \/ ~Known(v) /\ NextBootVariable(Start)
      \/ /\ Known(v) /\ after # {}
         /\ IF store[Min(after)].name \in HugeName THEN Report("DEVICE_ERROR")
            ELSE Return(store[Min(after)])
      \/ Known(v) /\ after = {} /\ NextBootVariable(Start)

WrapGetNextVariableName ==
  /\ status \notin Final
  /\ \/ IsEfiBootVar(name) /\ ContinueBootVariables(name)
     \/ ~IsEfiBootVar(name) /\ NextOrdinaryVariable(name)
  /\ UNCHANGED <<store, lost, deleted>>

\* Somebody else deletes a variable between two calls.
Delete ==
  /\ deleted < MaxDeleted /\ deleted' = deleted + 1
  /\ \E i \in DOMAIN store :
       /\ store' = RemoveAt(store, i)
       /\ lost' = (lost \/ store[i] = Redirected(name))
  /\ UNCHANGED <<name, large, status, returned>>

Done == status \in Final /\ UNCHANGED vars

Next == WrapGetNextVariableName \/ Delete \/ Done

\* The caller walks on until it is told to stop.
Spec == Init /\ [][Next]_vars /\ WF_vars(WrapGetNextVariableName)

----------------------------------------------------------------------------
TypeOK ==
  /\ store \in Seq(Variable) /\ returned \in Seq(Variable)
  /\ name \in Variable \cup {Start} /\ large \in BOOLEAN /\ lost \in BOOLEAN
  /\ status \in {"SUCCESS", "BUFFER_TOO_SMALL"} \cup Final
  /\ deleted \in 0 .. MaxDeleted

\* No walk returns a variable twice, whatever is deleted meanwhile: the firmware's boot
\* variables are told from OpenCore's under the same GUID (UefiRuntimeServices.c:410-499).
NoneTwice == IsInjective(returned)

\* What a walk returned is a variable that a read finds, until it is deleted
\* (UefiRuntimeServices.c:327, 424-451, 509-522).
ReturnedReadable == \A v \in Range(returned) : deleted = 0 => Redirected(v) \in Range(store)

\* A walk that ends returned every variable a read finds, unless the one it had reached
\* was deleted under it (UefiRuntimeServices.c:463-499).
WalkComplete ==
  status = "NOT_FOUND" /\ ~lost =>
    \A v \in Variable : Redirected(v) \in Range(store) => v \in Range(returned)

\* Every walk ends, also one that has to ask for a larger buffer
\* (UefiRuntimeServices.c:440-446, 525-531).
WalkEnds == <>(status \in Final)
=============================================================================
