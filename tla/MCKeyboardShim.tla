--------------------------- MODULE MCKeyboardShim ---------------------------
(***************************************************************************)
(* The models behind the keyboard shim side by side for TLC.  A behaviour  *)
(* runs one of them, chosen at its start, and leaves the others alone, so  *)
(* that their states add up and each is explored to its end.               *)
(***************************************************************************)
EXTENDS AIKData, AIKTarget, AIK, KeyMap

VARIABLES
  focus,
  pKeyBuffer, pKeyBufferHead, pKeyBufferTail, pKeyBufferSize, pKeyData, ppc, unread, interfered

Preempted == INSTANCE AIKDataPreempted WITH
  KeyBuffer <- pKeyBuffer, KeyBufferHead <- pKeyBufferHead, KeyBufferTail <- pKeyBufferTail,
  KeyBufferSize <- pKeyBufferSize, KeyData <- pKeyData, pc <- ppc

PreemptedVars == <<pKeyBuffer, pKeyBufferHead, pKeyBufferTail, pKeyBufferSize, pKeyData, ppc,
                   unread, interfered>>
MCVars == <<focus, vars, PreemptedVars, targetVars, mapVars, aikVars>>

MCInit ==
  /\ focus \in {"ring", "preempted", "target", "map", "lifecycle"}
  /\ Init /\ Preempted!PInit /\ TargetInit /\ MapInit
  /\ AikInit

MCNext ==
  \/ /\ focus = "ring" /\ Next
     /\ UNCHANGED <<focus, PreemptedVars, targetVars, mapVars, aikVars>>
  \/ /\ focus = "preempted" /\ Preempted!PNext
     /\ UNCHANGED <<focus, vars, targetVars, mapVars, aikVars>>
  \/ /\ focus = "target" /\ TargetNext
     /\ UNCHANGED <<focus, vars, PreemptedVars, mapVars, aikVars>>
  \/ /\ focus = "map" /\ MapNext
     /\ UNCHANGED <<focus, vars, PreemptedVars, targetVars, aikVars>>
  \/ /\ focus = "lifecycle" /\ AikNext
     /\ UNCHANGED <<focus, vars, PreemptedVars, targetVars, mapVars>>

\* The poll timer is periodic and its notification always runs to its end.
MCSpec ==
  /\ MCInit /\ [][MCNext]_MCVars
  /\ WF_MCVars(/\ focus = "target"
                /\ \/ AIKTargetRefresh \/ RefreshKey
                   \/ RefreshModifiers \/ AIKTargetSubmit
                /\ UNCHANGED <<focus, vars, PreemptedVars, mapVars, aikVars>>)

----------------------------------------------------------------------------
\* A preempted read of the ring loses, repeats or reorders nothing unless the timer
\* found the ring full meanwhile (AIKData.c:43-53).
HarmlessUnlessFull == Preempted!HarmlessUnlessFull

=============================================================================
