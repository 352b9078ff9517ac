---------------------------- MODULE MCKeyboards ----------------------------
(***************************************************************************)
(* The two ends of a key's way side by side for TLC: the driver of a USB   *)
(* keyboard, and the handler that turns keys of the key map into events.   *)
(* The key map between them has a model of its own.  A behaviour runs one  *)
(* of the two, chosen at its start, and leaves the other alone.  The keys  *)
(* of the handler are alike (KeySymmetry); no state of the driver, which   *)
(* the liveness property is about, contains one.                           *)
(***************************************************************************)
EXTENDS KeyHandler, MCUsbKeyboard

VARIABLE focus

MCVars == <<focus, vars, usbVars>>

MCInit == focus \in {"handler", "usb"} /\ Init /\ UsbInit

MCNext ==
  \/ focus = "handler" /\ Next /\ UNCHANGED <<focus, usbVars>>
  \/ focus = "usb" /\ UsbNext /\ UNCHANGED <<focus, vars>>

\* The recovery's timer goes off.
MCSpec ==
  /\ MCInit /\ [][MCNext]_MCVars
  /\ WF_MCVars(focus = "usb" /\ UsbRecovers /\ UNCHANGED <<focus, vars>>)
=============================================================================
