--------------------------- MODULE MCUsbKeyboard ---------------------------
(* UsbKeyboard with its inputs for TLC. *)
EXTENDS UsbKeyboard

CONSTANTS LeftCtrl, LeftShift, RightShift
MCUsbModifiers == <<LeftCtrl, LeftShift, RightShift>>
MCUsbStale == [KeyCode : {LeftCtrl}, Down : {TRUE}, with : {{}}]
=============================================================================
