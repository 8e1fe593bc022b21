----------------------------- MODULE MCCapture -----------------------------
(* One camera under its stable id, for TLC; s1, s2 are incarnations of its  *)
(* source, so that one may linger while the next is at work.                *)
EXTENDS CaptureControl

CONSTANTS uid, camera

MCDeviceOf == [l \in Locators |-> camera]
MCStableId == [d \in Devices |-> uid]
=============================================================================
