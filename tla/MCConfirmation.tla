---------------------------- MODULE MCConfirmation ----------------------------
(* Two previews of two actions, two handlers at once, a window of two ticks.  *)
EXTENDS Confirmation
==============================================================================
