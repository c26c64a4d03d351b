-------------------------- MODULE MCGuiController --------------------------
(***************************************************************************)
(* Model-checking instances of GuiController.                              *)
(***************************************************************************)
EXTENDS GuiController

\* Do not go on after a second Disconnect, where all properties but TypeOK and
\* OneActive promise nothing.
NotDoubled == ~doubled
=============================================================================
