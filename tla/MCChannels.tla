----------------------------- MODULE MCChannels -----------------------------
(***************************************************************************)
(* Tasks and channels together, for TLC.                                   *)
(***************************************************************************)
EXTENDS Channels
=============================================================================
