----------------------------- MODULE MCPresence -----------------------------
(***************************************************************************)
(* Small instances of Presence for TLC.                                    *)
(***************************************************************************)
EXTENDS Presence, TLC

ConnectionStates == {"ONLINE", "OFFLINE", "CONNECTION_BROKEN"}

=============================================================================
