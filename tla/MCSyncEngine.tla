----------------------------- MODULE MCSyncEngine -----------------------------
(***************************************************************************)
(* Small instances of the sync engine for TLC.                             *)
(***************************************************************************)
EXTENDS SyncProperties

MCOne == {1}
MCTwo == {1, 2}
===============================================================================
