------------------------------ MODULE MCDaemon -------------------------------
(* Bounds for TLC: a cadence of two runs, the tightest one that NoFalseAlarm allows. *)
EXTENDS Daemon

MCCron == "cron"
MCLoop == "daemon"
===============================================================================
