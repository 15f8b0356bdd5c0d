-------------------------- MODULE MCScanScheduler --------------------------
(* Instances of ScanScheduler for TLC: each campaign is a mix of operations *)
(* that can get in each other's way.                                       *)
EXTENDS ScanScheduler

\* In turn: what users do to the schedule and to runs; a project that goes under a
\* save; one that leaves automatic updates; every catch-up; what takes the service
\* away; what stops the worker; a save crossing the resume handler.
MCCampaigns ==
  { {"save", "pause", "manual", "cancel"},
    {"save", "manual", "delete"},
    {"save", "cars", "patch"},
    {"tray", "resume", "manual", "crash"},
    {"license", "resume", "shutdown", "cancel", "crash"},
    {"maintenance", "resume", "manual", "delete", "crash"},
    {"save", "resume"} }
=============================================================================
