---------------------------- MODULE MCTaskScheduler ----------------------------
(* Instances of TaskScheduler for TLC: two tasks of one agent, of which one  *)
(* is a watcher with a handler.                                              *)
EXTENDS TaskScheduler

CONSTANTS watch, brief, w, h

MCAgentOf == [t \in Task |-> w]
MCHandler == [t \in Task |-> IF t = watch THEN h ELSE None]
=============================================================================
