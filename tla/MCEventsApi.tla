---------------------------- MODULE MCEventsApi -----------------------------
(* TLC's instance of EventsApi: arguments on both sides of the boundaries  *)
(* of getRange() and setMaxSize().                                         *)
EXTENDS EventsApi

MCSizes == {0, 1}
MCOffsets == {-1, 0, 1}
MCCounts == {0, 1}
=============================================================================
