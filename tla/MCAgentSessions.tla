-------------------------- MODULE MCAgentSessions --------------------------
(***************************************************************************)
(* TLC instances of AgentSessions: two requests, of one device or of two.  *)
(* A scenario says what else may happen in a behaviour, so that no         *)
(* behaviour mixes everything; one run explores all scenarios.             *)
(***************************************************************************)
EXTENDS AgentSessions

CONSTANTS c1, c2, s1, s2

Two == [s \in Sids |-> IF s = s1 THEN c1 ELSE c2]
Same == [s \in Sids |-> c1]

Alone(may) == [sids |-> {s1}, asker |-> Two, may |-> may]
Rivals(may) == [sids |-> Sids, asker |-> Two, may |-> may]
Again(may) == [sids |-> Sids, asker |-> Same, may |-> may]

AllScenarios ==
    {Alone({"drop", "disconnect", "bye", "capture"}),
     Alone({"drop", "answer", "interrupt", "timeout"}),
     Alone({"forget", "answer", "capture", "timeout"}),
     Rivals({"disconnect"}), Rivals({"capture"}), Rivals({"multi"}),
     Again({"drop"}), Again({"capture"})}

\* Two devices, and a screen that may refuse to be captured.
CaptureScenarios == {Rivals({"capture"})}

\* Two devices, and a user who wants the PC back.
DisconnectScenarios == {Rivals({"disconnect"})}
=============================================================================
