---------------------------- MODULE MCAgentParts ----------------------------
(***************************************************************************)
(* TLC instance of the parts of the PC's programs that keep their state to *)
(* themselves: each behaviour is one of one part while the others are at   *)
(* rest.                                                                   *)
(*                                                                         *)
(* PairedList: the running agent, the command "pair" and a command on one  *)
(* data directory.  Elsewhere queues hold one or two things, so that they  *)
(* fill up; the ladder has three rungs, so that one can be left either     *)
(* way; and there are two of what is told apart (clients, texts, screens). *)
(***************************************************************************)
EXTENDS PairedList, Quality, Cursor, RvClient, AgentPairing, Clipboard, Wake, Video,
        Displays, TLC

CONSTANTS c1, c2, run, pair, command

\* Only PairedList speaks of these devices.
Symmetry == Permutations({c1, c2})

MCLadder == <<[minBitrate |-> 60, scale |-> 1000],
              [minBitrate |-> 30, scale |-> 600],
              [minBitrate |-> 10, scale |-> 300]>>

VARIABLE part  \* the part that works

mcVars == <<part, vars, qualityVars, cursorVars, rvVars, pairVars, clipVars, wakeVars,
            videoVars, displayVars>>

Parts == {"list", "quality", "cursor", "link", "pairing", "clipboard", "wake", "video",
          "displays"}

MCInit ==
    /\ part \in Parts
    /\ Init /\ QualityInit /\ CursorInit /\ RvInit /\ PairingInit
    /\ ClipboardInit /\ WakeInit /\ VideoInit /\ DisplaysInit
    \* A part at rest starts in one way only.
    /\ part # "quality" => ~rescales /\ q.fps = 60 /\ s.preset = "balanced"
    /\ part # "wake" => minutes = 1 /\ ~nic /\ ~standby
    /\ part # "displays" => displays = [i \in {0} |-> CHOOSE place \in Places : TRUE]

MCNext ==
    /\ UNCHANGED part
    /\ IF part = "list" THEN Next ELSE UNCHANGED vars
    /\ IF part = "quality" THEN QualityNext ELSE UNCHANGED qualityVars
    /\ IF part = "cursor" THEN CursorNext ELSE UNCHANGED cursorVars
    /\ IF part = "link" THEN RvNext ELSE UNCHANGED rvVars
    /\ IF part = "pairing" THEN PairingNext ELSE UNCHANGED pairVars
    /\ IF part = "clipboard" THEN ClipboardNext ELSE UNCHANGED clipVars
    /\ IF part = "wake" THEN WakeNext ELSE UNCHANGED wakeVars
    /\ IF part = "video" THEN VideoNext ELSE UNCHANGED videoVars
    /\ IF part = "displays" THEN DisplaysNext ELSE UNCHANGED displayVars

MCSpec == MCInit /\ [][MCNext]_mcVars

-----------------------------------------------------------------------------
\* Every variable of the parts has its type: queues and lists keep within their
\* limits, and what is half done is always something the code can go on from.
TypesOK ==
    /\ TypeOK /\ QualityTypeOK /\ CursorTypeOK /\ RvTypeOK /\ PairingTypeOK
    /\ ClipboardTypeOK /\ WakeTypeOK /\ VideoTypeOK /\ DisplaysTypeOK
=============================================================================
