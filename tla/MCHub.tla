------------------------------- MODULE MCHub -------------------------------
(* Small hubs: connections are named for the device they belong to.  Each  *)
(* scenario opens a few of them and exercises some of the hub's duties, so *)
(* that one run takes in all of them.                                      *)
EXTENDS Hub, TLC

CONSTANTS pc, pc2, book, phone,               \* devices
          pcA, pcB, pc2A, bookA, bookB, phoneA  \* their connections

DeviceOf(c) ==
    IF c \in {pcA, pcB} THEN pc
    ELSE IF c = pc2A THEN pc2
    ELSE IF c = phoneA THEN phone ELSE book

MCDev == [c \in Conns |-> DeviceOf(c)]

S(conns, messages) == [conns |-> conns, messages |-> messages]

SafetyScenarios ==
    { S({pcA, bookA}, {"register", "connect", "signal", "sessionEnd", "drop"}),
      S({pcA, bookA, bookB}, {"restored", "connect", "signal"}),
      S({pcA, pcB, bookA}, {"restored", "connect", "drop"}),
      S({pcA, bookA, phoneA}, {"register", "update", "anyList", "drop"}),
      S({pcA, bookA, phoneA}, {"restored", "register", "wake"}),
      S({pcA, bookA}, {"register", "wake", "forget", "drop"}),
      S({pcA, pc2A, bookA}, {"pair"}),
      S({pcA, pcB, bookA}, {"pair"}) }

LiveScenarios ==
    { S({pcA, bookA}, {"restored", "connect", "drop"}),
      S({bookA, bookB}, {"drop"}),
      S({pcA, pcB}, {"register", "drop"}) }

Returning == { S({pcA, bookA}, {"restored", "register", "wake"}) }

Repairing == { S({pcA, pcB}, {"pair"}) }
=============================================================================
