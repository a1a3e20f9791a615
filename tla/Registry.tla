------------------------------ MODULE Registry ------------------------------
(***************************************************************************)
(* The server's device registry, internal/rendezvous/registry/registry.go, *)
(* with the end of run() in server/cmd/allshare-server/main.go: a map of   *)
(* devices under a lock, and the goroutine that copies it to devices.json. *)
(*                                                                         *)
(* Flush takes a copy and clears the mark of change under the lock, and    *)
(* writes outside it; handlers go on changing the map meanwhile.  At a     *)
(* shutdown run() calls Flush too, beside the goroutine, and handlers are  *)
(* still running: Shutdown does not wait for websockets.  A device's name, *)
(* versions and times are left out: LastSeen only orders what ForClient    *)
(* returns.                                                                *)
(***************************************************************************)
EXTENDS Integers, FiniteSets

CONSTANTS Devices, Clients, LANKeys,
          MaxPaired,    \* MaxPairedClients
          MaxChanges,   \* bound: changes of the map
          MaxFailures,  \* bound: writes that fail
          MaxStarts     \* bound: starts of the server

ASSUME RegistryAssumption ==
    /\ IsFiniteSet(Clients)
    /\ MaxPaired \in Nat /\ MaxChanges \in Nat /\ MaxFailures \in Nat /\ MaxStarts \in Nat

Writers == {"flushLoop", "run"}

NoDevice == [known |-> FALSE, paired |-> {}, lan |-> {}]
Records == [known : BOOLEAN, paired : SUBSET Clients, lan : SUBSET LANKeys]
Nothing == [d \in Devices |-> NoDevice]

VARIABLES
    devices,  \* Registry.devices
    dirty,    \* Registry.dirty
    token,    \* a token is in flushCh
    file,     \* the devices in devices.json
    writing,  \* the copies each caller of Flush is writing: none or one
    server,   \* "up", "stopping", "closing", "closed" or "down"
    changes, failures, starts, \* counters of the bounds
    lost,     \* history: the last write of the newest copy failed
    overtaken \* history: both callers have been writing at the same time

registryVars == <<devices, dirty, token, file, writing, server,
                  changes, failures, starts, lost, overtaken>>

RegistryTypeOK ==
    /\ devices \in [Devices -> Records] /\ file \in [Devices -> Records]
    /\ dirty \in BOOLEAN /\ token \in BOOLEAN
    /\ writing \in [Writers -> SUBSET [Devices -> Records]]
    /\ server \in {"up", "stopping", "closing", "closed", "down"}
    /\ changes \in 0..MaxChanges /\ failures \in 0..MaxFailures /\ starts \in 0..MaxStarts
    /\ lost \in BOOLEAN /\ overtaken \in BOOLEAN

RegistryInit ==
    /\ devices = Nothing /\ file = Nothing
    /\ dirty = FALSE /\ token = FALSE
    /\ writing = [w \in Writers |-> {}]
    /\ server = "down"
    /\ changes = 0 /\ failures = 0 /\ starts = 0
    /\ lost = FALSE /\ overtaken = FALSE

Running == server # "down"

-----------------------------------------------------------------------------
\* Reading.

\* The devices a client may be shown, and the neighbours that can wake a device.
ForClient(all, c) == {d \in Devices : all[d].known /\ c \in all[d].paired}
PeersOnLAN(all, d) ==
    {e \in Devices \ {d} : all[e].known /\ all[e].lan # {} /\ all[e].lan = all[d].lan}

\* What callers can learn from the registry.
Answers(all) ==
    [shown |-> [c \in Clients |-> ForClient(all, c)],
     peers |-> [d \in Devices |-> IF all[d].known THEN PeersOnLAN(all, d) ELSE {}]]

-----------------------------------------------------------------------------
\* Changing.

\* Mutant: a change that only touches the wake capability is not marked.
MarkDirty_TokenOnly(new) ==
    /\ Running /\ changes < MaxChanges
    /\ devices' = new
    /\ token' = TRUE
    /\ changes' = changes + 1
    /\ lost' = FALSE
    /\ UNCHANGED <<dirty, file, writing, server, failures, starts, overtaken>>

\* markDirty, at the end of a change that is made under the lock.
MarkDirty(new) ==
    /\ Running /\ changes < MaxChanges
    /\ devices' = new
    /\ dirty' = TRUE /\ token' = TRUE
    /\ changes' = changes + 1
    /\ lost' = FALSE
    /\ UNCHANGED <<file, writing, server, failures, starts, overtaken>>

\* A registration: it replaces the list, cut at the limit (any part, as the
\* order of a list is not modelled), and the address the server saw it come from.
Upsert(d, paired, lan) ==
    /\ \E kept \in SUBSET paired :
          /\ Cardinality(kept) = (IF Cardinality(paired) > MaxPaired THEN MaxPaired
                                                                      ELSE Cardinality(paired))
          /\ MarkDirty([devices EXCEPT ![d] = [known |-> TRUE, paired |-> kept, lan |-> {lan}]])

\* A device was seen: only its time changes.
Touch(d) == devices[d].known /\ MarkDirty(devices)

UpdateWake(d, lan) == devices[d].known /\ MarkDirty([devices EXCEPT ![d].lan = {lan}])

\* A client forgets a device.  It is written even when it was not on the list.
Forget(d, c) == devices[d].known /\ MarkDirty([devices EXCEPT ![d].paired = @ \ {c}])

\* The storage is lost and the service goes on.
Reset == MarkDirty(Nothing)

-----------------------------------------------------------------------------
\* Flush, by the goroutine or by run().

\* Under the lock: nothing to do, or a copy is taken and the mark cleared.
TakeCopy(w) ==
    IF dirty
    THEN /\ writing' = [writing EXCEPT ![w] = {devices}]
         /\ dirty' = FALSE
         /\ overtaken' = (overtaken \/ \E other \in Writers \ {w} : writing[other] # {})
    ELSE UNCHANGED <<writing, dirty, overtaken>>

\* Mutant: the mark is left to be cleared after the write, whatever changed meanwhile.
Installed_ClearsMark(w) ==
    /\ Running
    /\ \E copy \in writing[w] : file' = copy
    /\ writing' = [writing EXCEPT ![w] = {}]
    /\ dirty' = FALSE
    /\ UNCHANGED <<devices, token, server, changes, failures, starts, lost, overtaken>>

\* The temporary file has been renamed.
Installed(w) ==
    /\ Running
    /\ \E copy \in writing[w] : file' = copy
    /\ writing' = [writing EXCEPT ![w] = {}]
    /\ UNCHANGED <<devices, dirty, token, server, changes, failures, starts, lost, overtaken>>

\* An error: the file is as it was, and the mark stays cleared.
WriteFails(w) ==
    /\ Running /\ failures < MaxFailures
    /\ writing[w] # {}
    /\ writing' = [writing EXCEPT ![w] = {}]
    /\ failures' = failures + 1
    /\ lost' = (lost \/ (devices \in writing[w] /\ ~dirty))
    /\ UNCHANGED <<devices, dirty, token, file, server, changes, starts, overtaken>>

\* flushLoop waits; a token arrives, or the ticker finds a change.
Listening == server \in {"up", "stopping", "closing"}

LoopByToken ==
    /\ Listening /\ writing["flushLoop"] = {}
    /\ token /\ token' = FALSE
    /\ TakeCopy("flushLoop")
    /\ UNCHANGED <<devices, file, server, changes, failures, starts, lost>>

LoopByTicker ==
    /\ Listening /\ writing["flushLoop"] = {}
    /\ dirty
    /\ TakeCopy("flushLoop")
    /\ UNCHANGED <<devices, token, file, server, changes, failures, starts, lost>>

-----------------------------------------------------------------------------
\* Life of the process.

\* Open.
Open ==
    /\ server = "down" /\ starts < MaxStarts
    /\ server' = "up" /\ starts' = starts + 1
    /\ devices' = file
    /\ dirty' = FALSE /\ token' = FALSE
    /\ lost' = FALSE /\ overtaken' = FALSE
    /\ UNCHANGED <<file, writing, changes, failures>>

\* A signal: the listener is closed, and run() calls Flush.
Shutdown ==
    /\ server = "up"
    /\ server' = "stopping"
    /\ TakeCopy("run")
    /\ UNCHANGED <<devices, token, file, changes, failures, starts, lost>>

\* run() returns, after its Flush or because the listener failed, and the
\* deferred Close tells the goroutine.
CloseRegistry ==
    /\ server = "up" \/ (server = "stopping" /\ writing["run"] = {})
    /\ server' = "closing"
    /\ UNCHANGED <<devices, dirty, token, file, writing, changes, failures, starts, lost, overtaken>>

\* The goroutine has seen closeCh: its last Flush.
LoopByClose ==
    /\ server = "closing" /\ writing["flushLoop"] = {}
    /\ server' = "closed"
    /\ TakeCopy("flushLoop")
    /\ UNCHANGED <<devices, token, file, changes, failures, starts, lost>>

Stopped ==
    /\ Running
    /\ server' = "down"
    /\ writing' = [w \in Writers |-> {}]
    /\ dirty' = FALSE /\ token' = FALSE
    /\ devices' = Nothing
    /\ UNCHANGED <<file, changes, failures, starts, lost, overtaken>>

\* The goroutine has returned and the process exits.
Exit == server = "closed" /\ writing["flushLoop"] = {} /\ Stopped

\* The process is killed.
Crash == Running /\ Stopped

RegistryNext ==
    \/ Open \/ Shutdown \/ CloseRegistry \/ LoopByClose \/ Exit \/ Crash
    \/ LoopByToken \/ LoopByTicker \/ Reset
    \/ \E w \in Writers : Installed(w) \/ WriteFails(w)
    \/ \E d \in Devices :
          \/ Touch(d)
          \/ \E l \in LANKeys : UpdateWake(d, l) \/ \E paired \in SUBSET Clients : Upsert(d, paired, l)
          \/ \E c \in Clients : Forget(d, c)

RegistryFairness ==
    /\ WF_registryVars(LoopByToken \/ LoopByTicker)
    /\ WF_registryVars(LoopByClose) /\ WF_registryVars(Exit)
    /\ \A w \in Writers : WF_registryVars(Installed(w) \/ WriteFails(w))

RegistrySpec == RegistryInit /\ [][RegistryNext]_registryVars /\ RegistryFairness

-----------------------------------------------------------------------------
\* The newest state of the registry is on disk, being written, or marked for
\* the next write, whatever changes between a copy and the end of its write
\* (registry.go:156-171), until a write of the newest state fails (the mark is
\* cleared before the write) or run() and the goroutine write side by side.
NothingForgotten ==
    Running /\ ~lost /\ ~overtaken =>
        file = devices \/ dirty \/ \E w \in Writers : devices \in writing[w]

\* What a client is shown, and which neighbours can wake a device, is in the end
\* the same as it would be after a restart, with the same exceptions: the flush
\* loop never sleeps on a change (registry.go:122-142).
SameAfterRestart ==
    <>[](Running /\ ~lost /\ ~overtaken => Answers(file) = Answers(devices))
=============================================================================
