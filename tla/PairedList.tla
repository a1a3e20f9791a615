----------------------------- MODULE PairedList -----------------------------
(***************************************************************************)
(* The list of trusted devices, internal/config/config.go: config.json on  *)
(* disk, and the copy each process of agent/cmd/allshare-agent loads when  *)
(* it starts and never reads again.                                        *)
(*                                                                         *)
(* The running agent ("run") and the command "pair" are full agents; the   *)
(* commands "forget" and "config" load the file, change it and save.  A    *)
(* change is made in memory and then written, both under Config.mu, so one *)
(* process writes one change at a time; nothing keeps two processes apart. *)
(* The file is replaced by a rename: it is the old one or the new one.     *)
(***************************************************************************)
EXTENDS Integers, FiniteSets

CONSTANTS Clients,     \* devices
          Agents,      \* processes that run an agent
          Commands,    \* processes that run "forget" or "config"
          MaxClients,  \* maxClients in AddPairedClient
          NoClient

ASSUME PairedListAssumption ==
    /\ IsFiniteSet(Clients)
    /\ MaxClients \in Nat
    /\ Agents \cap Commands = {}
    /\ NoClient \notin Clients

Procs == Agents \cup Commands

VARIABLES
    disk,      \* PairedClients in config.json
    up,        \* processes that are running
    mem,       \* Config.PairedClients of each process
    saving,    \* what each process is saving: the operation that holds its lock
    hand,      \* the device that operation is about
    trusted,   \* history: paired, told so, and not removed since
    forgotten, \* history: removed, told so, and not paired since
    shared     \* history: a process saved the list while another held a copy

vars == <<disk, up, mem, saving, hand, trusted, forgotten, shared>>

TypeOK ==
    /\ disk \subseteq Clients /\ Cardinality(disk) <= MaxClients
    /\ up \subseteq Procs
    /\ mem \in [Procs -> SUBSET Clients]
    /\ saving \in [Procs -> {"no", "pair", "touch", "update", "forget"}]
    /\ hand \in [Procs -> Clients \cup {NoClient}]
    /\ trusted \subseteq Clients /\ forgotten \subseteq Clients
    /\ shared \in BOOLEAN

Init ==
    /\ disk = {} /\ up = {}
    /\ mem = [p \in Procs |-> {}]
    /\ saving = [p \in Procs |-> "no"]
    /\ hand = [p \in Procs |-> NoClient]
    /\ trusted = {} /\ forgotten = {} /\ shared = FALSE

-----------------------------------------------------------------------------
\* Load, when a process starts.
Start(p) ==
    /\ p \notin up
    /\ up' = up \cup {p}
    /\ mem' = [mem EXCEPT ![p] = disk]
    /\ UNCHANGED <<disk, saving, hand, trusted, forgotten, shared>>

\* It exits or crashes, perhaps in the middle of a save: the file is as it was.
Stop(p) ==
    /\ up' = up \ {p}
    /\ mem' = [mem EXCEPT ![p] = {}]
    /\ saving' = [saving EXCEPT ![p] = "no"]
    /\ hand' = [hand EXCEPT ![p] = NoClient]
    /\ UNCHANGED <<disk, trusted, forgotten, shared>>

\* Config.mu is taken, the copy in memory is now list, and is to be saved.
Save(p, operation, c, list) ==
    /\ p \in up /\ saving[p] = "no"
    /\ mem' = [mem EXCEPT ![p] = list]
    /\ saving' = [saving EXCEPT ![p] = operation]
    /\ hand' = [hand EXCEPT ![p] = c]
    /\ UNCHANGED <<disk, up, shared>>

\* Mutant: the limit is off by one.
AddPairedClient_OneTooMany(p, c) ==
    /\ c \in mem[p] \/ Cardinality(mem[p]) <= MaxClients
    /\ Save(p, "pair", c, mem[p] \cup {c})
    /\ forgotten' = forgotten \ {c}
    /\ UNCHANGED trusted

\* handlePairSubmit, once the code is confirmed.  At the limit it is an error.
AddPairedClient(p, c) ==
    /\ c \in mem[p] \/ Cardinality(mem[p]) < MaxClients
    /\ Save(p, "pair", c, mem[p] \cup {c})
    /\ forgotten' = forgotten \ {c}
    /\ UNCHANGED trusted

\* Mutant: a device that is not found is added.
TouchClient_Adds(p, c) ==
    /\ Cardinality(mem[p] \cup {c}) <= MaxClients
    /\ Save(p, "touch", c, mem[p] \cup {c})
    /\ UNCHANGED <<trusted, forgotten>>

\* handleConnectRequest, when the session of a device has started.
TouchClient(p, c) ==
    /\ c \in mem[p]
    /\ Save(p, "touch", c, mem[p])
    /\ UNCHANGED <<trusted, forgotten>>

\* Config.Update: a setting is changed, and the whole file is written.
Update(p) ==
    /\ Save(p, "update", NoClient, mem[p])
    /\ UNCHANGED <<trusted, forgotten>>

\* MsgForgetDevice in an agent; cmdForget, which removes a device it has loaded.
RemovePairedClient(p, c) ==
    /\ p \in Commands => c \in mem[p]
    /\ Save(p, "forget", c, mem[p] \ {c})
    /\ trusted' = trusted \ {c}
    /\ UNCHANGED forgotten

\* saveLocked succeeds: the rename has replaced the file.  Now the user is told.
Saved(p) ==
    /\ saving[p] # "no"
    /\ disk' = mem[p]
    /\ trusted' = IF saving[p] = "pair" THEN trusted \cup {hand[p]} ELSE trusted
    /\ forgotten' = IF saving[p] = "forget" THEN forgotten \cup {hand[p]} ELSE forgotten
    /\ shared' = (shared \/ up # {p})
    /\ saving' = [saving EXCEPT ![p] = "no"]
    /\ hand' = [hand EXCEPT ![p] = NoClient]
    /\ UNCHANGED <<up, mem>>

\* Mutant: the error of saveLocked is not returned, and the device is told it is paired.
SaveFails_Unnoticed(p) ==
    /\ saving[p] # "no"
    /\ trusted' = IF saving[p] = "pair" THEN trusted \cup {hand[p]} ELSE trusted
    /\ saving' = [saving EXCEPT ![p] = "no"]
    /\ hand' = [hand EXCEPT ![p] = NoClient]
    /\ UNCHANGED <<disk, up, mem, forgotten, shared>>

\* saveLocked fails: the caller is told, the copy in memory keeps the change.
SaveFails(p) ==
    /\ saving[p] # "no"
    /\ saving' = [saving EXCEPT ![p] = "no"]
    /\ hand' = [hand EXCEPT ![p] = NoClient]
    /\ UNCHANGED <<disk, up, mem, trusted, forgotten, shared>>

Next ==
    \E p \in Procs :
        \/ Start(p) \/ (p \in up /\ Stop(p)) \/ Update(p) \/ Saved(p) \/ SaveFails(p)
        \/ \E c \in Clients :
              \/ p \in Agents /\ (AddPairedClient(p, c) \/ TouchClient(p, c))
              \/ RemovePairedClient(p, c)

Spec == Init /\ [][Next]_vars

-----------------------------------------------------------------------------
\* A device that was told it is paired is on disk, so that a crash or a restart
\* does not lose it (config.go:235-237), whatever saves failed in between; this
\* is so as long as no process saved the list while another held a copy.
PairedIsSaved == ~shared => trusted \subseteq disk

\* A device the user was told is removed is not on disk, so no process that
\* starts later accepts it, under the same condition.
ForgottenIsGone == ~shared => forgotten \cap disk = {}

\* A device the user was told is removed is trusted by no agent that is running.
ForgetTakesEffect == \A p \in Agents \cap up : forgotten \cap mem[p] = {}
=============================================================================
