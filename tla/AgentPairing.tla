---------------------------- MODULE AgentPairing ----------------------------
(***************************************************************************)
(* Pairing as the PC sees it, internal/agentcore/agent.go: BeginPairing,   *)
(* CancelPairing, handlePairSubmit in a goroutine per submission, the      *)
(* message that forgets a device, and register, which each of them and a   *)
(* new connection calls; with the confirmation of shared/pair/pair.go and  *)
(* client/js/ui/pairing-ui.js.                                             *)
(*                                                                         *)
(* The server is what PairStore and Hub promise of it: one window for a    *)
(* PC, gone when it has been tried, replaced or revoked or when the PC     *)
(* detaches.  A code is the number of its window.  Keys are symbols: a tag *)
(* verifies iff both sides saw the same window, names and keys, and an     *)
(* honest server changes none of them.                                     *)
(***************************************************************************)
EXTENDS Naturals, Sequences

CONSTANTS PairClients,  \* devices that pair
          OddLabels,    \* those whose label sanitizeLabel changes
          MaxWindows,   \* bound: windows that are opened
          MaxDrops      \* bound: losses of the link

Reader == "reader"

ASSUME AgentPairingAssumption ==
    /\ Reader \notin PairClients /\ OddLabels \subseteq PairClients
    /\ MaxWindows \in Nat /\ MaxDrops \in Nat

Routines == PairClients \cup {Reader}

VARIABLES
    pairing,   \* Agent.pairing: the window, if any
    begun,     \* windows that have been opened
    opener,    \* where BeginPairing and CancelPairing are
    list,      \* Config.PairedClients
    routine,   \* where the read goroutine and each handlePairSubmit are
    tried,     \* the window a submission names
    copy,      \* the list register has read
    inbox,     \* messages on the PC's link: [kind, client, window]
    link,      \* the PC is connected
    drops,     \* counter of the bound
    store,     \* the window the server holds for the PC, if any
    known,     \* the clients the server lists for the PC
    client,    \* where each client is
    looked,    \* the window a client has looked up
    overlapped,\* history: two registrations have been under way at once
    unsaved    \* history: AddPairedClient has failed

pairAgentVars == <<pairing, begun, opener, list, routine, tried, copy>>
pairServerVars == <<inbox, link, drops, store, known>>
pairClientVars == <<client, looked>>
pairHistory == <<overlapped, unsaved>>
pairVars == <<pairAgentVars, pairServerVars, pairClientVars, pairHistory>>

Windows == 0..MaxWindows
Mail == [kind : {"submit", "forget"}, client : PairClients, window : Windows]

PairingTypeOK ==
    /\ pairing \in Windows /\ begun \in Windows /\ store \in Windows
    /\ opener \in {"idle", "publishing", "revoking"}
    /\ list \subseteq PairClients /\ known \subseteq PairClients
    /\ routine \in [Routines -> {"idle", "checking", "claiming", "confirming", "adding", "replying",
                                 "listing", "registering"}]
    /\ tried \in [PairClients -> Windows] /\ looked \in [PairClients -> Windows]
    /\ copy \in [Routines -> SUBSET PairClients]
    /\ inbox \in Seq(Mail) /\ link \in BOOLEAN /\ drops \in 0..MaxDrops
    /\ client \in [PairClients -> {"out", "looked", "waiting", "paired", "refused"}]
    /\ overlapped \in BOOLEAN /\ unsaved \in BOOLEAN

PairingInit ==
    /\ pairing = 0 /\ begun = 0 /\ opener = "idle" /\ list = {}
    /\ routine = [g \in Routines |-> "idle"]
    /\ tried = [c \in PairClients |-> 0] /\ copy = [g \in Routines |-> {}]
    /\ inbox = <<>> /\ link = FALSE /\ drops = 0 /\ store = 0 /\ known = {}
    /\ client = [c \in PairClients |-> "out"] /\ looked = [c \in PairClients |-> 0]
    /\ overlapped = FALSE /\ unsaved = FALSE

-----------------------------------------------------------------------------
\* BeginPairing and CancelPairing: the window, and then the message.

OpenWindow ==
    /\ opener = "idle" /\ begun < MaxWindows
    /\ begun' = begun + 1 /\ pairing' = begun + 1
    /\ opener' = "publishing"
    /\ UNCHANGED <<list, routine, tried, copy, pairServerVars, pairClientVars, pairHistory>>

\* Without a link it is an error, and the window stays.
PublishWindow ==
    /\ opener = "publishing" /\ opener' = "idle"
    /\ store' = IF link THEN begun ELSE store
    /\ UNCHANGED <<pairing, begun, list, routine, tried, copy, inbox, link, drops, known,
                   pairClientVars, pairHistory>>

CancelPairing ==
    /\ opener = "idle" /\ pairing # 0
    /\ pairing' = 0 /\ opener' = "revoking"
    /\ UNCHANGED <<begun, list, routine, tried, copy, pairServerVars, pairClientVars, pairHistory>>

RevokeWindow ==
    /\ opener = "revoking" /\ opener' = "idle"
    /\ store' = IF link THEN 0 ELSE store
    /\ UNCHANGED <<pairing, begun, list, routine, tried, copy, inbox, link, drops, known,
                   pairClientVars, pairHistory>>

\* The timer of the window, and the server's.
WindowExpires ==
    /\ \/ opener # "publishing" /\ pairing # 0 /\ pairing' = 0 /\ UNCHANGED store
       \/ store # 0 /\ store' = 0 /\ UNCHANGED pairing
    /\ UNCHANGED <<begun, opener, list, routine, tried, copy, inbox, link, drops, known,
                   pairClientVars, pairHistory>>

-----------------------------------------------------------------------------
\* The goroutines of the PC.

Goes(g, from, to) == routine[g] = from /\ routine' = [routine EXCEPT ![g] = to]

\* A message of the link.  A submission gets a goroutine (here, when the client's
\* former one has ended); the device that is to be
\* forgotten is removed and the PC registers before the next message is read.
ReadMail ==
    /\ link /\ routine[Reader] = "idle" /\ inbox # <<>>
    /\ inbox' = Tail(inbox)
    /\ LET mail == Head(inbox)
       IN  \/ /\ mail.kind = "submit"
              /\ Goes(mail.client, "idle", "checking")
              /\ tried' = [tried EXCEPT ![mail.client] = mail.window]
              /\ UNCHANGED list
           \/ /\ mail.kind = "forget"
              /\ list' = list \ {mail.client}
              /\ Goes(Reader, "idle", "listing")
              /\ UNCHANGED tried
    /\ UNCHANGED <<pairing, begun, opener, copy, link, drops, store, known, pairClientVars, pairHistory>>

\* What the client is told, if the link is there and the client still waits.  A tag
\* made for another window than the one it looked up last does not verify.
Told(c, verdict) ==
    client' = IF link /\ client[c] = "waiting"
              THEN [client EXCEPT ![c] = IF tried[c] = looked[c] THEN verdict ELSE "refused"]
              ELSE client

\* handlePairSubmit looks at the window ...
CheckWindow(c) ==
    /\ \/ tried[c] = pairing /\ Goes(c, "checking", "claiming") /\ UNCHANGED client
       \/ tried[c] # pairing /\ Goes(c, "checking", "idle") /\ Told(c, "refused")
    /\ UNCHANGED <<pairing, begun, opener, list, tried, copy, pairServerVars, looked, pairHistory>>

\* ... and takes whatever window there is by then.
ClaimWindow(c) ==
    /\ Goes(c, "claiming", "confirming")
    /\ pairing' = 0
    /\ UNCHANGED <<begun, opener, list, tried, copy, pairServerVars, pairClientVars, pairHistory>>

\* The client's tag covers its own label, the PC's the label it has sanitised.
Confirm(c) ==
    /\ \/ c \notin OddLabels /\ Goes(c, "confirming", "adding") /\ UNCHANGED client
       \/ c \in OddLabels /\ Goes(c, "confirming", "idle") /\ Told(c, "refused")
    /\ UNCHANGED <<pairing, begun, opener, list, tried, copy, pairServerVars, looked, pairHistory>>

\* Mutant: an error of AddPairedClient is only logged.
AddClient_Unchecked(c) ==
    /\ \/ list' = list \cup {c} /\ UNCHANGED <<client, unsaved>>
       \/ unsaved' = TRUE /\ UNCHANGED <<list, client>>
    /\ Goes(c, "adding", "replying")
    /\ UNCHANGED <<pairing, begun, opener, tried, copy, pairServerVars, looked, overlapped>>

\* AddPairedClient.  An error is the list being full, or a file that cannot be
\* written: then the copy in memory has the device, and the client is refused.
AddClient(c) ==
    /\ \/ Goes(c, "adding", "replying") /\ list' = list \cup {c} /\ UNCHANGED <<client, unsaved>>
       \/ Goes(c, "adding", "idle") /\ list' \in {list, list \cup {c}}
             /\ Told(c, "refused") /\ unsaved' = TRUE
    /\ UNCHANGED <<pairing, begun, opener, tried, copy, pairServerVars, looked, overlapped>>

\* The client verifies the PC's tag before it keeps the PC.
Reply(c) ==
    /\ Goes(c, "replying", "listing")
    /\ Told(c, "paired")
    /\ UNCHANGED <<pairing, begun, opener, list, tried, copy, pairServerVars, looked, pairHistory>>

\* register reads the list, and sends it when it has made the message.
ReadList(g) ==
    /\ Goes(g, "listing", "registering")
    /\ copy' = [copy EXCEPT ![g] = list]
    /\ overlapped' = (overlapped \/ \E h \in Routines : routine[h] = "registering")
    /\ UNCHANGED <<pairing, begun, opener, list, tried, pairServerVars, pairClientVars, unsaved>>

SendList(g) ==
    /\ Goes(g, "registering", "idle")
    /\ known' = IF link THEN copy[g] ELSE known
    /\ UNCHANGED <<pairing, begun, opener, list, tried, copy, inbox, link, drops, store,
                   pairClientVars, pairHistory>>

-----------------------------------------------------------------------------
\* The link.  Messages are lost with it, and the server revokes the window.

LinkDrops ==
    /\ link /\ drops < MaxDrops
    /\ link' = FALSE /\ drops' = drops + 1
    /\ inbox' = <<>> /\ store' = 0
    /\ UNCHANGED <<pairAgentVars, known, pairClientVars, pairHistory>>

\* Mutant: only a change of the list is registered.
LinkComes_Silent ==
    /\ ~link /\ link' = TRUE
    /\ UNCHANGED <<pairAgentVars, inbox, drops, store, known, pairClientVars, pairHistory>>

\* OnConnected registers.
LinkComes ==
    /\ ~link /\ link' = TRUE
    /\ Goes(Reader, "idle", "listing")
    /\ UNCHANGED <<pairing, begun, opener, list, tried, copy, inbox, drops, store, known,
                   pairClientVars, pairHistory>>

-----------------------------------------------------------------------------
\* A client and the server.

LookUp(c) ==
    /\ client[c] \in {"out", "refused"} /\ store # 0
    /\ client' = [client EXCEPT ![c] = "looked"]
    /\ looked' = [looked EXCEPT ![c] = store]
    /\ UNCHANGED <<pairAgentVars, pairServerVars, pairHistory>>

\* The window is gone once it is tried (PairStore, Consume).
Submit(c) ==
    /\ client[c] = "looked"
    /\ IF store = looked[c]
       THEN /\ client' = [client EXCEPT ![c] = "waiting"]
            /\ store' = 0
            /\ inbox' = Append(inbox, [kind |-> "submit", client |-> c, window |-> looked[c]])
       ELSE client' = [client EXCEPT ![c] = "refused"] /\ UNCHANGED <<store, inbox>>
    /\ UNCHANGED <<pairAgentVars, link, drops, known, looked, pairHistory>>

\* waitForPairResult gives up.
Timeout(c) ==
    /\ client[c] = "waiting" /\ client' = [client EXCEPT ![c] = "refused"]
    /\ UNCHANGED <<pairAgentVars, pairServerVars, looked, pairHistory>>

\* The client removes the PC: the server takes it off the list, and tells a PC
\* that is connected.
ForgetPC(c) ==
    /\ client[c] = "paired" /\ client' = [client EXCEPT ![c] = "out"]
    /\ known' = known \ {c}
    /\ inbox' = IF link THEN Append(inbox, [kind |-> "forget", client |-> c, window |-> 0]) ELSE inbox
    /\ UNCHANGED <<pairAgentVars, link, drops, store, looked, pairHistory>>

PairingNext ==
    \/ OpenWindow \/ PublishWindow \/ CancelPairing \/ RevokeWindow \/ WindowExpires
    \/ ReadMail \/ LinkDrops \/ LinkComes
    \/ \E g \in Routines : ReadList(g) \/ SendList(g)
    \/ \E c \in PairClients :
          \/ CheckWindow(c) \/ ClaimWindow(c) \/ Confirm(c) \/ AddClient(c) \/ Reply(c)
          \/ LookUp(c) \/ Submit(c) \/ Timeout(c) \/ ForgetPC(c)

PairingSpec == PairingInit /\ [][PairingNext]_pairVars

-----------------------------------------------------------------------------
\* A client that has verified the PC and keeps it is trusted by the PC
\* (agent.go:437-441), until that client removes it: whatever windows are replaced,
\* cancelled or tried late, and whatever is lost with the link.
TrustIsMutual == \A c \in PairClients : client[c] = "paired" => c \in list

\* When the PC is connected and has nothing left to do, the server lists the devices
\* the PC trusts (agent.go:254-260, 448): registrations that met a lost link are made
\* up for.  Two registrations that overlap, and a device whose pairing could not be
\* saved, are the exceptions.
ServerListAgrees ==
    link /\ inbox = <<>> /\ (\A g \in Routines : routine[g] = "idle") /\ ~overlapped /\ ~unsaved
        => known = list
=============================================================================
