-------------------------- MODULE AgentPartsProofs --------------------------
(***************************************************************************)
(* What the parts of the agent promise, for any devices, windows,        *)
(* displays, intervals, texts, requests and numbers of failures:           *)
(*                                                                         *)
(*  - AgentPairing: a client that keeps a PC is trusted by it, and the     *)
(*    server's list settles on the PC's;                                   *)
(*  - Wake: a PC keeps its word about waking and staying awake;            *)
(*  - Displays: clicks land on the display that is shown, and the picker   *)
(*    shows what there is;                                                 *)
(*  - Quality: the stream does not pump;                                   *)
(*  - RvClient: neither a request nor the goroutine that reads is stuck;   *)
(*  - Clipboard: the text that went last is the one on the clipboard;      *)
(*  - Video: a keyframe that was asked for comes.                          *)
(*                                                                         *)
(* The parts share no variable; each has its inductive invariants, and     *)
(* keeps to its types.  What PairedList and Cursor promise has modules of  *)
(* its own.                                                                *)
(***************************************************************************)
EXTENDS MCAgentParts, PairedListProofs, CursorProofs, SequenceTheorems, FiniteSetTheorems, TLAPS

-----------------------------------------------------------------------------
(* Pairing: AgentPairing.  TrustIsMutual needs that a window is submitted  *)
(* once (Fresh), and that a client which may still be told that it paired  *)
(* has no removal of its own on the way (Ordered, LiveOK).                 *)

Working == {"checking", "claiming", "confirming", "adding", "replying"}

\* The submission that a client waits for is being handled.
Live(c) == client[c] = "waiting" /\ tried[c] = looked[c] /\ routine[c] \in Working

ForgetsIn(mails, c) == \E i \in DOMAIN mails : mails[i].kind = "forget" /\ mails[i].client = c

\* Messages of the link, with any window.
AnyMail == [kind : {"submit", "forget"}, client : PairClients, window : Nat]

PairTyped ==
    /\ begun \in Nat /\ store \in Nat /\ list \subseteq PairClients
    /\ inbox \in Seq(AnyMail)
    /\ routine \in [Routines -> {"idle", "checking", "claiming", "confirming", "adding", "replying",
                                 "listing", "registering"}]
    /\ tried \in [PairClients -> Nat] /\ looked \in [PairClients -> Nat]
    /\ client \in [PairClients -> {"out", "looked", "waiting", "paired", "refused"}]
    /\ copy \in [Routines -> SUBSET PairClients]

\* The window the server holds, and one that it has still to hear of, were not submitted.
Fresh ==
    \A w \in Nat \ {0} : w = store \/ (w = begun /\ opener = "publishing") \/ w > begun =>
        /\ \A c \in PairClients : tried[c] # w
        /\ \A i \in DOMAIN inbox : inbox[i].kind = "submit" => inbox[i].window # w

StoreBegun ==
    /\ store <= begun /\ (opener = "publishing" => store < begun)
    /\ \A c \in PairClients : client[c] = "looked" => looked[c] # 0

\* Of the submission a client waits for, no removal by that client comes after it.
Ordered ==
    \A c \in PairClients : client[c] = "waiting" =>
        \A i, j \in DOMAIN inbox :
            /\ inbox[i].kind = "submit" /\ inbox[i].client = c /\ inbox[i].window = looked[c]
            /\ inbox[j].kind = "forget" /\ inbox[j].client = c
            => j < i

LiveOK ==
    \A c \in PairClients : Live(c) =>
        ~ForgetsIn(inbox, c) /\ (routine[c] = "replying" => c \in list)

PairedOK ==
    \A c \in PairClients : client[c] = "paired" => c \in list /\ ~ForgetsIn(inbox, c)

TrustInv == PairTyped /\ Fresh /\ StoreBegun /\ Ordered /\ LiveOK /\ PairedOK

-----------------------------------------------------------------------------
\* A submission names the window looked up, which is one the server holds.
LEMMA ToldCases ==
    ASSUME PairTyped, NEW c \in PairClients, NEW verdict \in {"refused", "paired"}, Told(c, verdict)
    PROVE  /\ \A d \in PairClients \ {c} : client'[d] = client[d]
           /\ \/ client'[c] = client[c]
              \/ client[c] = "waiting" /\ client'[c] \in {"refused", verdict}
           /\ client' \in [PairClients -> {"out", "looked", "waiting", "paired", "refused"}]
           /\ client'[c] = "paired" /\ client[c] # "paired" =>
                 client[c] = "waiting" /\ tried[c] = looked[c]
  BY DEF Told, PairTyped

\* Steps of the PC that only move a goroutine and may refuse its client.
LEMMA QuietKeepsTrust ==
    ASSUME TrustInv, NEW c \in PairClients,
           NEW to \in {"idle", "claiming", "confirming", "adding"},
           routine' = [routine EXCEPT ![c] = to], to # "idle" => routine[c] \in Working,
           Told(c, "refused") \/ UNCHANGED client,
           list \subseteq list', list' \subseteq PairClients,
           UNCHANGED <<begun, opener, store, inbox, tried, looked, copy>>
    PROVE  TrustInv'
<1>1. /\ \A d \in PairClients \ {c} : client'[d] = client[d] /\ routine'[d] = routine[d]
      /\ client'[c] = client[c] \/ client'[c] = "refused"
      /\ routine'[c] = to
      /\ client' \in [PairClients -> {"out", "looked", "waiting", "paired", "refused"}]
  <2>1. \A d \in PairClients \ {c} : routine'[d] = routine[d]
    BY DEF TrustInv, PairTyped, Routines
  <2>2. routine'[c] = to
    BY DEF TrustInv, PairTyped, Routines
  <2>3. client \in [PairClients -> {"out", "looked", "waiting", "paired", "refused"}]
    BY DEF TrustInv, PairTyped
  <2>4. CASE Told(c, "refused")
    BY <2>1, <2>2, <2>4, ToldCases DEF TrustInv
  <2> QED BY <2>1, <2>2, <2>3, <2>4
<1>2. PairTyped'
  BY <1>1 DEF TrustInv, PairTyped
<1>3. Fresh' /\ StoreBegun' /\ Ordered'
  BY <1>1 DEF TrustInv, Fresh, StoreBegun, Ordered
<1>4. LiveOK'
  <2> SUFFICES ASSUME NEW d \in PairClients, Live(d)'
               PROVE  ~ForgetsIn(inbox, d) /\ (routine'[d] = "replying" => d \in list')
    BY DEF LiveOK, ForgetsIn
  <2>1. Live(d)
    BY <1>1 DEF Live, Working
  <2> QED BY <1>1, <2>1 DEF TrustInv, LiveOK
<1>5. PairedOK'
  BY <1>1 DEF TrustInv, PairedOK, ForgetsIn
<1> QED BY <1>2, <1>3, <1>4, <1>5 DEF TrustInv

LEMMA HandlingKeepsTrust ==
    ASSUME TrustInv, NEW c \in PairClients,
           CheckWindow(c) \/ ClaimWindow(c) \/ Confirm(c)
    PROVE  TrustInv'
<1>1. PICK to \in {"idle", "claiming", "confirming", "adding"} :
         /\ routine' = [routine EXCEPT ![c] = to] /\ routine[c] \in Working
         /\ Told(c, "refused") \/ UNCHANGED client
  BY DEF CheckWindow, ClaimWindow, Confirm, Goes, Working, pairClientVars
<1>2. UNCHANGED <<begun, opener, store, inbox, tried, looked, copy, list>>
  BY DEF CheckWindow, ClaimWindow, Confirm, pairServerVars, pairClientVars
<1> QED BY <1>1, <1>2, QuietKeepsTrust DEF TrustInv, PairTyped

LEMMA AddClientKeepsTrust ==
    ASSUME TrustInv, NEW c \in PairClients, AddClient(c)
    PROVE  TrustInv'
<1>1. UNCHANGED <<begun, opener, store, inbox, tried, looked, copy>>
  BY DEF AddClient, pairServerVars
<1>2. CASE Goes(c, "adding", "replying") /\ list' = list \cup {c} /\ UNCHANGED client
  <2>1. /\ \A d \in PairClients \ {c} : routine'[d] = routine[d]
        /\ routine[c] = "adding" /\ routine'[c] = "replying"
    BY <1>2 DEF Goes, TrustInv, PairTyped, Routines
  <2>2. PairTyped'
    BY <1>1, <1>2 DEF Goes, TrustInv, PairTyped
  <2>3. Fresh' /\ StoreBegun' /\ Ordered' /\ PairedOK'
    BY <1>1, <1>2 DEF TrustInv, Fresh, StoreBegun, Ordered, PairedOK, ForgetsIn
  <2>4. LiveOK'
    <3> SUFFICES ASSUME NEW d \in PairClients, Live(d)'
                 PROVE  ~ForgetsIn(inbox, d) /\ (routine'[d] = "replying" => d \in list')
      BY <1>1 DEF LiveOK, ForgetsIn
    <3>1. Live(d)
      BY <1>1, <1>2, <2>1 DEF Live, Working
    <3> QED BY <1>2, <2>1, <3>1 DEF TrustInv, LiveOK
  <2> QED BY <2>2, <2>3, <2>4 DEF TrustInv
<1>3. CASE Goes(c, "adding", "idle") /\ list' \in {list, list \cup {c}} /\ Told(c, "refused")
  BY <1>1, <1>3, QuietKeepsTrust DEF Goes, Working, TrustInv, PairTyped
<1> QED BY <1>2, <1>3 DEF AddClient

\* A client is told that it paired while it is on the list and wants to stay there.
LEMMA ReplyKeepsTrust ==
    ASSUME TrustInv, NEW c \in PairClients, Reply(c)
    PROVE  TrustInv'
<1>1. Goes(c, "replying", "listing") /\ Told(c, "paired")
      /\ UNCHANGED <<begun, opener, store, inbox, tried, looked, copy, list>>
  BY DEF Reply, pairServerVars
<1>2. /\ \A d \in PairClients \ {c} : client'[d] = client[d] /\ routine'[d] = routine[d]
      /\ routine[c] = "replying" /\ routine'[c] = "listing"
      /\ client'[c] = client[c] \/ (client[c] = "waiting" /\ client'[c] \in {"refused", "paired"})
      /\ client' \in [PairClients -> {"out", "looked", "waiting", "paired", "refused"}]
      /\ client'[c] = "paired" /\ client[c] # "paired" => Live(c)
  <2>1. /\ \A d \in PairClients \ {c} : routine'[d] = routine[d]
        /\ routine[c] = "replying" /\ routine'[c] = "listing"
    BY <1>1 DEF Goes, TrustInv, PairTyped, Routines
  <2> QED BY <1>1, <2>1, ToldCases DEF TrustInv, Live, Working
<1>3. PairTyped'
  BY <1>1, <1>2 DEF Goes, TrustInv, PairTyped
<1>4. Fresh' /\ StoreBegun' /\ Ordered'
  BY <1>1, <1>2 DEF TrustInv, Fresh, StoreBegun, Ordered
<1>5. LiveOK'
  BY <1>1, <1>2 DEF TrustInv, LiveOK, Live, Working, ForgetsIn
<1>6. PairedOK'
  BY <1>1, <1>2 DEF TrustInv, LiveOK, PairedOK, ForgetsIn
<1> QED BY <1>3, <1>4, <1>5, <1>6 DEF TrustInv

\* Windows come and go on the server; none comes that was submitted.
LEMMA WindowKeepsTrust ==
    ASSUME TrustInv, OpenWindow \/ PublishWindow \/ CancelPairing \/ RevokeWindow \/ WindowExpires
    PROVE  TrustInv'
<1>1. UNCHANGED <<inbox, tried, looked, copy, list, routine, client>>
  BY DEF OpenWindow, PublishWindow, CancelPairing, RevokeWindow, WindowExpires, pairServerVars,
         pairClientVars
<1>2. /\ begun' \in Nat /\ store' \in Nat /\ begun <= begun' /\ store' <= begun'
      /\ opener' = "publishing" => store' < begun'
      /\ \A w \in Nat \ {0} : w = store' \/ (w = begun' /\ opener' = "publishing") \/ w > begun' =>
            w = store \/ (w = begun /\ opener = "publishing") \/ w > begun
  <2>1. begun \in Nat /\ store \in Nat /\ store <= begun
    BY DEF TrustInv, PairTyped, StoreBegun
  <2>2. CASE OpenWindow
    BY <2>1, <2>2 DEF OpenWindow, pairServerVars
  <2>3. CASE PublishWindow
    BY <2>1, <2>3 DEF PublishWindow
  <2>4. CASE CancelPairing \/ RevokeWindow
    BY <2>1, <2>4 DEF CancelPairing, RevokeWindow, pairServerVars
  <2>5. CASE WindowExpires
    BY <2>1, <2>5 DEF WindowExpires, TrustInv, StoreBegun
  <2> QED BY <2>2, <2>3, <2>4, <2>5
<1>3. PairTyped' /\ Fresh' /\ StoreBegun'
  BY <1>1, <1>2 DEF TrustInv, PairTyped, Fresh, StoreBegun
<1>4. Ordered' /\ LiveOK' /\ PairedOK'
  BY <1>1 DEF TrustInv, Ordered, LiveOK, Live, PairedOK, ForgetsIn
<1> QED BY <1>3, <1>4 DEF TrustInv

-----------------------------------------------------------------------------
\* The tail of the link's messages.
LEMMA TailBox ==
    ASSUME NEW mails \in Seq(AnyMail), mails # <<>>
    PROVE  /\ Tail(mails) \in Seq(AnyMail) /\ 1 \in DOMAIN mails /\ Head(mails) = mails[1] /\ mails[1] \in AnyMail
           /\ \A i \in DOMAIN Tail(mails) : i + 1 \in DOMAIN mails /\ Tail(mails)[i] = mails[i + 1]
                                          /\ i \in Nat
  BY HeadTailProperties, LenProperties, EmptySeq

\* The reader removes a device, or hands a submission to a goroutine.
LEMMA ReadMailKeepsTrust == ASSUME TrustInv, ReadMail PROVE TrustInv'
<1> DEFINE mail == Head(inbox)
<1>1. /\ routine[Reader] = "idle" /\ inbox # <<>> /\ inbox' = Tail(inbox)
      /\ UNCHANGED <<begun, opener, store, looked, copy, client>>
  BY DEF ReadMail, pairClientVars
<1>2. inbox \in Seq(AnyMail) /\ PairTyped
  BY DEF TrustInv, PairTyped
<1>3. /\ inbox' \in Seq(AnyMail) /\ 1 \in DOMAIN inbox /\ mail = inbox[1] /\ mail \in AnyMail
      /\ \A i \in DOMAIN inbox' : i + 1 \in DOMAIN inbox /\ inbox'[i] = inbox[i + 1] /\ i \in Nat
  BY <1>1, <1>2, TailBox
<1>4. /\ \A c \in PairClients : ForgetsIn(inbox', c) => ForgetsIn(inbox, c)
      /\ Ordered'
  <2>1. \A c \in PairClients : ForgetsIn(inbox', c) => ForgetsIn(inbox, c)
    BY <1>3 DEF ForgetsIn
  <2>2. Ordered'
    <3> SUFFICES ASSUME NEW c \in PairClients, client[c] = "waiting",
                        NEW i \in DOMAIN inbox', NEW j \in DOMAIN inbox',
                        inbox'[i].kind = "submit", inbox'[i].client = c,
                        inbox'[i].window = looked[c],
                        inbox'[j].kind = "forget", inbox'[j].client = c
                 PROVE  j < i
      BY <1>1 DEF Ordered
    <3>1. j + 1 < i + 1
      BY <1>3 DEF TrustInv, Ordered
    <3> QED BY <1>3, <3>1
  <2> QED BY <2>1, <2>2
<1>5. CASE /\ mail.kind = "submit" /\ Goes(mail.client, "idle", "checking")
           /\ tried' = [tried EXCEPT ![mail.client] = mail.window]
           /\ UNCHANGED list
  <2>1. PICK c \in PairClients : c = mail.client
    BY <1>3 DEF AnyMail
  <2>2. mail.window \in Nat
    BY <1>3 DEF AnyMail
  <2>3. /\ routine'[c] = "checking" /\ tried'[c] = mail.window
        /\ \A d \in PairClients \ {c} : routine'[d] = routine[d] /\ tried'[d] = tried[d]
    BY <1>2, <1>5, <2>1 DEF Goes, PairTyped, Routines
  <2>4. PairTyped'
    <3>1. routine' = [routine EXCEPT ![c] = "checking"] /\ tried' = [tried EXCEPT ![c] = mail.window]
      BY <1>5, <2>1 DEF Goes
    <3>2. /\ begun' \in Nat /\ store' \in Nat /\ list' \subseteq PairClients
          /\ looked' \in [PairClients -> Nat] /\ copy' \in [Routines -> SUBSET PairClients]
          /\ client' \in [PairClients -> {"out", "looked", "waiting", "paired", "refused"}]
      BY <1>1, <1>2, <1>5 DEF PairTyped
    <3>3. tried' \in [PairClients -> Nat]
      BY <1>2, <2>2, <3>1 DEF PairTyped
    <3>4. routine' \in [Routines -> {"idle", "checking", "claiming", "confirming", "adding", "replying",
                                     "listing", "registering"}]
      BY <1>2, <3>1 DEF PairTyped
    <3> QED BY <1>3, <3>2, <3>3, <3>4 DEF PairTyped
  <2>5. Fresh' /\ StoreBegun'
    <3>1. Fresh /\ StoreBegun
      BY DEF TrustInv
    <3>2. StoreBegun'
      BY <1>1, <3>1 DEF StoreBegun
    <3>3. Fresh'
      <4> SUFFICES ASSUME NEW w \in Nat \ {0},
                          w = store \/ (w = begun /\ opener = "publishing") \/ w > begun
                   PROVE  /\ \A d \in PairClients : tried'[d] # w
                          /\ \A i \in DOMAIN inbox' : inbox'[i].kind = "submit" => inbox'[i].window # w
        BY <1>1 DEF Fresh
      <4>1. /\ \A d \in PairClients : tried[d] # w
            /\ \A i \in DOMAIN inbox : inbox[i].kind = "submit" => inbox[i].window # w
        BY <3>1 DEF Fresh
      <4> QED BY <1>3, <1>5, <2>3, <4>1
    <3> QED BY <3>2, <3>3
  <2>6. LiveOK'
    <3> SUFFICES ASSUME NEW d \in PairClients, Live(d)'
                 PROVE  ~ForgetsIn(inbox', d) /\ (routine'[d] = "replying" => d \in list)
      BY <1>5 DEF LiveOK
    <3>1. CASE d = c
      <4>1. client[c] = "waiting" /\ mail.window = looked[c]
        BY <1>1, <2>3, <3>1 DEF Live
      <4>2. \A j \in DOMAIN inbox : inbox[j].kind = "forget" /\ inbox[j].client = c => j < 1
        BY <1>3, <1>5, <2>1, <4>1 DEF TrustInv, Ordered
      <4>3. ~ForgetsIn(inbox', c)
        BY <1>3, <4>2 DEF ForgetsIn
      <4> QED BY <2>3, <3>1, <4>3
    <3>2. CASE d # c
      <4>1. Live(d)
        BY <1>1, <2>3, <3>2 DEF Live
      <4> QED BY <1>4, <2>3, <3>2, <4>1 DEF TrustInv, LiveOK
    <3> QED BY <3>1, <3>2
  <2>7. PairedOK'
    BY <1>1, <1>4, <1>5 DEF TrustInv, PairedOK
  <2> QED BY <1>4, <2>4, <2>5, <2>6, <2>7 DEF TrustInv
<1>6. CASE /\ mail.kind = "forget" /\ list' = list \ {mail.client}
           /\ Goes(Reader, "idle", "listing") /\ UNCHANGED tried
  <2>1. ForgetsIn(inbox, mail.client)
    BY <1>3, <1>6 DEF ForgetsIn
  <2>2. \A d \in PairClients : routine'[d] = routine[d]
    BY <1>2, <1>6, AgentPairingAssumption DEF Goes, PairTyped, Routines
  <2>3. PairTyped'
    BY <1>1, <1>2, <1>3, <1>6 DEF Goes, PairTyped, Routines
  <2>4. Fresh' /\ StoreBegun'
    BY <1>1, <1>3, <1>6 DEF TrustInv, Fresh, StoreBegun
  <2>5. LiveOK'
    <3> SUFFICES ASSUME NEW d \in PairClients, Live(d)'
                 PROVE  ~ForgetsIn(inbox', d) /\ (routine'[d] = "replying" => d \in list')
      BY DEF LiveOK
    <3>1. Live(d)
      BY <1>1, <1>6, <2>2 DEF Live
    <3> QED BY <1>4, <1>6, <2>1, <2>2, <3>1 DEF TrustInv, LiveOK
  <2>6. PairedOK'
    BY <1>1, <1>4, <1>6, <2>1 DEF TrustInv, PairedOK
  <2> QED BY <1>4, <2>3, <2>4, <2>5, <2>6 DEF TrustInv
<1> QED BY <1>5, <1>6 DEF ReadMail

-----------------------------------------------------------------------------
\* Registering touches only the list the server has.
LEMMA RegisterKeepsTrust ==
    ASSUME TrustInv, NEW g \in Routines, ReadList(g) \/ SendList(g)
    PROVE  TrustInv'
<1>1. UNCHANGED <<begun, opener, store, inbox, tried, looked, list, client>>
  BY DEF ReadList, SendList, pairServerVars, pairClientVars
<1>2. PICK to \in {"registering", "idle"} : routine' = [routine EXCEPT ![g] = to]
  BY DEF ReadList, SendList, Goes
<1>3. \A d \in PairClients : routine'[d] = routine[d] \/ routine'[d] \in {"registering", "idle"}
  BY <1>2 DEF TrustInv, PairTyped, Routines
<1>4. PairTyped'
  BY <1>1, <1>2 DEF ReadList, SendList, TrustInv, PairTyped
<1>5. Fresh' /\ StoreBegun' /\ Ordered' /\ PairedOK'
  BY <1>1 DEF TrustInv, Fresh, StoreBegun, Ordered, PairedOK, ForgetsIn
<1>6. LiveOK'
  BY <1>1, <1>3 DEF TrustInv, LiveOK, Live, Working, ForgetsIn
<1> QED BY <1>4, <1>5, <1>6 DEF TrustInv

LEMMA LinkKeepsTrust == ASSUME TrustInv, LinkDrops \/ LinkComes PROVE TrustInv'
<1>1. CASE LinkDrops
  <2>1. inbox' = <<>> /\ store' = 0 /\ inbox' \in Seq(AnyMail) /\ DOMAIN inbox' = {}
        /\ UNCHANGED <<begun, opener, tried, looked, copy, list, client, routine>>
    BY <1>1 DEF LinkDrops, pairAgentVars, pairClientVars
  <2>2. PairTyped' /\ StoreBegun'
    BY <2>1 DEF TrustInv, PairTyped, StoreBegun
  <2>3. Fresh'
    BY <2>1 DEF TrustInv, Fresh
  <2>4. Ordered' /\ LiveOK' /\ PairedOK'
    BY <2>1 DEF TrustInv, Ordered, LiveOK, Live, PairedOK, ForgetsIn
  <2> QED BY <2>2, <2>3, <2>4 DEF TrustInv
<1>2. CASE LinkComes
  <2>1. /\ routine' = [routine EXCEPT ![Reader] = "listing"]
        /\ UNCHANGED <<begun, opener, store, inbox, tried, looked, copy, list, client>>
    BY <1>2 DEF LinkComes, Goes, pairClientVars
  <2>2. \A d \in PairClients : routine'[d] = routine[d]
    BY <2>1, AgentPairingAssumption DEF TrustInv, PairTyped, Routines
  <2>3. PairTyped'
    BY <2>1 DEF TrustInv, PairTyped
  <2>4. Fresh' /\ StoreBegun' /\ Ordered' /\ PairedOK'
    BY <2>1 DEF TrustInv, Fresh, StoreBegun, Ordered, PairedOK, ForgetsIn
  <2>5. LiveOK'
    BY <2>1, <2>2 DEF TrustInv, LiveOK, Live, ForgetsIn
  <2> QED BY <2>3, <2>4, <2>5 DEF TrustInv
<1> QED BY <1>1, <1>2

-----------------------------------------------------------------------------
\* Steps of a client on its own.
LEMMA ClientMovesKeepTrust ==
    ASSUME TrustInv, NEW c \in PairClients, LookUp(c) \/ Timeout(c)
    PROVE  TrustInv'
<1>1. UNCHANGED <<begun, opener, store, inbox, tried, copy, list, routine>>
  BY DEF LookUp, Timeout, pairAgentVars, pairServerVars
<1>2. /\ client' \in [PairClients -> {"out", "looked", "waiting", "paired", "refused"}]
      /\ looked' \in [PairClients -> Nat]
      /\ client'[c] \in {"looked", "refused"}
      /\ client'[c] = "looked" => looked'[c] # 0
      /\ \A d \in PairClients \ {c} : client'[d] = client[d] /\ looked'[d] = looked[d]
  BY DEF LookUp, Timeout, TrustInv, PairTyped
<1>3. PairTyped' /\ Fresh' /\ StoreBegun'
  BY <1>1, <1>2 DEF TrustInv, PairTyped, Fresh, StoreBegun
<1>4. Ordered' /\ LiveOK' /\ PairedOK'
  BY <1>1, <1>2 DEF TrustInv, Ordered, LiveOK, Live, PairedOK, ForgetsIn
<1> QED BY <1>3, <1>4 DEF TrustInv

\* A submission is the first of its window, and comes after every removal by its client.
LEMMA SubmitKeepsTrust ==
    ASSUME TrustInv, NEW c \in PairClients, Submit(c)
    PROVE  TrustInv'
<1>1. /\ client[c] = "looked"
      /\ UNCHANGED <<begun, opener, tried, copy, list, routine, looked>>
  BY DEF Submit, pairAgentVars
<1>2. CASE store = looked[c]
  <2> DEFINE mail == [kind |-> "submit", client |-> c, window |-> looked[c]]
  <2>1. /\ client' = [client EXCEPT ![c] = "waiting"] /\ store' = 0
        /\ inbox' = Append(inbox, mail)
    BY <1>2 DEF Submit
  <2>2. inbox \in Seq(AnyMail) /\ store \in Nat /\ store # 0 /\ store <= begun /\ begun \in Nat
        /\ (opener = "publishing" => store < begun)
    BY <1>1, <1>2 DEF TrustInv, PairTyped, StoreBegun
  <2>3. /\ client'[c] = "waiting" /\ \A d \in PairClients \ {c} : client'[d] = client[d]
        /\ client' \in [PairClients -> {"out", "looked", "waiting", "paired", "refused"}]
    BY <2>1 DEF TrustInv, PairTyped
  <2>4. mail \in AnyMail
    BY <1>2, <2>2 DEF AnyMail
  <2>5. /\ Len(inbox) \in Nat /\ DOMAIN inbox = 1..Len(inbox)
        /\ DOMAIN inbox' = 1..(Len(inbox) + 1)
        /\ \A i \in DOMAIN inbox : inbox'[i] = inbox[i] /\ i \in DOMAIN inbox'
        /\ inbox'[Len(inbox) + 1] = mail
        /\ \A i \in DOMAIN inbox' : i \in DOMAIN inbox \/ i = Len(inbox) + 1
    BY <2>1, <2>2, AppendProperties, LenProperties
  <2>6. \A d \in PairClients : ForgetsIn(inbox', d) => ForgetsIn(inbox, d)
    BY <2>5 DEF ForgetsIn
  <2>7. /\ \A d \in PairClients : tried[d] # store
        /\ \A i \in DOMAIN inbox : inbox[i].kind = "submit" => inbox[i].window # store
    BY <2>2 DEF TrustInv, Fresh
  <2>8. StoreBegun'
    BY <1>1, <2>1, <2>2, <2>3 DEF TrustInv, StoreBegun
  <2>9. Fresh'
    <3> SUFFICES ASSUME NEW w \in Nat \ {0}, (w = begun /\ opener = "publishing") \/ w > begun
                 PROVE  /\ \A d \in PairClients : tried[d] # w
                        /\ \A i \in DOMAIN inbox' : inbox'[i].kind = "submit" => inbox'[i].window # w
      BY <1>1, <2>1 DEF Fresh
    <3>1. w # store
      BY <2>2
    <3>2. /\ \A d \in PairClients : tried[d] # w
          /\ \A i \in DOMAIN inbox : inbox[i].kind = "submit" => inbox[i].window # w
      BY DEF TrustInv, Fresh
    <3> QED BY <1>2, <2>5, <3>1, <3>2
  <2>10. Ordered'
    <3> SUFFICES ASSUME NEW d \in PairClients, client'[d] = "waiting",
                        NEW i \in DOMAIN inbox', NEW j \in DOMAIN inbox',
                        inbox'[i].kind = "submit", inbox'[i].client = d,
                        inbox'[i].window = looked[d],
                        inbox'[j].kind = "forget", inbox'[j].client = d
                 PROVE  j < i
      BY <1>1 DEF Ordered
    <3>1. j \in DOMAIN inbox /\ inbox[j] = inbox'[j]
      BY <2>5
    <3>2. CASE i = Len(inbox) + 1
      BY <2>5, <3>1, <3>2
    <3>3. CASE i # Len(inbox) + 1
      <4>1. i \in DOMAIN inbox /\ inbox[i] = inbox'[i]
        BY <2>5, <3>3
      <4>2. d # c
        BY <1>2, <2>7, <4>1
      <4>3. client[d] = "waiting"
        BY <2>3, <4>2
      <4> QED BY <3>1, <4>1, <4>3 DEF TrustInv, Ordered
    <3> QED BY <3>2, <3>3
  <2>11. LiveOK'
    <3> SUFFICES ASSUME NEW d \in PairClients, Live(d)'
                 PROVE  ~ForgetsIn(inbox', d) /\ (routine[d] = "replying" => d \in list)
      BY <1>1 DEF LiveOK
    <3>1. d # c
      BY <1>1, <1>2, <2>7 DEF Live
    <3>2. Live(d)
      BY <1>1, <2>3, <3>1 DEF Live
    <3> QED BY <2>6, <3>2 DEF TrustInv, LiveOK
  <2>12. PairedOK'
    BY <1>1, <2>3, <2>6 DEF TrustInv, PairedOK
  <2>13. PairTyped'
    <3>1. inbox' \in Seq(AnyMail)
      BY <2>1, <2>2, <2>4, AppendProperties
    <3> QED BY <1>1, <2>1, <2>3, <3>1 DEF TrustInv, PairTyped
  <2> QED BY <2>8, <2>9, <2>10, <2>11, <2>12, <2>13 DEF TrustInv
<1>3. CASE store # looked[c]
  <2>1. client' = [client EXCEPT ![c] = "refused"] /\ UNCHANGED <<store, inbox>>
    BY <1>3 DEF Submit
  <2>2. /\ client'[c] = "refused" /\ \A d \in PairClients \ {c} : client'[d] = client[d]
        /\ client' \in [PairClients -> {"out", "looked", "waiting", "paired", "refused"}]
    BY <2>1 DEF TrustInv, PairTyped
  <2>3. PairTyped' /\ Fresh' /\ StoreBegun'
    BY <1>1, <2>1, <2>2 DEF TrustInv, PairTyped, Fresh, StoreBegun
  <2>4. Ordered' /\ LiveOK' /\ PairedOK'
    BY <1>1, <2>1, <2>2 DEF TrustInv, Ordered, LiveOK, Live, PairedOK, ForgetsIn
  <2> QED BY <2>3, <2>4 DEF TrustInv
<1> QED BY <1>2, <1>3

\* A removal ends the pairing of the client that asks for it.
LEMMA ForgetKeepsTrust ==
    ASSUME TrustInv, NEW c \in PairClients, ForgetPC(c)
    PROVE  TrustInv'
<1> DEFINE mail == [kind |-> "forget", client |-> c, window |-> 0]
<1>1. /\ client[c] = "paired" /\ client' = [client EXCEPT ![c] = "out"]
      /\ inbox' = Append(inbox, mail) \/ inbox' = inbox
      /\ UNCHANGED <<begun, opener, store, tried, looked, copy, list, routine>>
  BY DEF ForgetPC, pairAgentVars
<1>2. /\ client'[c] = "out" /\ \A d \in PairClients \ {c} : client'[d] = client[d]
      /\ client' \in [PairClients -> {"out", "looked", "waiting", "paired", "refused"}]
      /\ inbox \in Seq(AnyMail) /\ mail \in AnyMail
  BY <1>1 DEF TrustInv, PairTyped, AnyMail
<1>3. /\ inbox' \in Seq(AnyMail)
      /\ \A i \in DOMAIN inbox' : \/ i \in DOMAIN inbox /\ inbox'[i] = inbox[i]
                                  \/ inbox'[i] = mail
  <2>1. CASE inbox' = inbox
    BY <1>2, <2>1
  <2>2. CASE inbox' = Append(inbox, mail)
    <3> HIDE DEF mail
    <3>1. inbox' \in Seq(AnyMail) /\ Len(inbox') = Len(inbox) + 1 /\ Len(inbox) \in Nat
      BY <1>2, <2>2
    <3>2. \A i \in 1..Len(inbox') : (i \in 1..Len(inbox) /\ inbox'[i] = inbox[i]) \/ inbox'[i] = mail
      BY <1>2, <2>2, <3>1
    <3> QED BY <1>2, <3>1, <3>2
  <2> QED BY <1>1, <2>1, <2>2
<1>4. \A d \in PairClients \ {c} : ForgetsIn(inbox', d) => ForgetsIn(inbox, d)
  BY <1>3 DEF ForgetsIn
<1>5. PairTyped' /\ StoreBegun'
  BY <1>1, <1>2, <1>3 DEF TrustInv, PairTyped, StoreBegun
<1>6. Fresh'
  <2>1. mail.kind = "forget"
    OBVIOUS
  <2>2. \A i \in DOMAIN inbox' : inbox'[i].kind = "submit" => i \in DOMAIN inbox /\ inbox'[i] = inbox[i]
    BY <1>3, <2>1
  <2> QED BY <1>1, <2>2 DEF TrustInv, Fresh
<1>7. Ordered'
  <2> SUFFICES ASSUME NEW d \in PairClients, client'[d] = "waiting",
                      NEW i \in DOMAIN inbox', NEW j \in DOMAIN inbox',
                      inbox'[i].kind = "submit", inbox'[i].client = d,
                      inbox'[i].window = looked[d],
                      inbox'[j].kind = "forget", inbox'[j].client = d
               PROVE  j < i
    BY <1>1 DEF Ordered
  <2>1. d # c /\ client[d] = "waiting"
    BY <1>2
  <2>2. i \in DOMAIN inbox /\ inbox'[i] = inbox[i] /\ j \in DOMAIN inbox /\ inbox'[j] = inbox[j]
    BY <1>3, <2>1
  <2> QED BY <2>1, <2>2 DEF TrustInv, Ordered
<1>8. LiveOK' /\ PairedOK'
  BY <1>1, <1>2, <1>4 DEF TrustInv, LiveOK, Live, PairedOK
<1> QED BY <1>5, <1>6, <1>7, <1>8 DEF TrustInv

LEMMA TrustStep == TrustInv /\ [PairingNext]_pairVars => TrustInv'
<1> SUFFICES ASSUME TrustInv, [PairingNext]_pairVars PROVE TrustInv'
  OBVIOUS
<1>1. CASE OpenWindow \/ PublishWindow \/ CancelPairing \/ RevokeWindow \/ WindowExpires
  BY <1>1, WindowKeepsTrust
<1>2. CASE ReadMail
  BY <1>2, ReadMailKeepsTrust
<1>3. CASE LinkDrops \/ LinkComes
  BY <1>3, LinkKeepsTrust
<1>4. CASE \E g \in Routines : ReadList(g) \/ SendList(g)
  BY <1>4, RegisterKeepsTrust
<1>5. ASSUME NEW c \in PairClients,
             \/ CheckWindow(c) \/ ClaimWindow(c) \/ Confirm(c) \/ AddClient(c) \/ Reply(c)
             \/ LookUp(c) \/ Submit(c) \/ Timeout(c) \/ ForgetPC(c)
      PROVE  TrustInv'
  BY <1>5, HandlingKeepsTrust, AddClientKeepsTrust, ReplyKeepsTrust, ClientMovesKeepTrust,
     SubmitKeepsTrust, ForgetKeepsTrust
<1>6. CASE UNCHANGED pairVars
  <2>1. UNCHANGED <<begun, opener, store, inbox, tried, looked, copy, list, routine, client>>
    BY <1>6 DEF pairVars, pairAgentVars, pairServerVars, pairClientVars
  <2>2. PairTyped' /\ StoreBegun' /\ Fresh'
    BY <2>1 DEF TrustInv, PairTyped, StoreBegun, Fresh
  <2>3. Ordered' /\ LiveOK' /\ PairedOK'
    BY <2>1 DEF TrustInv, Ordered, LiveOK, Live, PairedOK, ForgetsIn
  <2> QED BY <2>2, <2>3 DEF TrustInv
<1> QED BY <1>1, <1>2, <1>3, <1>4, <1>5, <1>6 DEF PairingNext

LEMMA TrustInit == PairingInit => TrustInv
<1> SUFFICES ASSUME PairingInit PROVE TrustInv
  OBVIOUS
<1>1. inbox \in Seq(AnyMail) /\ DOMAIN inbox = {}
  BY EmptySeq DEF PairingInit
<1>2. PairTyped /\ StoreBegun
  BY <1>1 DEF PairingInit, PairTyped, StoreBegun
<1>3. Fresh /\ Ordered /\ LiveOK /\ PairedOK
  BY <1>1 DEF PairingInit, Fresh, Ordered, LiveOK, Live, PairedOK, Working
<1> QED BY <1>2, <1>3 DEF TrustInv

\* A client that keeps the PC is trusted by it (agent.go:437-441), for any clients, windows
\* and losses of the link.
THEOREM TrustStaysMutual == PairingSpec => []TrustIsMutual
<1>1. TrustInv => TrustIsMutual
  BY DEF TrustInv, PairedOK, TrustIsMutual
<1> QED BY <1>1, TrustInit, TrustStep, PTL DEF PairingSpec

-----------------------------------------------------------------------------
(* The list of the server.  Somebody is about to register (Owing), or what *)
(* registrations carry is the list; and a list that differs is explained.  *)

Owing == \E g \in Routines : routine[g] \in {"listing", "replying"}

Carrying == \E g \in Routines : routine[g] = "registering"

RegisteringAgrees == \A g \in Routines : routine[g] = "registering" => copy[g] = list

DifferenceExplained ==
    link => known = list \/ Owing \/ Carrying \/ \E i \in DOMAIN inbox : inbox[i].kind = "forget"

ServerListInv ==
    /\ routine \in [Routines -> {"idle", "checking", "claiming", "confirming", "adding", "replying",
                                 "listing", "registering"}]
    /\ copy \in [Routines -> SUBSET PairClients] /\ list \subseteq PairClients
    /\ inbox \in Seq(AnyMail)
    /\ ~overlapped /\ ~unsaved => (Owing \/ RegisteringAgrees) /\ DifferenceExplained

\* A routine that moves on moves nobody else.
LEMMA GoesAlone ==
    ASSUME ServerListInv, NEW g \in Routines, NEW from, NEW to, Goes(g, from, to)
    PROVE  /\ routine[g] = from /\ routine'[g] = to
           /\ \A h \in Routines \ {g} : routine'[h] = routine[h]
  BY DEF ServerListInv, Goes

LEMMA ServerListStep == TrustInv /\ ServerListInv /\ [PairingNext]_pairVars => ServerListInv'
<1> SUFFICES ASSUME TrustInv, ServerListInv, [PairingNext]_pairVars PROVE ServerListInv'
  OBVIOUS
<1>1. TrustInv'
  BY TrustStep
<1>2. /\ routine' \in [Routines -> {"idle", "checking", "claiming", "confirming", "adding", "replying",
                                    "listing", "registering"}]
      /\ copy' \in [Routines -> SUBSET PairClients] /\ list' \subseteq PairClients
      /\ inbox' \in Seq(AnyMail)
  BY <1>1 DEF TrustInv, PairTyped
<1> SUFFICES ASSUME ~overlapped', ~unsaved'
             PROVE  (Owing' \/ RegisteringAgrees') /\ DifferenceExplained'
  BY <1>2 DEF ServerListInv
<1> DEFINE Explained == (Owing \/ RegisteringAgrees) /\ DifferenceExplained
<1>3. CASE \/ OpenWindow \/ PublishWindow \/ CancelPairing \/ RevokeWindow \/ WindowExpires
           \/ (\E c \in PairClients : LookUp(c) \/ Timeout(c)) \/ UNCHANGED pairVars
  <2>1. UNCHANGED <<routine, copy, list, known, link, inbox, overlapped, unsaved>>
    BY <1>3 DEF OpenWindow, PublishWindow, CancelPairing, RevokeWindow, WindowExpires, LookUp, Timeout,
                pairVars, pairAgentVars, pairServerVars, pairClientVars, pairHistory
  <2> QED BY <2>1 DEF ServerListInv, Owing, Carrying, RegisteringAgrees, DifferenceExplained
<1>4. CASE ReadMail
  <2>1. /\ inbox # <<>> /\ inbox' = Tail(inbox) /\ inbox \in Seq(AnyMail)
        /\ UNCHANGED <<copy, known, link, overlapped, unsaved>>
    BY <1>4 DEF ReadMail, pairHistory, ServerListInv
  <2>2. /\ 1 \in DOMAIN inbox /\ Head(inbox) = inbox[1] /\ inbox[1] \in AnyMail
        /\ DOMAIN inbox = 1..Len(inbox) /\ Len(inbox) \in Nat
        /\ DOMAIN inbox' = 1..(Len(inbox) - 1)
        /\ \A i \in DOMAIN inbox' : inbox'[i] = inbox[i + 1]
    BY <2>1, HeadTailProperties, LenProperties, EmptySeq
  <2>3. CASE /\ Head(inbox).kind = "submit" /\ Goes(Head(inbox).client, "idle", "checking")
             /\ UNCHANGED list
    <3>1. PICK g \in Routines : g = Head(inbox).client
      BY <2>2 DEF AnyMail, Routines
    <3>2. /\ routine[g] = "idle" /\ routine'[g] = "checking"
          /\ \A h \in Routines \ {g} : routine'[h] = routine[h]
      BY <2>3, <3>1, GoesAlone
    <3>3. (Owing' <=> Owing) /\ (Carrying' <=> Carrying) /\ (RegisteringAgrees' <=> RegisteringAgrees)
      BY <2>1, <2>3, <3>2 DEF Owing, Carrying, RegisteringAgrees
    <3>4. ASSUME NEW i \in DOMAIN inbox, inbox[i].kind = "forget"
          PROVE  \E j \in DOMAIN inbox' : inbox'[j].kind = "forget"
      <4>1. i # 1 /\ i - 1 \in DOMAIN inbox'
        BY <2>2, <2>3, <3>4
      <4>2. inbox'[i - 1] = inbox[i]
        BY <2>2, <4>1
      <4> QED BY <3>4, <4>1, <4>2
    <3> QED BY <2>1, <2>3, <3>3, <3>4 DEF ServerListInv, DifferenceExplained
  <2>4. CASE Goes(Reader, "idle", "listing")
    <3>1. Owing'
      BY <2>4, GoesAlone DEF Owing, Routines
    <3> QED BY <3>1 DEF DifferenceExplained
  <2> QED BY <1>4, <2>3, <2>4 DEF ReadMail
<1>5. CASE LinkDrops
  <2>1. ~link' /\ UNCHANGED <<routine, copy, list, overlapped, unsaved>>
    BY <1>5 DEF LinkDrops, pairAgentVars, pairHistory
  <2> QED BY <2>1 DEF ServerListInv, Owing, RegisteringAgrees, DifferenceExplained
<1>6. CASE LinkComes
  <2>1. Owing'
    BY <1>6, GoesAlone DEF LinkComes, Owing, Routines
  <2> QED BY <2>1 DEF DifferenceExplained
<1>7. ASSUME NEW g \in Routines, ReadList(g) PROVE Explained'
  <2>1. /\ copy' = [copy EXCEPT ![g] = list]
        /\ overlapped' = (overlapped \/ \E h \in Routines : routine[h] = "registering")
        /\ UNCHANGED list
    BY <1>7 DEF ReadList
  <2>2. /\ routine'[g] = "registering" /\ \A h \in Routines \ {g} : routine'[h] = routine[h]
    BY <1>7, GoesAlone DEF ReadList
  <2>3. \A h \in Routines : routine[h] # "registering"
    BY <2>1, Zenon
  <2>4. copy'[g] = list
    BY <2>1 DEF ServerListInv
  <2>5. RegisteringAgrees' /\ Carrying'
    BY <2>1, <2>2, <2>3, <2>4 DEF RegisteringAgrees, Carrying
  <2> QED BY <2>5 DEF DifferenceExplained
<1>8. ASSUME NEW g \in Routines, SendList(g) PROVE Explained'
  <2>1. /\ known' = IF link THEN copy[g] ELSE known
        /\ UNCHANGED <<list, copy, link, inbox, overlapped, unsaved>>
    BY <1>8 DEF SendList, pairHistory
  <2>2. /\ routine[g] = "registering" /\ routine'[g] = "idle"
        /\ \A h \in Routines \ {g} : routine'[h] = routine[h]
    BY <1>8, GoesAlone DEF SendList
  <2>3. Owing' <=> Owing
    BY <2>2 DEF Owing
  <2>4. CASE Owing
    BY <2>3, <2>4 DEF DifferenceExplained
  <2>5. CASE ~Owing
    <3>1. RegisteringAgrees
      BY <2>1, <2>5 DEF ServerListInv
    <3>2. copy[g] = list
      BY <2>2, <3>1 DEF RegisteringAgrees
    <3>3. RegisteringAgrees'
      BY <2>1, <2>2, <3>1 DEF RegisteringAgrees
    <3> QED BY <2>1, <3>2, <3>3 DEF DifferenceExplained
  <2> QED BY <2>4, <2>5
<1>9. ASSUME NEW c \in PairClients, CheckWindow(c) \/ ClaimWindow(c) \/ Confirm(c) PROVE Explained'
  <2>1. UNCHANGED <<copy, list, known, link, inbox, overlapped, unsaved>>
    BY <1>9 DEF CheckWindow, ClaimWindow, Confirm, pairServerVars, pairHistory
  <2>2. c \in Routines
    BY DEF Routines
  <2>3. /\ routine[c] \in {"checking", "claiming", "confirming"}
        /\ routine'[c] \in {"claiming", "confirming", "adding", "idle"}
        /\ \A h \in Routines \ {c} : routine'[h] = routine[h]
    BY <1>9, <2>2, GoesAlone DEF CheckWindow, ClaimWindow, Confirm
  <2>4. (Owing' <=> Owing) /\ (Carrying' <=> Carrying) /\ (RegisteringAgrees' <=> RegisteringAgrees)
    BY <2>1, <2>3 DEF Owing, Carrying, RegisteringAgrees
  <2> QED BY <2>1, <2>4 DEF ServerListInv, DifferenceExplained
<1>10. ASSUME NEW c \in PairClients, AddClient(c) \/ Reply(c) PROVE Explained'
  <2>1. \E to \in {"replying", "listing"} : routine'[c] = to
    <3>1. c \in Routines
      BY DEF Routines
    <3>2. CASE AddClient(c)
      <4>1. Goes(c, "adding", "replying")
        BY <3>2 DEF AddClient
      <4> QED BY <3>1, <4>1, GoesAlone
    <3>3. CASE Reply(c)
      BY <3>1, <3>3, GoesAlone DEF Reply
    <3> QED BY <1>10, <3>2, <3>3
  <2>2. Owing'
    BY <2>1 DEF Owing, Routines
  <2> QED BY <2>2 DEF DifferenceExplained
<1>11. ASSUME NEW c \in PairClients, Submit(c) \/ ForgetPC(c) PROVE Explained'
  <2>1. UNCHANGED <<routine, copy, list, link, overlapped, unsaved>>
    BY <1>11 DEF Submit, ForgetPC, pairAgentVars, pairHistory
  <2>2. inbox \in Seq(AnyMail) /\ 0 \in Nat /\ looked[c] \in Nat
    BY DEF ServerListInv, TrustInv, PairTyped
  <2>3. \A mail \in AnyMail :
           LET mails == Append(inbox, mail)
           IN  /\ \A i \in DOMAIN inbox : i \in DOMAIN mails /\ mails[i] = inbox[i]
               /\ mail.kind = "forget" => \E i \in DOMAIN mails : mails[i].kind = "forget"
    <3> TAKE mail \in AnyMail
    <3> DEFINE mails == Append(inbox, mail)
    <3>1. /\ Len(inbox) \in Nat /\ DOMAIN inbox = 1..Len(inbox) /\ DOMAIN mails = 1..(Len(inbox) + 1)
          /\ \A i \in DOMAIN inbox : mails[i] = inbox[i]
          /\ mails[Len(inbox) + 1] = mail
      BY <2>2, AppendProperties, LenProperties
    <3> QED BY <3>1
  <2>4. CASE Submit(c)
    <3>1. known' = known /\ (inbox' = inbox \/ inbox' = Append(inbox, [kind |-> "submit", client |-> c, window |-> looked[c]]))
      BY <2>4 DEF Submit
    <3>2. [kind |-> "submit", client |-> c, window |-> looked[c]] \in AnyMail
      BY <2>2 DEF AnyMail
    <3>3. (\E i \in DOMAIN inbox : inbox[i].kind = "forget") =>
             \E i \in DOMAIN inbox' : inbox'[i].kind = "forget"
      BY <2>3, <3>1, <3>2
    <3> QED BY <2>1, <3>1, <3>3 DEF ServerListInv, Owing, Carrying, RegisteringAgrees, DifferenceExplained
  <2>5. CASE ForgetPC(c)
    <3> DEFINE mail == [kind |-> "forget", client |-> c, window |-> 0]
    <3>1. link => inbox' = Append(inbox, mail)
      BY <2>5 DEF ForgetPC
    <3>2. mail \in AnyMail
      BY <2>2 DEF AnyMail
    <3>3. link => \E i \in DOMAIN inbox' : inbox'[i].kind = "forget"
      BY <2>3, <3>1, <3>2
    <3> QED BY <2>1, <3>3 DEF ServerListInv, Owing, RegisteringAgrees, DifferenceExplained
  <2> QED BY <1>11, <2>4, <2>5
<1> QED BY <1>3, <1>4, <1>5, <1>6, <1>7, <1>8, <1>9, <1>10, <1>11 DEF PairingNext

\* When a connected PC is at rest the server lists whom the PC trusts (agent.go:254-260,
\* 448), for any clients, windows and losses of the link.
THEOREM ServerListStaysAgreed == PairingSpec => []ServerListAgrees
<1>1. PairingInit => ServerListInv
  <2> SUFFICES ASSUME PairingInit PROVE ServerListInv
    OBVIOUS
  <2>1. TrustInv
    BY TrustInit
  <2> QED BY <2>1 DEF PairingInit, ServerListInv, TrustInv, PairTyped, RegisteringAgrees, DifferenceExplained
<1>2. ServerListInv => ServerListAgrees
  BY DEF ServerListInv, Owing, Carrying, DifferenceExplained, ServerListAgrees
<1> QED BY <1>1, <1>2, TrustInit, TrustStep, ServerListStep, PTL DEF PairingSpec

LEMMA PairTypeInit == PairingInit => PairingTypeOK
<1> SUFFICES ASSUME PairingInit PROVE PairingTypeOK
  OBVIOUS
<1>1. 0 \in Windows /\ 0 \in 0..MaxDrops /\ inbox \in Seq(Mail)
  BY AgentPairingAssumption, EmptySeq DEF Windows, PairingInit
<1> QED BY <1>1 DEF PairingInit, PairingTypeOK

\* The windows and the messages of the pairing exchange keep their type.
LEMMA PairTypeStep == TrustInv /\ PairingTypeOK /\ [PairingNext]_pairVars => PairingTypeOK'
<1> SUFFICES ASSUME TrustInv, PairingTypeOK, [PairingNext]_pairVars PROVE PairingTypeOK'
  OBVIOUS
<1> USE DEF pairAgentVars, pairServerVars, pairClientVars, pairHistory
<1>1. PairTyped'
  BY TrustStep DEF TrustInv
<1>2. 0 \in Windows /\ pairing \in Windows /\ begun \in Windows /\ store \in Windows
  BY AgentPairingAssumption DEF Windows, PairingTypeOK
<1>3. pairing' \in Windows /\ begun' \in Windows /\ store' \in Windows
  <2>1. CASE OpenWindow
    <3>1. begun + 1 \in Windows
      BY <1>2, <2>1, AgentPairingAssumption DEF Windows, OpenWindow
    <3> QED BY <1>2, <2>1, <3>1 DEF OpenWindow
  <2>2. CASE PublishWindow \/ CancelPairing \/ RevokeWindow \/ WindowExpires
    BY <1>2, <2>2 DEF PublishWindow, CancelPairing, RevokeWindow, WindowExpires
  <2>3. CASE ReadMail \/ LinkDrops \/ LinkComes
    BY <1>2, <2>3 DEF ReadMail, LinkDrops, LinkComes
  <2>4. ASSUME NEW g \in Routines, ReadList(g) \/ SendList(g)
        PROVE  pairing' \in Windows /\ begun' \in Windows /\ store' \in Windows
    BY <1>2, <2>4 DEF ReadList, SendList
  <2>5. ASSUME NEW c \in PairClients,
               CheckWindow(c) \/ ClaimWindow(c) \/ Confirm(c) \/ AddClient(c) \/ Reply(c)
        PROVE  pairing' \in Windows /\ begun' \in Windows /\ store' \in Windows
    BY <1>2, <2>5 DEF CheckWindow, ClaimWindow, Confirm, AddClient, Reply
  <2>6. ASSUME NEW c \in PairClients, LookUp(c) \/ Submit(c) \/ Timeout(c) \/ ForgetPC(c)
        PROVE  pairing' \in Windows /\ begun' \in Windows /\ store' \in Windows
    BY <1>2, <2>6 DEF LookUp, Submit, Timeout, ForgetPC
  <2>7. CASE UNCHANGED pairVars
    BY <1>2, <2>7 DEF pairVars
  <2> QED BY <2>1, <2>2, <2>3, <2>4, <2>5, <2>6, <2>7 DEF PairingNext
<1>4. tried \in [PairClients -> Windows] /\ looked \in [PairClients -> Windows] /\ inbox \in Seq(Mail)
  BY DEF PairingTypeOK
<1>5. tried' \in [PairClients -> Windows] /\ looked' \in [PairClients -> Windows] /\ inbox' \in Seq(Mail)
  <2>1. CASE ReadMail
    <3>1. inbox # <<>> /\ inbox' = Tail(inbox) /\ looked' = looked
          /\ (tried' = [tried EXCEPT ![Head(inbox).client] = Head(inbox).window] \/ tried' = tried)
      BY <2>1 DEF ReadMail
    <3>2. Head(inbox) \in Mail /\ Tail(inbox) \in Seq(Mail)
      BY <1>4, <3>1, HeadTailProperties
    <3>3. Head(inbox).window \in Windows
      BY <3>2 DEF Mail
    <3> QED BY <1>4, <3>1, <3>2, <3>3
  <2>2. CASE LinkDrops
    BY <1>4, <2>2, EmptySeq DEF LinkDrops
  <2>3. ASSUME NEW c \in PairClients, LookUp(c)
        PROVE  tried' \in [PairClients -> Windows] /\ looked' \in [PairClients -> Windows] /\ inbox' \in Seq(Mail)
    BY <1>2, <1>4, <2>3 DEF LookUp
  <2>4. ASSUME NEW c \in PairClients, Submit(c)
        PROVE  tried' \in [PairClients -> Windows] /\ looked' \in [PairClients -> Windows] /\ inbox' \in Seq(Mail)
    <3>1. tried' = tried /\ looked' = looked
          /\ (inbox' = Append(inbox, [kind |-> "submit", client |-> c, window |-> looked[c]]) \/ inbox' = inbox)
      BY <2>4 DEF Submit
    <3>2. [kind |-> "submit", client |-> c, window |-> looked[c]] \in Mail
      BY <1>4 DEF Mail
    <3> QED BY <1>4, <3>1, <3>2, AppendProperties
  <2>5. ASSUME NEW c \in PairClients, ForgetPC(c)
        PROVE  tried' \in [PairClients -> Windows] /\ looked' \in [PairClients -> Windows] /\ inbox' \in Seq(Mail)
    <3>1. tried' = tried /\ looked' = looked
          /\ (inbox' = Append(inbox, [kind |-> "forget", client |-> c, window |-> 0]) \/ inbox' = inbox)
      BY <2>5 DEF ForgetPC
    <3>2. [kind |-> "forget", client |-> c, window |-> 0] \in Mail
      BY <1>2 DEF Mail
    <3> QED BY <1>4, <3>1, <3>2, AppendProperties
  <2>6. CASE UNCHANGED <<tried, looked, inbox>>
    BY <1>4, <2>6
  <2> QED BY <2>1, <2>2, <2>3, <2>4, <2>5, <2>6 DEF PairingNext, pairVars, OpenWindow, PublishWindow,
       CancelPairing, RevokeWindow, WindowExpires, LinkComes, ReadList, SendList, CheckWindow, ClaimWindow,
       Confirm, AddClient, Reply, Timeout
<1>6. known' \subseteq PairClients
  <2>1. known \subseteq PairClients /\ copy \in [Routines -> SUBSET PairClients]
    BY DEF PairingTypeOK
  <2>2. ASSUME NEW g \in Routines, SendList(g) PROVE known' \subseteq PairClients
    BY <2>1, <2>2 DEF SendList
  <2>3. ASSUME NEW c \in PairClients, ForgetPC(c) PROVE known' \subseteq PairClients
    BY <2>1, <2>3 DEF ForgetPC
  <2>4. CASE UNCHANGED known
    BY <2>1, <2>4
  <2> QED BY <2>2, <2>3, <2>4 DEF PairingNext, pairVars, OpenWindow, PublishWindow,
       CancelPairing, RevokeWindow, WindowExpires, LinkComes, LinkDrops, ReadMail, ReadList, CheckWindow,
       ClaimWindow, Confirm, AddClient, Reply, LookUp, Submit, Timeout
<1>7. opener' \in {"idle", "publishing", "revoking"} /\ drops' \in 0..MaxDrops
  <2>1. opener \in {"idle", "publishing", "revoking"} /\ drops \in 0..MaxDrops
    BY DEF PairingTypeOK
  <2>2. CASE LinkDrops
    BY <2>1, <2>2, AgentPairingAssumption DEF LinkDrops
  <2>3. CASE OpenWindow \/ PublishWindow \/ CancelPairing \/ RevokeWindow
    BY <2>1, <2>3 DEF OpenWindow, PublishWindow, CancelPairing, RevokeWindow
  <2>4. CASE UNCHANGED <<opener, drops>>
    BY <2>1, <2>4
  <2> QED BY <2>2, <2>3, <2>4 DEF PairingNext, pairVars, WindowExpires, LinkComes, ReadMail, ReadList, SendList,
       CheckWindow, ClaimWindow, Confirm, AddClient, Reply, LookUp, Submit, Timeout, ForgetPC
<1>8. link' \in BOOLEAN /\ overlapped' \in BOOLEAN /\ unsaved' \in BOOLEAN
  <2>1. link \in BOOLEAN /\ overlapped \in BOOLEAN /\ unsaved \in BOOLEAN
    BY DEF PairingTypeOK
  <2> QED BY <2>1 DEF PairingNext, pairVars, OpenWindow, PublishWindow,
       CancelPairing, RevokeWindow, WindowExpires, LinkComes, LinkDrops, ReadMail, ReadList, SendList, CheckWindow,
       ClaimWindow, Confirm, AddClient, Reply, LookUp, Submit, Timeout, ForgetPC
<1> QED BY <1>1, <1>3, <1>5, <1>6, <1>7, <1>8 DEF PairTyped, PairingTypeOK

\* No window is tried, looked up or published that was not opened, and the messages of the
\* link are those of devices that pair (agent.go:304-470), for any devices and losses
\* (PairingTypeOK of AgentPairing).
THEOREM PairTypesKept == PairingSpec => []PairingTypeOK
  BY TrustInit, TrustStep, PairTypeInit, PairTypeStep, PTL DEF PairingSpec

-----------------------------------------------------------------------------
(* Waking: Wake.  Two inductive invariants that share no variable but the  *)
(* power.  The deadline of the manager is never before the latest one it   *)
(* has promised, and without a hold that one has passed; the task of       *)
(* Windows is the one of the running manager unless an error or another    *)
(* process is noted.                                                       *)

HoldTyped ==
    /\ hour \in Nat /\ {holdUntil, asking, promise} \subseteq Int
    /\ hold \in {"none", "asking", "held"}

HoldInv ==
    /\ HoldTyped
    /\ promise <= holdUntil
    /\ hold = "asking" => asking <= holdUntil
    /\ hold # "held" => promise < hour
    /\ power = "asleep" => hold # "held"

ScheduleInv ==
    /\ minutes \in CheckIns
    /\ manager = {} \/ \E m \in CheckIns : manager = {m}
    /\ ~failed /\ ~overridden /\ ~standby =>
          \A m \in manager \ {0} : schedule = {[every |-> Every(m), wakes |-> TRUE]}
    /\ method = "checkin" => ~standby /\ 0 \notin manager

-----------------------------------------------------------------------------
\* The later of two deadlines.
LEMMA LaterIsLatest ==
    ASSUME NEW a \in Int, NEW b \in Int
    PROVE  Later(a, b) \in Int /\ a <= Later(a, b) /\ b <= Later(a, b)
           /\ \A c \in Int : a <= c /\ b <= c => Later(a, b) <= c
  BY DEF Later

LEMMA StayAwakeKeepsHold ==
    ASSUME HoldInv, NEW d \in Stays, StayAwake(d)
    PROVE  HoldInv'
<1>1. d \in Nat /\ hour \in Nat /\ holdUntil \in Int /\ promise \in Int /\ asking \in Int
  BY WakeAssumption DEF HoldInv, HoldTyped
<1>2. hour + d \in Int
  BY <1>1
<1>3. /\ power' = power /\ hour' = hour /\ power = "awake"
      /\ holdUntil' = Later(holdUntil, hour + d)
  BY DEF StayAwake
<1>4. CASE hold = "held"
  <2>1. promise' = Later(promise, hour + d) /\ UNCHANGED <<hold, asking>>
    BY <1>4 DEF StayAwake
  <2>2. promise <= holdUntil
    BY DEF HoldInv
  <2>3. promise' <= holdUntil' /\ promise' \in Int /\ holdUntil' \in Int
    BY <1>1, <1>2, <1>3, <2>1, <2>2, LaterIsLatest DEF Later
  <2> QED BY <1>1, <1>3, <1>4, <2>1, <2>3 DEF HoldInv, HoldTyped
<1>5. CASE hold # "held"
  <2>1. hold' = "asking" /\ asking' = hour + d /\ UNCHANGED promise
    BY <1>5 DEF StayAwake
  <2>2. promise <= holdUntil /\ promise < hour
    BY <1>5 DEF HoldInv
  <2>3. promise' <= holdUntil' /\ asking' <= holdUntil' /\ holdUntil' \in Int
    BY <1>1, <1>2, <1>3, <2>1, <2>2, LaterIsLatest DEF Later
  <2> QED BY <1>1, <1>2, <1>3, <2>1, <2>2, <2>3 DEF HoldInv, HoldTyped
<1> QED BY <1>4, <1>5

LEMMA HoldStep == HoldInv /\ [WakeNext]_wakeVars => HoldInv'
<1> SUFFICES ASSUME HoldInv, [WakeNext]_wakeVars PROVE HoldInv'
  OBVIOUS
<1> USE DEF HoldInv, HoldTyped
<1>1. CASE \E d \in Stays : StayAwake(d)
  BY <1>1, StayAwakeKeepsHold
<1>2. CASE HoldMade
  BY <1>2, LaterIsLatest DEF HoldMade
<1>3. CASE HoldRefused
  BY <1>3 DEF HoldRefused
<1>4. CASE HoldExpires
  BY <1>4 DEF HoldExpires
<1>5. CASE HoldReleased
  BY <1>5 DEF HoldReleased
<1>6. CASE StopAgent
  BY <1>6 DEF StopAgent, Never
<1>7. CASE FallsAsleep
  BY <1>7 DEF FallsAsleep, holdVars
<1>8. CASE HourPasses
  BY <1>8 DEF HourPasses, holdVars
<1>9. CASE TimerFires \/ CheckInEnds \/ WakesUp
  BY <1>9 DEF TimerFires, CheckInEnds, WakesUp, holdVars
<1>10. CASE SetMinutes \/ StartAgent \/ PairingProcess \/ ReportWake \/ AdapterChanges
  BY <1>10 DEF SetMinutes, StartAgent, PairingProcess, ReportWake, AdapterChanges, holdVars
<1>11. CASE UNCHANGED wakeVars
  BY <1>11 DEF wakeVars, holdVars
<1> QED BY <1>1, <1>2, <1>3, <1>4, <1>5, <1>6, <1>7, <1>8, <1>9, <1>10, <1>11 DEF WakeNext

-----------------------------------------------------------------------------
\* A schedule that was applied without an error is the one of the settings.
LEMMA AppliedSchedule ==
    ASSUME NEW m, m # 0, ~standby, NEW error, ~error, ApplySchedule(m, error)
    PROVE  schedule' = {[every |-> Every(m), wakes |-> TRUE]}
  BY DEF ApplySchedule

LEMMA ScheduleStep == ScheduleInv /\ [WakeNext]_wakeVars => ScheduleInv'
<1> SUFFICES ASSUME ScheduleInv, [WakeNext]_wakeVars PROVE ScheduleInv'
  OBVIOUS
<1>1. CASE SetMinutes
  BY <1>1 DEF SetMinutes, ScheduleInv
<1>2. CASE StartAgent
  <2>1. /\ manager' = {minutes} /\ method' = "unknown" /\ standby' = standby
        /\ minutes' = minutes /\ ApplySchedule(minutes, failed')
    BY <1>2 DEF StartAgent
  <2>2. ~failed' /\ ~standby' /\ minutes # 0 =>
           schedule' = {[every |-> Every(minutes), wakes |-> TRUE]}
    BY <2>1, AppliedSchedule
  <2> QED BY <2>1, <2>2 DEF ScheduleInv
<1>3. CASE PairingProcess
  <2>1. PICK error \in BOOLEAN :
          /\ ApplySchedule(minutes, error)
          /\ overridden' = (overridden \/ error \/ minutes \notin manager)
    BY <1>3 DEF PairingProcess
  <2>2. UNCHANGED <<minutes, manager, method, failed, standby>>
    BY <1>3 DEF PairingProcess
  <2>3. ASSUME ~failed', ~overridden', ~standby', NEW m \in manager' \ {0}
        PROVE  schedule' = {[every |-> Every(m), wakes |-> TRUE]}
    <3>1. ~error /\ minutes \in manager
      BY <2>1, <2>3
    <3>2. m = minutes
      BY <2>2, <2>3, <3>1 DEF ScheduleInv
    <3> QED BY <2>1, <2>2, <2>3, <3>1, <3>2, AppliedSchedule
  <2> QED BY <2>2, <2>3 DEF ScheduleInv
<1>4. CASE StopAgent
  BY <1>4 DEF StopAgent, ScheduleInv
<1>5. CASE ReportWake
  <2>1. PICK m \in manager : method' = Capability(m)
    BY <1>5 DEF ReportWake
  <2>2. UNCHANGED <<minutes, manager, schedule, failed, overridden, standby>> /\ manager = {m}
    BY <1>5, <2>1 DEF ReportWake, ScheduleInv
  <2>3. method' = "checkin" => m # 0 /\ ~standby
    BY <2>1 DEF Capability
  <2> QED BY <2>2, <2>3 DEF ScheduleInv
<1>6. CASE AdapterChanges \/ FallsAsleep \/ TimerFires \/ CheckInEnds \/ WakesUp \/ HourPasses
  BY <1>6 DEF AdapterChanges, FallsAsleep, TimerFires, CheckInEnds, WakesUp, HourPasses,
              scheduleVars, ScheduleInv
<1>7. CASE (\E d \in Stays : StayAwake(d)) \/ HoldMade \/ HoldRefused \/ HoldExpires \/ HoldReleased
  BY <1>7 DEF StayAwake, HoldMade, HoldRefused, HoldExpires, HoldReleased, scheduleVars, ScheduleInv
<1>8. CASE UNCHANGED wakeVars
  BY <1>8 DEF wakeVars, scheduleVars, ScheduleInv
<1> QED BY <1>1, <1>2, <1>3, <1>4, <1>5, <1>6, <1>7, <1>8 DEF WakeNext

-----------------------------------------------------------------------------
\* The deadline of the manager is never before what it has promised.
THEOREM HoldInvariant == WakeSpec => []HoldInv
<1>1. WakeInit => HoldInv
  BY DEF WakeInit, HoldInv, HoldTyped, Never
<1> QED BY <1>1, HoldStep, PTL DEF WakeSpec

\* The task is the one of the running manager, or an exception is noted.
THEOREM ScheduleInvariant == WakeSpec => []ScheduleInv
<1>1. WakeInit => ScheduleInv
  BY DEF WakeInit, ScheduleInv
<1> QED BY <1>1, ScheduleStep, PTL DEF WakeSpec

\* A PC stays awake as long as it has promised, and what it says of checking in is true
\* (wake.go:292-390, platform_windows.go:145-196), for any intervals and durations.
THEOREM WakeStaysHonest == WakeSpec => []WakeIsHonest
<1>1. HoldInv /\ ScheduleInv => WakeIsHonest
  <2> SUFFICES ASSUME HoldInv, ScheduleInv PROVE WakeIsHonest
    OBVIOUS
  <2>1. power = "asleep" => hour > promise
    BY DEF HoldInv, HoldTyped
  <2>2. method = "checkin" /\ ~failed /\ ~overridden =>
          \A m \in manager : [every |-> Every(m), wakes |-> TRUE] \in schedule
    BY DEF ScheduleInv
  <2> QED BY <2>1, <2>2 DEF WakeIsHonest
<1> QED BY <1>1, HoldInvariant, ScheduleInvariant, PTL

\* An interval within the limits.
LEMMA EveryIsWithin == ASSUME NEW m \in CheckIns PROVE Every(m) \in LeastMinutes..MostMinutes
  BY WakeAssumption DEF Every

LEMMA WakeTypeInit == WakeInit => WakeTypeOK
<1> SUFFICES ASSUME WakeInit PROVE WakeTypeOK
  OBVIOUS
<1>1. /\ hour \in 0..MaxWakeTime /\ leaving \in Nat /\ edits \in 0..MaxEdits
      /\ holdUntil \in Int /\ asking \in Int /\ promise \in Int /\ checkIn \in Int
  BY WakeAssumption DEF WakeInit, Never
<1>2. nic \in BOOLEAN /\ standby \in BOOLEAN /\ failed \in BOOLEAN /\ overridden \in BOOLEAN
  BY DEF WakeInit
<1> QED BY <1>1, <1>2 DEF WakeInit, WakeTypeOK

\* What Apply leaves is a task of the Task Scheduler, or none.
LEMMA AppliedIsTyped ==
    ASSUME WakeTypeOK, NEW m \in CheckIns, NEW error, ApplySchedule(m, error)
    PROVE  schedule' \subseteq [every : LeastMinutes..MostMinutes, wakes : BOOLEAN]
<1>1. schedule \subseteq [every : LeastMinutes..MostMinutes, wakes : BOOLEAN]
  BY DEF WakeTypeOK
<1>2. [every |-> Every(m), wakes |-> TRUE] \in [every : LeastMinutes..MostMinutes, wakes : BOOLEAN]
      /\ [every |-> Every(m), wakes |-> FALSE] \in [every : LeastMinutes..MostMinutes, wakes : BOOLEAN]
  BY EveryIsWithin
<1>3. schedule' \in {{}, schedule, {[every |-> Every(m), wakes |-> TRUE]}, {[every |-> Every(m), wakes |-> FALSE]}}
  BY DEF ApplySchedule
<1> QED BY <1>1, <1>2, <1>3

LEMMA WakeTypeStep == HoldInv /\ ScheduleInv /\ WakeTypeOK /\ [WakeNext]_wakeVars => WakeTypeOK'
<1> SUFFICES ASSUME HoldInv, ScheduleInv, WakeTypeOK, [WakeNext]_wakeVars PROVE WakeTypeOK'
  OBVIOUS
<1>1. HoldTyped' /\ minutes' \in CheckIns /\ manager' \subseteq CheckIns
  <2>1. HoldInv' /\ ScheduleInv'
    BY HoldStep, ScheduleStep
  <2> QED BY <2>1 DEF HoldInv, ScheduleInv
<1> USE DEF scheduleVars, holdVars
<1>2. schedule' \subseteq [every : LeastMinutes..MostMinutes, wakes : BOOLEAN]
  <2>1. CASE StartAgent \/ PairingProcess
    <3>1. \E error : ApplySchedule(minutes, error)
      BY <2>1 DEF StartAgent, PairingProcess
    <3> QED BY <3>1, AppliedIsTyped DEF WakeTypeOK
  <2>2. CASE UNCHANGED schedule
    BY <2>2 DEF WakeTypeOK
  <2> QED BY <2>1, <2>2 DEF WakeNext, wakeVars, SetMinutes, StopAgent, ReportWake, AdapterChanges, StayAwake,
       HoldMade, HoldRefused, HoldExpires, HoldReleased, FallsAsleep, TimerFires, CheckInEnds, WakesUp, HourPasses
<1>3. hour' \in 0..MaxWakeTime /\ edits' \in 0..MaxEdits /\ leaving' \in Nat /\ checkIn' \in Int
  <2>1. hour \in 0..MaxWakeTime /\ edits \in 0..MaxEdits /\ leaving \in Nat /\ checkIn \in Int
    BY DEF WakeTypeOK
  <2>2. CASE HourPasses
    BY <2>1, <2>2, WakeAssumption DEF HourPasses
  <2>3. CASE SetMinutes \/ StartAgent \/ PairingProcess \/ StopAgent
    BY <2>1, <2>3, WakeAssumption DEF SetMinutes, StartAgent, PairingProcess, StopAgent
  <2>4. CASE HoldExpires \/ HoldReleased
    BY <2>1, <2>4 DEF HoldExpires, HoldReleased
  <2>5. CASE TimerFires \/ CheckInEnds
    BY <2>1, <2>5, WakeAssumption DEF TimerFires, CheckInEnds, Never
  <2>6. CASE UNCHANGED <<hour, edits, leaving, checkIn>>
    BY <2>1, <2>6
  <2> QED BY <2>2, <2>3, <2>4, <2>5, <2>6 DEF WakeNext, wakeVars, ReportWake, AdapterChanges, StayAwake,
       HoldMade, HoldRefused, FallsAsleep, WakesUp
<1>4. /\ method' \in {"unknown", "modernStandby", "lanPeer", "checkin", "none"}
      /\ power' \in {"awake", "asleep"}
  BY DEF WakeTypeOK, WakeNext, wakeVars, SetMinutes, StartAgent, PairingProcess, StopAgent, ReportWake, Capability,
     AdapterChanges, StayAwake, HoldMade, HoldRefused, HoldExpires, HoldReleased, FallsAsleep, TimerFires,
     CheckInEnds, WakesUp, HourPasses
<1>5. nic' \in BOOLEAN /\ standby' \in BOOLEAN /\ failed' \in BOOLEAN /\ overridden' \in BOOLEAN
  BY DEF WakeTypeOK, WakeNext, wakeVars, SetMinutes, StartAgent, PairingProcess, StopAgent, ReportWake,
     AdapterChanges, StayAwake, HoldMade, HoldRefused, HoldExpires, HoldReleased, FallsAsleep, TimerFires,
     CheckInEnds, WakesUp, HourPasses
<1> QED BY <1>1, <1>2, <1>3, <1>4, <1>5 DEF HoldTyped, WakeTypeOK

\* A task is at an interval within ScheduleCheckIn's limits, and no more holds are given up
\* than were made (platform_windows.go:145-196, wake.go:340-390), for any settings
\* (WakeTypeOK of Wake).
THEOREM WakeTypesKept == WakeSpec => []WakeTypeOK
  BY HoldInvariant, ScheduleInvariant, WakeTypeInit, WakeTypeStep, PTL DEF WakeSpec

-----------------------------------------------------------------------------
(* Displays: Displays.  The three remembered states are followed one by    *)
(* one: the rectangle from the list of the source, what is captured from   *)
(* the displays as they were when it was last made, and the picker from    *)
(* the list pumpStats compares with.                                       *)

\* Before the source is open nothing was selected and nothing is made anew.
Opening ==
    /\ listed = {} => want = 0 /\ rebuilding = {} /\ ~greeted
    /\ greeted => listed # {}
    /\ listed = {} \/ \E arrangement : listed = {arrangement}

RectFollows ==
    ~selecting => \A arrangement \in listed : want \in DOMAIN arrangement => rect = {arrangement[want]}

CaptureFollows ==
    listed # {} /\ ~lost =>
        /\ \A index \in rebuilding : captured = Found(index) /\ (~crossed => index = want)
        /\ rebuilding = {} /\ ~remake /\ ~crossed => captured = Found(want)

PickerFollows == greeted /\ compared # {} /\ ~misled => picker = compared

DisplaysInv == Opening /\ RectFollows /\ CaptureFollows /\ PickerFollows

-----------------------------------------------------------------------------
LEMMA DisplaysInitInv == DisplaysInit => DisplaysInv
  BY DEF DisplaysInit, DisplaysInv, Opening, RectFollows, CaptureFollows, PickerFollows

LEMMA RearrangedKeepsInv == ASSUME DisplaysInv, Rearranged PROVE DisplaysInv'
<1>1. Opening' /\ RectFollows' /\ PickerFollows'
  BY DEF Rearranged, pickerVars, DisplaysInv, Opening, RectFollows, PickerFollows
<1>2. CaptureFollows'
  BY DEF Rearranged, CaptureFollows
<1> QED BY <1>1, <1>2 DEF DisplaysInv

LEMMA OpenSourceKeepsInv == ASSUME DisplaysInv, OpenSource PROVE DisplaysInv'
<1>1. /\ listed = {} /\ 0 \in DOMAIN displays /\ listed' = {displays}
      /\ captured' = Found(0) /\ rect' = {displays[0]}
      /\ UNCHANGED <<want, remake, rebuilding, lost, crossed, displays, selecting>>
      /\ UNCHANGED pickerVars
  BY DEF OpenSource, RectOf
<1>2. want = 0 /\ rebuilding = {} /\ ~greeted
  BY <1>1 DEF DisplaysInv, Opening
<1>3. Opening' /\ RectFollows' /\ PickerFollows'
  BY <1>1, <1>2 DEF pickerVars, Opening, RectFollows, PickerFollows
<1>4. CaptureFollows'
  BY <1>1, <1>2 DEF CaptureFollows, Found
<1> QED BY <1>3, <1>4 DEF DisplaysInv

LEMMA RebuildBeginsKeepsInv == ASSUME DisplaysInv, RebuildBegins PROVE DisplaysInv'
<1>1. /\ listed # {} /\ rebuilding' = {want} /\ captured' = Found(want)
      /\ UNCHANGED <<listed, want, displays, rect, selecting>> /\ UNCHANGED pickerVars
  BY DEF RebuildBegins
<1>2. Opening' /\ RectFollows' /\ PickerFollows'
  BY <1>1 DEF pickerVars, DisplaysInv, Opening, RectFollows, PickerFollows
<1>3. CaptureFollows'
  BY <1>1 DEF CaptureFollows, Found
<1> QED BY <1>2, <1>3 DEF DisplaysInv

LEMMA RebuildEndsKeepsInv == ASSUME DisplaysInv, RebuildEnds PROVE DisplaysInv'
<1>1. Opening' /\ RectFollows' /\ PickerFollows'
  BY DEF RebuildEnds, pickerVars, DisplaysInv, Opening, RectFollows, PickerFollows
<1>2. CaptureFollows'
  BY DEF RebuildEnds, DisplaysInv, CaptureFollows, Found
<1> QED BY <1>1, <1>2 DEF DisplaysInv

\* What the session does with the picker leaves the source alone.
LEMMA PickerStepsKeepInv ==
    ASSUME DisplaysInv, Connected \/ SayHello \/ CheckMonitorChanges
    PROVE  DisplaysInv'
<1>1. UNCHANGED <<listed, want, remake, rebuilding, lost, captured, crossed, displays, rect, selecting>>
  BY DEF Connected, SayHello, CheckMonitorChanges, sourceVars
<1>2. RectFollows' /\ CaptureFollows'
  BY <1>1 DEF DisplaysInv, RectFollows, CaptureFollows, Found
<1>3. Opening' /\ PickerFollows'
  <2>1. CASE Connected
    BY <1>1, <2>1 DEF Connected, DisplaysInv, Opening, PickerFollows
  <2>2. CASE SayHello
    BY <1>1, <2>2 DEF SayHello, DisplaysInv, Opening, PickerFollows
  <2>3. CASE CheckMonitorChanges
    BY <1>1, <2>3 DEF CheckMonitorChanges, Tell, DisplaysInv, Opening, PickerFollows
  <2> QED BY <2>1, <2>2, <2>3
<1> QED BY <1>2, <1>3 DEF DisplaysInv

LEMMA SelectMonitorKeepsInv ==
    ASSUME DisplaysInv, NEW index \in Indexes, SelectMonitor(index)
    PROVE  DisplaysInv'
<1>1. /\ greeted /\ selecting' = TRUE /\ want' = index
      /\ remake' = (remake \/ index # want)
      /\ crossed' = (crossed \/ (rebuilding # {} /\ index # want))
      /\ UNCHANGED <<listed, rebuilding, lost, captured, displays>> /\ UNCHANGED pickerVars
  BY DEF SelectMonitor
<1>2. Opening' /\ RectFollows' /\ PickerFollows'
  BY <1>1 DEF pickerVars, DisplaysInv, Opening, RectFollows, PickerFollows
<1>3. CaptureFollows'
  <2> SUFFICES ASSUME listed # {}, ~lost
               PROVE  /\ \A i \in rebuilding : captured = Found(i) /\ (~crossed' => i = want')
                      /\ rebuilding = {} /\ ~remake' /\ ~crossed' => captured = Found(want')
    BY <1>1 DEF CaptureFollows, Found
  <2>1. \A i \in rebuilding : captured = Found(i) /\ (~crossed => i = want)
    BY DEF DisplaysInv, CaptureFollows
  <2>2. ~crossed' => ~crossed /\ (rebuilding = {} \/ index = want)
    BY <1>1, Zenon
  <2>3. ~remake' => ~remake /\ index = want
    BY <1>1, Zenon
  <2>4. rebuilding = {} /\ ~remake /\ ~crossed => captured = Found(want)
    BY DEF DisplaysInv, CaptureFollows
  <2> QED BY <1>1, <2>1, <2>2, <2>3, <2>4
<1> QED BY <1>2, <1>3 DEF DisplaysInv

LEMMA MonitorSelectedKeepsInv == ASSUME DisplaysInv, MonitorSelected PROVE DisplaysInv'
<1>1. PICK arrangement \in listed : rect' = RectOf(arrangement, want)
  BY DEF MonitorSelected
<1>2. /\ UNCHANGED <<listed, want, remake, rebuilding, lost, captured, crossed, greeted, displays, compared>>
      /\ Tell(listed)
  BY DEF MonitorSelected, sourceVars
<1>3. Opening' /\ CaptureFollows'
  BY <1>2 DEF DisplaysInv, Opening, CaptureFollows, Found
<1>4. PickerFollows'
  BY <1>2 DEF Tell, PickerFollows
<1>5. RectFollows'
  <2>1. listed = {arrangement}
    BY DEF DisplaysInv, Opening
  <2> QED BY <1>1, <1>2, <2>1 DEF RectFollows, RectOf
<1> QED BY <1>3, <1>4, <1>5 DEF DisplaysInv

LEMMA DisplaysStep == DisplaysInv /\ [DisplaysNext]_displayVars => DisplaysInv'
<1> SUFFICES ASSUME DisplaysInv, [DisplaysNext]_displayVars PROVE DisplaysInv'
  OBVIOUS
<1>1. CASE Rearranged
  BY <1>1, RearrangedKeepsInv
<1>2. CASE OpenSource
  BY <1>2, OpenSourceKeepsInv
<1>3. CASE RebuildBegins \/ RebuildEnds
  BY <1>3, RebuildBeginsKeepsInv, RebuildEndsKeepsInv
<1>4. CASE Connected \/ SayHello \/ CheckMonitorChanges
  BY <1>4, PickerStepsKeepInv
<1>5. CASE \E index \in Indexes : SelectMonitor(index)
  BY <1>5, SelectMonitorKeepsInv
<1>6. CASE MonitorSelected
  BY <1>6, MonitorSelectedKeepsInv
<1>7. CASE UNCHANGED displayVars
  BY <1>7 DEF displayVars, sourceVars, pickerVars, DisplaysInv, Opening, RectFollows,
              CaptureFollows, PickerFollows, Found
<1> QED BY <1>1, <1>2, <1>3, <1>4, <1>5, <1>6, <1>7 DEF DisplaysNext

\* The inductive invariant holds always.
THEOREM DisplaysInvariant == DisplaysSpec => []DisplaysInv
  BY DisplaysInitInv, DisplaysStep, PTL DEF DisplaysSpec

\* Clicks land on the display that is shown, and the picker shows what there is
\* (session.go:625-636, 914-941, 1131-1145), with the exceptions of the property.
THEOREM DisplaysStayAgreed == DisplaysSpec => []DisplaysAgree
<1>1. DisplaysInv => DisplaysAgree
  <2> SUFFICES ASSUME DisplaysInv PROVE DisplaysAgree
    OBVIOUS
  <2>1. ASSUME ~remake, ~lost, rebuilding = {}, ~selecting, ~crossed, listed = {displays},
               want \in DOMAIN displays
        PROVE  rect = captured
    <3>1. rect = {displays[want]}
      BY <2>1 DEF DisplaysInv, RectFollows
    <3>2. captured = Found(want)
      BY <2>1 DEF DisplaysInv, CaptureFollows
    <3> QED BY <2>1, <3>1, <3>2 DEF Found
  <2>2. greeted /\ compared = {displays} /\ ~misled => picker = {displays}
    BY DEF DisplaysInv, PickerFollows
  <2> QED BY <2>1, <2>2 DEF DisplaysAgree
<1> QED BY <1>1, DisplaysInvariant, PTL

\* A display that is found has a place.
LEMMA PlacesAreKnown ==
    ASSUME NEW a \in Arrangements
    PROVE  \A i \in DOMAIN a : i \in Indexes /\ a[i] \in Places
<1>1. PICK indexes \in SUBSET Indexes \ {{}} : a \in [indexes -> Places]
  BY DEF Arrangements
<1> QED BY <1>1

LEMMA FoundIsPlace == ASSUME DisplaysTypeOK, NEW index PROVE Found(index) \subseteq Places
  BY PlacesAreKnown DEF DisplaysTypeOK, Found

LEMMA RectIsPlace ==
    ASSUME DisplaysTypeOK, NEW arrangement \in Arrangements, NEW index PROVE RectOf(arrangement, index) \subseteq Places
  BY PlacesAreKnown DEF DisplaysTypeOK, RectOf

LEMMA DisplaysTypeInit == DisplaysInit => DisplaysTypeOK
<1> SUFFICES ASSUME DisplaysInit PROVE DisplaysTypeOK
  OBVIOUS
<1>1. /\ arrangements \in 0..MaxArrangements /\ selections \in 0..MaxSelections
      /\ backlogs \in 0..MaxBacklogs
  BY DisplaysAssumption DEF DisplaysInit
<1>2. displays \in Arrangements
  BY DEF DisplaysInit
<1> QED BY <1>1, <1>2, DisplaysAssumption DEF DisplaysInit, DisplaysTypeOK

\* The lists of displays and the places that are remembered keep their type.
LEMMA DisplaysTypeStep == DisplaysTypeOK /\ [DisplaysNext]_displayVars => DisplaysTypeOK'
<1> SUFFICES ASSUME DisplaysTypeOK, [DisplaysNext]_displayVars PROVE DisplaysTypeOK'
  OBVIOUS
<1> USE DEF sourceVars, pickerVars
<1>1. /\ displays \in Arrangements /\ listed \subseteq Arrangements /\ compared \subseteq Arrangements
      /\ picker \subseteq Arrangements
  BY DEF DisplaysTypeOK
<1>2. displays' \in Arrangements /\ listed' \subseteq Arrangements
  BY <1>1 DEF DisplaysNext, displayVars, Rearranged, OpenSource, RebuildBegins, RebuildEnds, Connected,
     SayHello, CheckMonitorChanges, SelectMonitor, MonitorSelected
<1>3. compared' \subseteq Arrangements /\ picker' \subseteq Arrangements
  BY <1>1 DEF DisplaysNext, displayVars, Rearranged, OpenSource, RebuildBegins, RebuildEnds, Connected,
     SayHello, CheckMonitorChanges, SelectMonitor, MonitorSelected, Tell
<1>4. want' \in Indexes /\ rebuilding' \subseteq Indexes
  BY DEF DisplaysTypeOK, DisplaysNext, displayVars, Rearranged, OpenSource, RebuildBegins, RebuildEnds, Connected,
     SayHello, CheckMonitorChanges, SelectMonitor, MonitorSelected
<1>5. remake' \in BOOLEAN /\ lost' \in BOOLEAN /\ selecting' \in BOOLEAN
  BY DEF DisplaysTypeOK, DisplaysNext, displayVars, Rearranged, OpenSource, RebuildBegins, RebuildEnds, Connected,
     SayHello, CheckMonitorChanges, SelectMonitor, MonitorSelected
<1>6. greeted' \in BOOLEAN /\ crossed' \in BOOLEAN /\ misled' \in BOOLEAN
  BY DEF DisplaysTypeOK, DisplaysNext, displayVars, Rearranged, OpenSource, RebuildBegins, RebuildEnds, Connected,
     SayHello, CheckMonitorChanges, SelectMonitor, MonitorSelected, Tell
<1>7. captured' \subseteq Places
  BY FoundIsPlace DEF DisplaysTypeOK, DisplaysNext, displayVars, Rearranged, OpenSource, RebuildBegins, RebuildEnds,
     Connected, SayHello, CheckMonitorChanges, SelectMonitor, MonitorSelected
<1>8. rect' \subseteq Places
  BY <1>1, RectIsPlace DEF DisplaysTypeOK, DisplaysNext, displayVars, Rearranged, OpenSource, RebuildBegins,
     RebuildEnds, Connected, SayHello, CheckMonitorChanges, SelectMonitor, MonitorSelected
<1>9. /\ arrangements' \in 0..MaxArrangements /\ selections' \in 0..MaxSelections
      /\ backlogs' \in 0..MaxBacklogs
  BY DisplaysAssumption DEF DisplaysTypeOK, DisplaysNext, displayVars, Rearranged, OpenSource, RebuildBegins,
     RebuildEnds, Connected, SayHello, CheckMonitorChanges, SelectMonitor, MonitorSelected, Tell
<1> QED BY <1>2, <1>3, <1>4, <1>5, <1>6, <1>7, <1>8, <1>9 DEF DisplaysTypeOK

\* The list of the source, what is captured and the injector's rectangle are of displays
\* the PC has or had (session.go:625-636, 1131-1145, windows.go:172-231), for any arrangements
\* (DisplaysTypeOK of Displays).
THEOREM DisplaysTypesKept == DisplaysSpec => []DisplaysTypeOK
  BY DisplaysTypeInit, DisplaysTypeStep, PTL DEF DisplaysSpec

-----------------------------------------------------------------------------
(* The quality: Quality.  Between the rung that is left and the one that   *)
(* is reached lies the margin: what was too little for the one is not      *)
(* plenty for the other.                                                   *)
Wishes == s.max \in Nat /\ s.min \in Nat /\ s.maxFPS \in 1..240 /\ s.fixed \in Nat

Target == Clamp(estimate, s.min, s.max)

QualityInv ==
    /\ q \in Controllers /\ Wishes /\ estimate \in Nat /\ window \in Nat /\ still \in 0..Dwell
    /\ q.since <= still
    /\ went \in {"nowhere", "down", "up"}
    /\ went = "down" => ~Plenty(q, Target)
    /\ went = "up" => ~TooLittle(q, Target)

\* d has been lowered, raised, or neither, since c was.
Lowered(c, d) == d.rung >= c.rung /\ d.fps <= c.fps /\ (d.rung > c.rung \/ d.fps < c.fps)
Raised(c, d) == d.rung <= c.rung /\ d.fps >= c.fps /\ (d.rung < c.rung \/ d.fps > c.fps)
Same(c, d) == d.rung = c.rung /\ d.fps = c.fps

LEMMA RungsAreNumbers ==
    /\ Len(Ladder) \in Nat /\ Len(Ladder) > 0 /\ 0 \in Rungs /\ Rungs \subseteq Int
    /\ Dwell \in Nat /\ 0 \in 0..Dwell /\ Dwell \in 0..Dwell
    /\ \A k \in 1..Len(Ladder) : Ladder[k].minBitrate \in Nat /\ Ladder[k].scale \in 1..1000
<1> DEFINE Steps == [minBitrate : Nat, scale : 1..1000]
<1>0. Ladder \in Seq(Steps) /\ Ladder # <<>>
  BY QualityAssumption
<1> HIDE DEF Steps
<1>1. Len(Ladder) \in Nat /\ Len(Ladder) > 0
  BY <1>0
<1>2. \A k \in 1..Len(Ladder) : Ladder[k] \in Steps
  BY <1>0
<1>3. Dwell \in Nat
  BY QualityAssumption
<1>4. \A k \in 1..Len(Ladder) : Ladder[k].minBitrate \in Nat /\ Ladder[k].scale \in 1..1000
  <2>1. \A step \in Steps : step.minBitrate \in Nat /\ step.scale \in 1..1000
    BY DEF Steps
  <2> QED BY <1>2, <2>1
<1> QED BY <1>1, <1>3, <1>4 DEF Rungs

LEMMA ControllerFields ==
    ASSUME NEW c \in Controllers
    PROVE  /\ c.rung \in Rungs /\ c.rung \in Int
           /\ c.fps \in 1..240 /\ c.fps \in Int
           /\ c.since \in 0..Dwell /\ c.since \in Int
<1>1. c.rung \in Rungs /\ c.fps \in 1..240 /\ c.since \in 0..Dwell
  BY DEF Controllers
<1>2. c.rung \in Int
  BY <1>1, RungsAreNumbers, ZenonT(90)
<1>3. c.fps \in Int /\ c.since \in Int
  <2>1. c.fps \in 1..240
    BY <1>1
  <2>2. c.since \in 0..Dwell
    BY <1>1
  <2>3. c.fps \in Int
    BY <2>1
  <2>4. c.since \in Int
    BY <2>2
  <2> QED BY <2>3, <2>4
<1> QED BY <1>1, <1>2, <1>3

LEMMA RungsAreOrdered ==
    ASSUME NEW r \in Rungs
    PROVE  /\ Minimum(r) \in Nat
           /\ r > 0 => r - 1 \in Rungs /\ Minimum(r - 1) \in Nat /\ Minimum(r) < Minimum(r - 1)
                       /\ Minimum(r - 1) * 100 <= Minimum(r - 1) * Margin
<1>1. Len(Ladder) \in Int
  BY RungsAreNumbers
<1>2. r \in Int /\ 0 <= r /\ r + 1 \in 1..Len(Ladder)
  BY <1>1 DEF Rungs
<1>3. Minimum(r) \in Nat
  BY <1>2, RungsAreNumbers DEF Minimum
<1>4. CASE r > 0
  <2>1. r - 1 \in Rungs /\ r \in 1..Len(Ladder) /\ r + 1 \in 2..Len(Ladder) /\ (r - 1) + 1 = r /\ (r + 1) - 1 = r
    BY <1>1, <1>2, <1>4 DEF Rungs
  <2>2. Minimum(r - 1) \in Nat /\ Minimum(r) < Minimum(r - 1)
    <3>1. Ladder[r + 1].minBitrate < Ladder[(r + 1) - 1].minBitrate
      <4>1. \A k \in 2..Len(Ladder) : Ladder[k].minBitrate < Ladder[k - 1].minBitrate
        BY QualityAssumption
      <4> QED BY <2>1, <4>1
    <3> QED BY <2>1, <3>1, RungsAreNumbers DEF Minimum
  <2>3. \A m \in Nat : m * 100 <= m * Margin
    BY QualityAssumption
  <2> QED BY <1>3, <2>1, <2>2, <2>3
<1> QED BY <1>3, <1>4

\* A condition that does not hold has no age.
LEMMA NoAge ==
    None \in None..DownAfter /\ None \in None..UpAfter /\ None \in Int /\ DownAfter \in Nat /\ UpAfter \in Nat
  BY QualityAssumption DEF None

LEMMA ClampIsBetween ==
    ASSUME NEW v \in Nat, NEW low \in Nat, NEW high \in Nat
    PROVE  Clamp(v, low, high) \in Nat
  BY DEF Clamp

LEMMA SizesAreNumbers ==
    /\ \A v \in Nat : RoundTo(v, Align) \in Nat
    /\ \A r \in Rungs : SizeForRung(r) \in Nat
<1>1. ASSUME NEW v \in Nat PROVE RoundTo(v, Align) \in Nat
  <2>1. CASE Align <= 1
    BY <2>1 DEF RoundTo
  <2>2. CASE Align > 1
    <3>1. Align \in Nat /\ Align \div 2 \in Nat
      BY <2>2, QualityAssumption
    <3>2. (v + Align \div 2) \div Align \in Nat
      <4> DEFINE w == v + Align \div 2
      <4>1. w \in Nat
        BY <3>1
      <4> HIDE DEF w
      <4>2. w \div Align \in Nat
        BY <2>2, <3>1, <4>1
      <4> QED BY <4>2 DEF w
    <3>3. \A m, n \in Nat : m * n \in Nat
      OBVIOUS
    <3>4. ((v + Align \div 2) \div Align) * Align \in Nat
      BY <3>1, <3>2, <3>3, ZenonT(90)
    <3> QED BY <2>2, <3>1, <3>4 DEF RoundTo
  <2> QED BY <2>1, <2>2, QualityAssumption
<1>2. ASSUME NEW r \in Rungs PROVE SizeForRung(r) \in Nat
  <2>1. Len(Ladder) \in Int /\ r + 1 \in 1..Len(Ladder)
    BY RungsAreNumbers DEF Rungs
  <2>2. Native * Ladder[r + 1].scale \in Nat
    <3>1. Ladder[r + 1].scale \in 1..1000
      BY <2>1, RungsAreNumbers
    <3>2. \A a \in Nat, b \in 1..1000 : a * b \in Nat
      OBVIOUS
    <3>3. Native \in Nat
      BY QualityAssumption
    <3> QED BY <3>1, <3>2, <3>3, ZenonT(90)
  <2>3. (Native * Ladder[r + 1].scale) \div 1000 \in Nat
    BY <2>2
  <2> QED BY <1>1, <2>3 DEF SizeForRung, Larger
<1> QED BY <1>1, <1>2

LEMMA ApplyRungMoves ==
    ASSUME NEW c \in Controllers, NEW r \in Rungs, NEW policy, NEW d, d = ApplyRung(c, r, policy)
    PROVE  /\ d \in Controllers /\ d.fps = c.fps
           /\ d.rung \in {c.rung, r}
           /\ d.height = c.height \/ d.since = 0
           /\ d.since \in {c.since, 0}
<1>1. Clamp(r, 0, Len(Ladder) - 1) = r
  BY RungsAreNumbers DEF Clamp, Rungs
<1>2. SizeForRung(r) \in Nat /\ None \in None..DownAfter /\ None \in None..UpAfter /\ 0 \in 0..Dwell
  BY SizesAreNumbers, NoAge, RungsAreNumbers
<1>3. \/ d = c
      \/ d = [c EXCEPT !.rung = r, !.since = 0]
      \/ d = [c EXCEPT !.rung = r, !.height = SizeForRung(r), !.since = 0, !.low = None, !.high = None]
  BY <1>1 DEF ApplyRung
<1>4. CASE d = c
  BY <1>4
<1>5. CASE d = [c EXCEPT !.rung = r, !.since = 0]
  <2>0. 0 \in 0..Dwell
    BY <1>2
  <2>1. d \in Controllers
    BY <1>5, <2>0, ZenonT(90) DEF Controllers
  <2>2. d.fps = c.fps /\ d.rung = r /\ d.since = 0
    BY <1>5 DEF Controllers
  <2> QED BY <2>1, <2>2
<1>6. CASE d = [c EXCEPT !.rung = r, !.height = SizeForRung(r), !.since = 0, !.low = None, !.high = None]
  <2> DEFINE h == SizeForRung(r)
             n == None
  <2>0. h \in Nat /\ n \in None..DownAfter /\ n \in None..UpAfter /\ 0 \in 0..Dwell
        /\ d = [c EXCEPT !.rung = r, !.height = h, !.since = 0, !.low = n, !.high = n]
    BY <1>2, <1>6
  <2> HIDE DEF h, n
  \* In two steps, one record at a time.
  <2>1. d \in Controllers
    <3> DEFINE e == [c EXCEPT !.rung = r, !.height = h, !.since = 0]
    <3>1. e \in Controllers
      BY <2>0, ZenonT(90) DEF Controllers
    <3>2. d = [e EXCEPT !.low = n, !.high = n]
      BY <2>0 DEF Controllers
    <3> HIDE DEF e
    <3> QED BY <2>0, <3>1, <3>2, ZenonT(90) DEF Controllers
  <2>2. d.fps = c.fps /\ d.rung = r /\ d.since = 0
    BY <2>0 DEF Controllers
  <2> QED BY <2>1, <2>2
<1> QED BY <1>3, <1>4, <1>5, <1>6

LEMMA SetFPSMoves ==
    ASSUME NEW c \in Controllers, NEW fps \in Int, NEW d, d = SetFPS(c, fps)
    PROVE  /\ d \in Controllers /\ d.rung = c.rung /\ d.height = c.height /\ d.since = c.since
           /\ d.fps = Clamp(fps, MinUsableFPS, 240)
<1>1. Clamp(fps, MinUsableFPS, 240) \in 1..240
  BY DEF Clamp, MinUsableFPS
<1> QED BY <1>1 DEF SetFPS, Controllers

\* Desktop on a slow line: fewer frames first, then smaller pictures, then fewer still.
LEMMA StepDownLowers ==
    ASSUME NEW c \in Controllers, NEW d, d = StepDown(c)
    PROVE  /\ d \in Controllers /\ (d = c \/ Lowered(c, d) \/ Same(c, d))
           /\ d.rung \in {c.rung, c.rung + 1}
           /\ d.height = c.height \/ d.since = 0
           /\ d.since \in {c.since, 0}
<1>0. /\ None \in None..DownAfter /\ None \in None..UpAfter /\ 0 \in 0..Dwell
      /\ c.fps \in 1..240 /\ c.rung \in Rungs /\ c.rung \in Int
  BY NoAge, RungsAreNumbers, ControllerFields
<1>1. CASE s.preset = "desktop" /\ c.fps > 30
  <2> DEFINE e == SetFPS(c, 30)
  <2>1. e \in Controllers /\ e.rung = c.rung /\ e.height = c.height /\ e.fps = 30
    BY SetFPSMoves DEF Clamp, MinUsableFPS
  <2>2. d = [e EXCEPT !.since = 0, !.low = None]
    BY <1>1 DEF StepDown
  <2> HIDE DEF e
  <2>3. e \in Controllers /\ 0 \in 0..Dwell /\ None \in None..DownAfter /\ None \in None..UpAfter
    BY <1>0, <2>1
  <2>4. d \in Controllers
    BY <2>2, <2>3, ZenonT(90) DEF Controllers
  <2>5. d.fps = e.fps /\ d.rung = e.rung /\ d.since = 0
    BY <2>2, <2>3, ZenonT(90) DEF Controllers
  <2> QED BY <1>0, <1>1, <2>1, <2>4, <2>5 DEF Lowered
<1>2. CASE ~(s.preset = "desktop" /\ c.fps > 30) /\ c.rung < Len(Ladder) - 1
  <2>1. c.rung + 1 \in Rungs
    BY <1>0, <1>2, RungsAreNumbers DEF Rungs
  <2>2. d = ApplyRung(c, c.rung + 1, s.policy)
    BY <1>2 DEF StepDown
  <2>3. /\ d \in Controllers /\ d.fps = c.fps /\ d.rung \in {c.rung, c.rung + 1}
        /\ (d.height = c.height \/ d.since = 0) /\ d.since \in {c.since, 0}
    BY <2>1, <2>2, ApplyRungMoves
  <2> QED BY <1>0, <2>3 DEF Lowered, Same
<1>3. CASE /\ ~(s.preset = "desktop" /\ c.fps > 30) /\ ~(c.rung < Len(Ladder) - 1)
           /\ c.fps > MinUsableFPS
  <2> DEFINE half == Larger(MinUsableFPS, c.fps \div 2)
             e == SetFPS(c, half)
  <2>1. half \in Int /\ half >= MinUsableFPS /\ half < c.fps /\ half <= 240
    <3> HIDE DEF e, half
    <3>1. c.fps \in Nat /\ c.fps > 15 /\ c.fps <= 240
      <4>1. c.fps \in 1..240 /\ c.fps > MinUsableFPS
        BY <1>0, <1>3
      <4> QED BY <4>1 DEF MinUsableFPS
    <3>2. c.fps \div 2 \in Int /\ c.fps \div 2 < c.fps
      BY <3>1
    <3> QED BY <3>1, <3>2 DEF half, Larger, MinUsableFPS
  <2>2. e \in Controllers /\ e.rung = c.rung /\ e.height = c.height /\ e.fps = half
    <3>1. Clamp(half, MinUsableFPS, 240) = half
      BY <2>1 DEF Clamp, MinUsableFPS
    <3> HIDE DEF half
    <3> QED BY <2>1, <3>1, SetFPSMoves
  <2>3. d = [e EXCEPT !.since = 0, !.low = None]
    BY <1>3 DEF StepDown
  <2> HIDE DEF e, half
  <2>4. d \in Controllers
    BY <1>0, <2>2, <2>3, ZenonT(90) DEF Controllers
  <2>5. d.fps = e.fps /\ d.rung = e.rung /\ d.since = 0
    BY <1>0, <2>2, <2>3, ZenonT(90) DEF Controllers
  <2> QED BY <1>0, <2>1, <2>2, <2>4, <2>5 DEF Lowered
<1>4. CASE /\ ~(s.preset = "desktop" /\ c.fps > 30) /\ ~(c.rung < Len(Ladder) - 1)
           /\ ~(c.fps > MinUsableFPS)
  BY <1>4 DEF StepDown
<1> QED BY <1>1, <1>2, <1>3, <1>4

LEMMA StepUpRaises ==
    ASSUME Wishes, NEW c \in Controllers, NEW d, d = StepUp(c)
    PROVE  /\ d \in Controllers /\ (Raised(c, d) \/ Same(c, d))
           /\ d.rung \in {c.rung, c.rung - 1} /\ (d.rung # c.rung => c.rung > 0)
           /\ d.height = c.height \/ d.since = 0
           /\ d.since \in {c.since, 0}
<1>0. /\ None \in None..DownAfter /\ None \in None..UpAfter /\ 0 \in 0..Dwell
      /\ c.fps \in 1..240 /\ c.rung \in Rungs /\ c.rung \in Int
      /\ s.maxFPS \in 1..240
  BY NoAge, RungsAreNumbers, ControllerFields DEF Wishes
<1>1. CASE c.fps < s.maxFPS
  <2> DEFINE e == SetFPS(c, s.maxFPS)
  <2>1. e \in Controllers /\ e.rung = c.rung /\ e.height = c.height /\ e.fps > c.fps
    <3>1. Clamp(s.maxFPS, MinUsableFPS, 240) > c.fps /\ s.maxFPS \in Int
      BY <1>0, <1>1 DEF Clamp, MinUsableFPS
    <3> QED BY <3>1, SetFPSMoves
  <2>2. d = [e EXCEPT !.since = 0, !.high = None]
    BY <1>1 DEF StepUp
  <2> HIDE DEF e
  <2>3. e \in Controllers /\ 0 \in 0..Dwell /\ None \in None..DownAfter /\ None \in None..UpAfter
    BY <1>0, <2>1
  <2>4. d \in Controllers
    BY <2>2, <2>3, ZenonT(90) DEF Controllers
  <2>5. d.fps = e.fps /\ d.rung = e.rung /\ d.since = 0
    BY <2>2, <2>3, ZenonT(90) DEF Controllers
  <2>6. d.rung = c.rung /\ d.fps > c.fps /\ d.fps \in Int /\ c.fps \in Int /\ c.rung \in Int
    BY <1>0, <2>1, <2>5 DEF Controllers
  <2>7. Raised(c, d)
    BY <2>6 DEF Raised
  <2> QED BY <2>4, <2>5, <2>6, <2>7
<1>2. CASE ~(c.fps < s.maxFPS) /\ c.rung > 0
  <2>1. c.rung - 1 \in Rungs
    BY <1>0, <1>2, RungsAreNumbers DEF Rungs
  <2>2. d = ApplyRung(c, c.rung - 1, s.policy)
    BY <1>2 DEF StepUp
  <2>3. /\ d \in Controllers /\ d.fps = c.fps /\ d.rung \in {c.rung, c.rung - 1}
        /\ (d.height = c.height \/ d.since = 0) /\ d.since \in {c.since, 0}
    BY <2>1, <2>2, ApplyRungMoves
  <2> QED BY <1>0, <1>2, <2>3 DEF Raised, Same
<1>3. CASE ~(c.fps < s.maxFPS) /\ ~(c.rung > 0)
  BY <1>0, <1>3 DEF StepUp, Same
<1> QED BY <1>1, <1>2, <1>3

\* The ageing of the timers and the fit to the window leave rung and frame rate alone.
LEMMA AgedMoves ==
    ASSUME NEW c \in Controllers, NEW d, d = Aged(c)
    PROVE  /\ d \in Controllers /\ Same(c, d) /\ d.height = c.height
           /\ d.since = Smaller(c.since + 1, Dwell)
<1>1. /\ Smaller(c.since + 1, Dwell) \in 0..Dwell
      /\ Older(c.low, DownAfter) \in None..DownAfter /\ Older(c.high, UpAfter) \in None..UpAfter
  <2>1. c.low \in None..DownAfter /\ c.high \in None..UpAfter /\ c.since \in 0..Dwell
    BY DEF Controllers
  <2>2. Smaller(c.since + 1, Dwell) \in 0..Dwell
    BY <2>1, QualityAssumption DEF Smaller
  <2>3. \A limit \in Nat : \A age \in None..limit : Older(age, limit) \in None..limit
    BY DEF Smaller, Older, None
  <2> QED BY <2>1, <2>2, <2>3, NoAge
<1>2. d = [c EXCEPT !.since = Smaller(c.since + 1, Dwell), !.low = Older(c.low, DownAfter),
                    !.high = Older(c.high, UpAfter)]
  BY DEF Aged
<1>3. d \in Controllers
  BY <1>1, <1>2, ZenonT(90) DEF Controllers
<1>4. Same(c, d) /\ d.height = c.height /\ d.since = Smaller(c.since + 1, Dwell)
  BY <1>1, <1>2 DEF Controllers, Same
<1> QED BY <1>3, <1>4

LEMMA ViewportMoves ==
    ASSUME window \in Nat, NEW c \in Controllers, NEW d, d = ConsiderViewport(c)
    PROVE  /\ d \in Controllers /\ Same(c, d)
           /\ (d.height = c.height /\ d.since = c.since) \/ (c.since >= Dwell /\ d.since = 0)
<1> DEFINE fit == RoundTo(Smaller(window, Native), Align)
<1>1. fit \in Nat /\ 0 \in 0..Dwell
  <2>1. Smaller(window, Native) \in Nat
    BY QualityAssumption DEF Smaller
  <2> QED BY <2>1, SizesAreNumbers, QualityAssumption
<1>2. d = c \/ (c.since >= Dwell /\ d = [c EXCEPT !.height = fit, !.since = 0])
  BY DEF ConsiderViewport
<1> HIDE DEF fit
<1>3. CASE d = c
  BY <1>3 DEF Same
<1>4. CASE c.since >= Dwell /\ d = [c EXCEPT !.height = fit, !.since = 0]
  <2>1. d \in Controllers
    BY <1>1, <1>4, ZenonT(90) DEF Controllers
  <2>2. Same(c, d) /\ d.since = 0
    BY <1>1, <1>4, ZenonT(90) DEF Controllers, Same
  <2> QED BY <1>4, <2>1, <2>2
<1> QED BY <1>2, <1>3, <1>4

LEMMA TrackMoves ==
    ASSUME NEW c \in Controllers, NEW target \in Nat, NEW d, d = Track(c, target)
    PROVE  d \in Controllers /\ Same(c, d) /\ d.height = c.height /\ d.since = c.since
<1>1. d = c \/ d = [c EXCEPT !.bitrate = target]
  BY DEF Track
<1>2. CASE d = [c EXCEPT !.bitrate = target]
  <2>1. d \in Controllers
    BY <1>2 DEF Controllers
  <2> QED BY <1>2, <2>1 DEF Controllers, Same
<1> QED BY <1>1, <1>2 DEF Same

\* Down only with too little, up only with plenty.
LEMMA SteppedMoves ==
    ASSUME Wishes, NEW c \in Controllers, NEW target \in Nat, NEW d, d = Stepped(c, target)
    PROVE  /\ d \in Controllers
           /\ \/ Same(c, d)
              \/ TooLittle(c, target) /\ Lowered(c, d) /\ d.rung \in {c.rung, c.rung + 1}
              \/ /\ Plenty(c, target) /\ ~TooLittle(c, target)
                 /\ Raised(c, d) /\ d.rung \in {c.rung, c.rung - 1}
           /\ d.height = c.height \/ (c.since >= Dwell /\ d.since = 0)
           /\ d.since \in {c.since, 0}
<1>0. /\ None \in None..DownAfter /\ None \in None..UpAfter
      /\ Larger(c.low, 0) \in None..DownAfter /\ Larger(c.high, 0) \in None..UpAfter
  <2>1. c.low \in None..DownAfter /\ c.high \in None..UpAfter
    BY DEF Controllers
  <2>2. \A limit \in Nat : \A age \in None..limit : Larger(age, 0) \in None..limit
    BY DEF Larger, None
  <2> QED BY <2>1, <2>2, NoAge
<1>1. CASE TooLittle(c, target)
  <2> DEFINE e == [c EXCEPT !.high = None, !.low = Larger(c.low, 0)]
  <2>1. e \in Controllers
    BY <1>0 DEF Controllers
  <2>2. Same(c, e) /\ e.height = c.height /\ e.since = c.since
    BY <1>0 DEF Controllers, Same
  <2>3. d = e \/ (e.since >= Dwell /\ d = StepDown(e))
    BY <1>1 DEF Stepped
  <2> HIDE DEF e
  <2>4. CASE d = e
    BY <2>1, <2>2, <2>4
  <2>5. CASE e.since >= Dwell /\ d = StepDown(e)
    <3>1. /\ d \in Controllers /\ (d = e \/ Lowered(e, d) \/ Same(e, d)) /\ d.rung \in {e.rung, e.rung + 1}
          /\ (d.height = e.height \/ d.since = 0) /\ d.since \in {e.since, 0}
      BY <2>1, <2>5, StepDownLowers
    <3> QED BY <1>1, <2>2, <2>5, <3>1 DEF Lowered, Same
  <2> QED BY <2>3, <2>4, <2>5
<1>2. CASE ~TooLittle(c, target) /\ Plenty(c, target)
  <2> DEFINE e == [c EXCEPT !.low = None, !.high = Larger(c.high, 0)]
  <2>1. e \in Controllers
    BY <1>0 DEF Controllers
  <2>2. Same(c, e) /\ e.height = c.height /\ e.since = c.since
    BY <1>0 DEF Controllers, Same
  <2>3. d = e \/ (e.since >= Dwell /\ d = StepUp(e))
    BY <1>2 DEF Stepped
  <2> HIDE DEF e
  <2>4. CASE d = e
    BY <2>1, <2>2, <2>4
  <2>5. CASE e.since >= Dwell /\ d = StepUp(e)
    <3>1. /\ d \in Controllers /\ (Raised(e, d) \/ Same(e, d)) /\ d.rung \in {e.rung, e.rung - 1}
          /\ (d.height = e.height \/ d.since = 0) /\ d.since \in {e.since, 0}
      BY <2>1, <2>5, StepUpRaises
    <3> QED BY <1>2, <2>2, <2>5, <3>1 DEF Raised, Same
  <2> QED BY <2>3, <2>4, <2>5
<1>3. CASE ~TooLittle(c, target) /\ ~Plenty(c, target)
  <2>1. d = [c EXCEPT !.low = None, !.high = None]
    BY <1>3 DEF Stepped
  <2>2. d \in Controllers
    BY <1>0, <2>1, ZenonT(90) DEF Controllers
  <2>3. Same(c, d) /\ d.height = c.height /\ d.since = c.since
    BY <1>0, <2>1, ZenonT(90) DEF Controllers, Same
  <2> QED BY <2>2, <2>3
<1> QED BY <1>1, <1>2, <1>3

\* The rung that is left and the rung that is reached: between them the estimate
\* neither is too little for the one nor plenty for the other.
LEMMA ThresholdsApart ==
    ASSUME NEW c \in Controllers, NEW d \in Controllers, NEW target \in Nat
    PROVE  /\ TooLittle(c, target) /\ d.rung \in {c.rung, c.rung + 1} => ~Plenty(d, target)
           /\ Plenty(c, target) /\ ~TooLittle(c, target) /\ d.rung \in {c.rung, c.rung - 1}
              => ~TooLittle(d, target)
           /\ Same(c, d) => (Plenty(d, target) <=> Plenty(c, target))
                            /\ (TooLittle(d, target) <=> TooLittle(c, target))
<1>0. /\ c.rung \in Rungs /\ d.rung \in Rungs /\ c.rung \in Int /\ d.rung \in Int
  BY ControllerFields
<1>1. ASSUME TooLittle(c, target), d.rung = c.rung, d.rung > 0 PROVE ~Plenty(d, target)
  <2>1. target < Minimum(d.rung - 1) /\ Minimum(d.rung - 1) \in Nat
        /\ Minimum(d.rung - 1) * 100 <= Minimum(d.rung - 1) * Margin
    BY <1>0, <1>1, RungsAreOrdered DEF TooLittle
  <2> DEFINE product == Minimum(d.rung - 1) * Margin
  <2>2. product \in Int
    BY <2>1, QualityAssumption
  <2> QED BY <2>1, <2>2 DEF Plenty
<1>2. ASSUME TooLittle(c, target), d.rung = c.rung + 1 PROVE ~Plenty(d, target)
  <2>1. d.rung > 0 /\ d.rung - 1 = c.rung
    BY <1>0, <1>2, RungsAreNumbers DEF Rungs
  <2>2. target < Minimum(d.rung - 1) /\ Minimum(d.rung - 1) \in Nat
        /\ Minimum(d.rung - 1) * 100 <= Minimum(d.rung - 1) * Margin
    BY <1>0, <1>2, <2>1, RungsAreOrdered DEF TooLittle
  <2> DEFINE product == Minimum(d.rung - 1) * Margin
  <2>3. product \in Int
    BY <2>2, QualityAssumption
  <2> QED BY <2>2, <2>3 DEF Plenty
<1>3. ASSUME Plenty(c, target), d.rung = c.rung - 1 PROVE ~TooLittle(d, target)
  <2>1. c.rung > 0 /\ Minimum(d.rung) \in Nat /\ Minimum(d.rung) * 100 <= Minimum(d.rung) * Margin
        /\ target * 100 > Minimum(d.rung) * Margin
    BY <1>0, <1>3, RungsAreOrdered DEF Plenty
  <2> DEFINE product == Minimum(d.rung) * Margin
  <2>2. product \in Int
    BY <2>1, QualityAssumption
  <2> QED BY <2>1, <2>2 DEF TooLittle
<1>4. (Plenty(d, target) => d.rung > 0) /\ (Same(c, d) => d.rung = c.rung)
  BY DEF Plenty, Same
<1>5. d.rung = c.rung => (Plenty(d, target) <=> Plenty(c, target))
                         /\ (TooLittle(d, target) <=> TooLittle(c, target))
  BY DEF Plenty, TooLittle
<1> QED BY <1>1, <1>2, <1>3, <1>4, <1>5

\* What one Update does.
LEMMA UpdateMoves ==
    ASSUME QualityInv, UpdateQuality
    PROVE  /\ q' \in Controllers /\ Target \in Nat /\ Target' = Target
           /\ \/ Same(q, q')
              \/ TooLittle(q, Target) /\ Lowered(q, q') /\ q'.rung \in {q.rung, q.rung + 1}
              \/ /\ Plenty(q, Target) /\ ~TooLittle(q, Target)
                 /\ Raised(q, q') /\ q'.rung \in {q.rung, q.rung - 1}
           /\ q'.height = q.height \/ (q.since + 1 >= Dwell /\ q'.since = 0)
           /\ q'.since \in {Smaller(q.since + 1, Dwell), 0}
<1> DEFINE aged == Aged(q)
           fitted == ConsiderViewport(aged)
           tracked == Track(fitted, Target)
           stepped == Stepped(tracked, Target)
<1>0. /\ q \in Controllers /\ Wishes /\ window \in Nat /\ q.since \in 0..Dwell /\ q.rung \in Int /\ q.fps \in Int
      /\ Dwell \in Nat
  <2>1. q \in Controllers /\ Wishes /\ window \in Nat /\ still \in 0..Dwell /\ q.since <= still
    BY DEF QualityInv
  <2>2. Dwell \in Nat
    BY QualityAssumption
  <2> QED BY <2>1, <2>2, ControllerFields
<1>1. Target \in Nat /\ Target' = Target
  BY ClampIsBetween DEF Target, UpdateQuality, QualityInv, Wishes
<1>2. aged \in Controllers /\ Same(q, aged) /\ aged.height = q.height /\ aged.since = Smaller(q.since + 1, Dwell)
  BY <1>0, AgedMoves
<1>3. q' = stepped \/ q' = fitted
  BY DEF UpdateQuality, Target
<1> HIDE DEF aged
<1>4. /\ fitted \in Controllers /\ Same(aged, fitted)
      /\ (fitted.height = aged.height /\ fitted.since = aged.since) \/ (aged.since >= Dwell /\ fitted.since = 0)
  BY <1>0, <1>2, ViewportMoves
<1> HIDE DEF fitted
<1>5. tracked \in Controllers /\ Same(fitted, tracked) /\ tracked.height = fitted.height /\ tracked.since = fitted.since
  BY <1>1, <1>4, TrackMoves
<1>6. /\ Same(q, fitted) /\ Same(q, tracked)
      /\ \A target \in Nat : (Plenty(tracked, target) <=> Plenty(q, target))
                          /\ (TooLittle(tracked, target) <=> TooLittle(q, target))
  <2>1. Same(q, fitted) /\ Same(q, tracked)
    BY <1>2, <1>4, <1>5 DEF Same
  <2> QED BY <1>0, <1>5, <2>1, ThresholdsApart
<1>7. aged.since >= Dwell => q.since + 1 >= Dwell
  BY <1>0, <1>2 DEF Smaller
<1>8. CASE q' = fitted
  BY <1>1, <1>2, <1>4, <1>6, <1>7, <1>8
<1> HIDE DEF tracked
<1>9. CASE q' = stepped
  <2>1. /\ q' \in Controllers
        /\ \/ Same(tracked, q')
           \/ TooLittle(tracked, Target) /\ Lowered(tracked, q') /\ q'.rung \in {tracked.rung, tracked.rung + 1}
           \/ /\ Plenty(tracked, Target) /\ ~TooLittle(tracked, Target)
              /\ Raised(tracked, q') /\ q'.rung \in {tracked.rung, tracked.rung - 1}
        /\ q'.height = tracked.height \/ (tracked.since >= Dwell /\ q'.since = 0)
        /\ q'.since \in {tracked.since, 0}
    BY <1>0, <1>1, <1>5, <1>9, SteppedMoves
  <2>2. \/ Same(q, q')
        \/ TooLittle(q, Target) /\ Lowered(q, q') /\ q'.rung \in {q.rung, q.rung + 1}
        \/ /\ Plenty(q, Target) /\ ~TooLittle(q, Target)
           /\ Raised(q, q') /\ q'.rung \in {q.rung, q.rung - 1}
    BY <1>1, <1>6, <2>1 DEF Same, Lowered, Raised
  <2>3. q'.since \in {Smaller(q.since + 1, Dwell), 0}
    BY <1>2, <1>4, <1>5, <2>1
  <2>4. q'.height = q.height \/ (q.since + 1 >= Dwell /\ q'.since = 0)
    <3>1. CASE fitted.height = aged.height /\ fitted.since = aged.since
      BY <1>2, <1>5, <1>7, <2>1, <3>1
    <3>2. CASE aged.since >= Dwell /\ fitted.since = 0
      BY <1>5, <1>7, <2>1, <3>2
    <3> QED BY <1>4, <3>1, <3>2
  <2> QED BY <1>1, <2>1, <2>2, <2>3, <2>4
<1> QED BY <1>3, <1>8, <1>9

LEMMA UpdateKeepsQuality ==
    ASSUME QualityInv, UpdateQuality
    PROVE  /\ QualityInv'
           /\ went' # went => went = "nowhere"
           /\ q'.height # q.height => still + 1 >= Dwell
<1>0. /\ q \in Controllers /\ q.since \in 0..Dwell /\ q.rung \in Int /\ q.fps \in Int
      /\ Dwell \in Nat /\ still \in 0..Dwell /\ q.since <= still
  <2>1. q \in Controllers /\ Wishes /\ window \in Nat /\ still \in 0..Dwell /\ q.since <= still
    BY DEF QualityInv
  <2>2. Dwell \in Nat
    BY QualityAssumption
  <2> QED BY <2>1, <2>2, ControllerFields
<1>1. /\ q' \in Controllers /\ Target \in Nat /\ Target' = Target
      /\ \/ Same(q, q')
         \/ TooLittle(q, Target) /\ Lowered(q, q') /\ q'.rung \in {q.rung, q.rung + 1}
         \/ /\ Plenty(q, Target) /\ ~TooLittle(q, Target)
            /\ Raised(q, q') /\ q'.rung \in {q.rung, q.rung - 1}
      /\ q'.height = q.height \/ (q.since + 1 >= Dwell /\ q'.since = 0)
      /\ q'.since \in {Smaller(q.since + 1, Dwell), 0}
  BY UpdateMoves
<1>2. q'.rung \in Int /\ q'.fps \in Int
  BY <1>1, ControllerFields
<1>3. /\ went' = CASE q'.rung > q.rung \/ q'.fps < q.fps -> "down"
                   [] q'.rung < q.rung \/ q'.fps > q.fps -> "up"
                   [] OTHER -> went
      /\ still' = IF q'.height # q.height THEN 0 ELSE Smaller(still + 1, Dwell)
      /\ UNCHANGED <<s, estimate, window>>
  BY DEF UpdateQuality
<1>4. still' \in 0..Dwell /\ q'.since <= still' /\ (q'.height # q.height => still + 1 >= Dwell)
  BY <1>0, <1>1, <1>3 DEF Smaller
<1>5. /\ went' \in {"nowhere", "down", "up"} /\ (went' # went => went = "nowhere")
      /\ (went' = "down" => ~Plenty(q', Target)) /\ (went' = "up" => ~TooLittle(q', Target))
  <2>1. CASE Same(q, q')
    <3>1. went' = went
      BY <1>0, <1>2, <1>3, <2>1 DEF Same
    <3> QED BY <1>0, <1>1, <2>1, <3>1, ThresholdsApart DEF QualityInv
  <2>2. CASE TooLittle(q, Target) /\ Lowered(q, q') /\ q'.rung \in {q.rung, q.rung + 1}
    <3>1. went' = "down"
      BY <1>0, <1>2, <1>3, <2>2 DEF Lowered
    <3>2. ~Plenty(q', Target)
      BY <1>0, <1>1, <2>2, ThresholdsApart
    <3> QED BY <2>2, <3>1, <3>2 DEF QualityInv
  <2>3. CASE /\ Plenty(q, Target) /\ ~TooLittle(q, Target)
             /\ Raised(q, q') /\ q'.rung \in {q.rung, q.rung - 1}
    <3>1. went' = "up"
      BY <1>0, <1>2, <1>3, <2>3 DEF Raised
    <3>2. ~TooLittle(q', Target)
      BY <1>0, <1>1, <2>3, ThresholdsApart
    <3> QED BY <2>3, <3>1, <3>2 DEF QualityInv
  <2> QED BY <1>1, <2>1, <2>2, <2>3
<1>6. Wishes' /\ estimate' \in Nat /\ window' \in Nat
  BY <1>3 DEF QualityInv, Wishes
<1>7. (went' = "down" => ~Plenty(q', Target')) /\ (went' = "up" => ~TooLittle(q', Target'))
  BY <1>1, <1>5
<1> QED BY <1>1, <1>4, <1>5, <1>6, <1>7 DEF QualityInv, Plenty, TooLittle, Minimum

\* Apply: a preset and a policy.
LEMMA PresetMoves ==
    ASSUME NEW c \in Controllers, NEW new, new.maxFPS \in 1..240, NEW d, d = PresetApplied(c, new)
    PROVE  d \in Controllers /\ d.since \in {c.since, 0}
<1>1. CASE new.preset = "gaming"
  <2>1. d = SetFPS(c, new.maxFPS) /\ new.maxFPS \in Int
    BY <1>1 DEF PresetApplied
  <2> QED BY <2>1, SetFPSMoves
<1>2. CASE new.preset = "desktop"
  <2> DEFINE fps == Smaller(new.maxFPS, 60)
             e == SetFPS(c, fps)
  <2>1. fps \in Int /\ 0 \in Rungs
    <3>1. \A n \in 1..240 : Smaller(n, 60) \in Int
      BY DEF Smaller
    <3> QED BY <3>1, RungsAreNumbers, ZenonT(90)
  <2>2. d = ApplyRung(e, 0, new.policy)
    BY <1>2 DEF PresetApplied
  <2> HIDE DEF fps
  <2>3. e \in Controllers /\ e.since = c.since
    BY <2>1, SetFPSMoves
  <2> HIDE DEF e
  <2> QED BY <2>1, <2>2, <2>3, ApplyRungMoves
<1>3. CASE new.preset \notin {"gaming", "desktop"}
  BY <1>3 DEF PresetApplied
<1> QED BY <1>1, <1>2, <1>3

LEMMA PolicyMoves ==
    ASSUME NEW c \in Controllers, NEW new, new.fixed \in Nat, NEW d, d = PolicyApplied(c, new)
    PROVE  d \in Controllers /\ d.since = c.since
<1> DEFINE size == RoundTo(new.fixed, Align)
<1>1. size \in Nat /\ Native \in Nat /\ 0 \in Rungs
  <2>1. new.fixed \in Nat /\ Native \in Nat
    BY QualityAssumption
  <2> QED BY <2>1, SizesAreNumbers, RungsAreNumbers
<1>2. d = c \/ d = [c EXCEPT !.height = Native, !.rung = 0] \/ d = [c EXCEPT !.height = size]
  <2>1. CASE new.policy = "native"
    BY <2>1 DEF PolicyApplied
  <2>2. CASE new.policy = "fixed"
    BY <2>2 DEF PolicyApplied
  <2>3. CASE new.policy \notin {"native", "fixed"}
    BY <2>3 DEF PolicyApplied
  <2> QED BY <2>1, <2>2, <2>3
<1> HIDE DEF size
<1>3. CASE d = [c EXCEPT !.height = Native, !.rung = 0]
  <2>1. d \in Controllers
    BY <1>1, <1>3, ZenonT(90) DEF Controllers
  <2> QED BY <1>3, <2>1 DEF Controllers
<1>4. CASE d = [c EXCEPT !.height = size]
  <2>1. d \in Controllers
    BY <1>1, <1>4, ZenonT(90) DEF Controllers
  <2> QED BY <1>4, <2>1 DEF Controllers
<1> QED BY <1>2, <1>3, <1>4

LEMMA ApplyKeepsQuality == ASSUME QualityInv, Apply PROVE QualityInv' /\ went' = "nowhere"
<1>1. PICK preset \in Presets, policy \in Policies, adaptive \in BOOLEAN, fps \in FrameRates,
           cap \in Caps, floor \in Floors, fixed \in WindowSizes :
         /\ s' = Requested(preset, policy, adaptive, fps, cap, floor, fixed)
         /\ q' = PolicyApplied(PresetApplied(q, s'), s')
         /\ went' = "nowhere" /\ UNCHANGED <<estimate, window, still>>
  BY DEF Apply
<1>2. s'.maxFPS \in 1..240 /\ s'.max \in Nat /\ s'.min \in Nat /\ s'.fixed \in Nat
  <2>1. fps \in 0..240 /\ cap \in Nat /\ floor \in Nat /\ fixed \in Nat /\ Lowest \in Nat
    BY QualityAssumption
  <2>2. Clamp(fps, MinUsableFPS, 240) \in 1..240
    BY <2>1 DEF Clamp, MinUsableFPS
  <2>3. /\ s'.maxFPS = IF fps > 0 THEN Clamp(fps, MinUsableFPS, 240) ELSE s.maxFPS
        /\ s'.max = IF cap > 0 THEN cap ELSE s.max
        /\ s'.min = IF floor > 0 THEN Clamp(floor, Lowest, s'.max) ELSE s.min
        /\ s'.fixed = fixed
    BY <1>1 DEF Requested
  <2>4. s.maxFPS \in 1..240 /\ s.max \in Nat /\ s.min \in Nat
    BY DEF QualityInv, Wishes
  <2>5. s'.max \in Nat
    BY <2>1, <2>3, <2>4
  <2>6. Clamp(floor, Lowest, s'.max) \in Nat
    BY <2>1, <2>5, ClampIsBetween
  <2> QED BY <2>1, <2>2, <2>3, <2>4, <2>5, <2>6
<1>3. q \in Controllers
  BY DEF QualityInv
<1> DEFINE e == PresetApplied(q, s')
<1>4. e \in Controllers /\ e.since \in {q.since, 0}
  BY <1>2, <1>3, PresetMoves
<1>5. q' = PolicyApplied(e, s')
  BY <1>1
<1> HIDE DEF e
<1>6. q' \in Controllers /\ q'.since = e.since
  BY <1>2, <1>4, <1>5, PolicyMoves
<1>7. Wishes' /\ estimate' \in Nat /\ window' \in Nat /\ still' \in 0..Dwell /\ (q.since <= still)'
  BY <1>1, <1>2, <1>4, <1>6 DEF QualityInv, Wishes
<1> QED BY <1>1, <1>6, <1>7 DEF QualityInv

LEMMA QualityStarts == QualityInit => QualityInv
<1> SUFFICES ASSUME QualityInit PROVE QualityInv
  OBVIOUS
<1>1. PICK preset \in Presets, fps \in FrameRates :
          /\ q = [rung |-> 0, fps |-> IF fps = 0 THEN 60 ELSE fps, bitrate |-> StartBitrate, height |-> Native,
                  since |-> 0, low |-> None, high |-> None]
          /\ s = [preset |-> preset, policy |-> "auto", adaptive |-> TRUE,
                  maxFPS |-> IF fps = 0 THEN 60 ELSE fps, max |-> Highest, min |-> Lowest, fixed |-> 0]
  BY DEF QualityInit
<1>2. fps \in 0..240 /\ 0 \in Rungs /\ StartBitrate \in Nat /\ Native \in Nat
      /\ None \in None..DownAfter /\ None \in None..UpAfter
      /\ 0 \in 0..Dwell /\ Dwell \in 0..Dwell /\ Dwell \in Nat
  <2>1. fps \in 0..240 /\ StartBitrate \in Nat /\ Native \in Nat
    BY QualityAssumption
  <2> QED BY <2>1, RungsAreNumbers, NoAge
<1>3. q \in Controllers /\ q.since = 0
  BY <1>1, <1>2 DEF Controllers
<1>4. Wishes
  BY <1>1, <1>2, QualityAssumption DEF Wishes
<1> QED BY <1>2, <1>3, <1>4 DEF QualityInit, QualityInv

LEMMA QualityStep == QualityInv /\ [QualityNext]_qualityVars => QualityInv'
<1> SUFFICES ASSUME QualityInv, [QualityNext]_qualityVars PROVE QualityInv'
  OBVIOUS
<1>1. CASE UNCHANGED qualityVars
  BY <1>1 DEF qualityVars, QualityInv, Wishes, Target, Plenty, TooLittle
<1>2. CASE Outside
  <2>1. /\ went' = "nowhere" /\ UNCHANGED <<q, s, still>>
        /\ (estimate' \in Estimates /\ window' = window) \/ (window' \in WindowSizes /\ estimate' = estimate)
    BY <1>2 DEF Outside
  <2>2. estimate' \in Nat /\ window' \in Nat
    <3>1. Estimates \subseteq Nat /\ WindowSizes \subseteq Nat
      BY QualityAssumption
    <3>2. estimate \in Nat /\ window \in Nat
      BY DEF QualityInv
    <3> QED BY <2>1, <3>1, <3>2
  <2> QED BY <2>1, <2>2 DEF QualityInv, Wishes
<1> QED BY <1>1, <1>2, ApplyKeepsQuality, UpdateKeepsQuality DEF QualityNext

\* While nothing changes outside, the controller never takes back what it did, and two
\* changes of size are rungDwell apart, for any ladder, margin of at least 100 % and
\* times (NoPumping of Quality).
THEOREM QualityDoesNotPump == QualitySpec => NoPumping
<1>1. QualityInv /\ [QualityNext]_qualityVars =>
        [/\ went' # went => went = "nowhere" \/ went' = "nowhere"
         /\ q'.height # q.height /\ UpdateQuality => still + 1 >= Dwell]_qualityVars
  BY ApplyKeepsQuality, UpdateKeepsQuality DEF QualityNext, Outside
<1> QED BY <1>1, QualityStarts, QualityStep, PTL DEF QualitySpec, NoPumping

\* The requests keep their type.
LEMMA WantedInit == QualityInit => QualityTypeOK
<1> SUFFICES ASSUME QualityInit PROVE QualityTypeOK
  OBVIOUS
<1>1. QualityInv
  BY QualityStarts
<1>2. PICK preset \in Presets, fps \in FrameRates :
          s = [preset |-> preset, policy |-> "auto", adaptive |-> TRUE,
               maxFPS |-> IF fps = 0 THEN 60 ELSE fps, max |-> Highest, min |-> Lowest, fixed |-> 0]
  BY DEF QualityInit
<1> DEFINE rate == IF fps = 0 THEN 60 ELSE fps
<1>3. rate \in 1..240 /\ Highest \in Nat /\ Lowest \in Nat /\ 0 \in Nat /\ "auto" \in Policies
  <2>1. fps \in 0..240
    BY QualityAssumption
  <2> QED BY <2>1, QualityAssumption DEF Policies
<1>4. s = [preset |-> preset, policy |-> "auto", adaptive |-> TRUE, maxFPS |-> rate, max |-> Highest,
           min |-> Lowest, fixed |-> 0]
  BY <1>2
<1> HIDE DEF rate
<1>5. s \in Wanted
  BY <1>3, <1>4, ZenonT(90) DEF Wanted
<1>6. rescales \in BOOLEAN
  BY DEF QualityInit
<1>7. events \in 0..MaxEvents
  BY QualityAssumption DEF QualityInit
<1> QED BY <1>1, <1>5, <1>6, <1>7 DEF QualityInv, QualityTypeOK

LEMMA WantedStep == QualityInv /\ QualityTypeOK /\ [QualityNext]_qualityVars => QualityTypeOK'
<1> SUFFICES ASSUME QualityInv, QualityTypeOK, [QualityNext]_qualityVars PROVE QualityTypeOK'
  OBVIOUS
<1>1. QualityInv'
  BY QualityStep
<1>2. s \in Wanted /\ rescales \in BOOLEAN /\ events \in 0..MaxEvents
  BY DEF QualityTypeOK
<1>3. s' \in Wanted
  <2>1. CASE Apply
    <3>1. PICK preset \in Presets, policy \in Policies, adaptive \in BOOLEAN, fps \in FrameRates,
               cap \in Caps, floor \in Floors, fixed \in WindowSizes :
             s' = Requested(preset, policy, adaptive, fps, cap, floor, fixed)
      BY <2>1 DEF Apply
    <3> DEFINE top == IF cap > 0 THEN cap ELSE s.max
               rate == IF fps > 0 THEN Clamp(fps, MinUsableFPS, 240) ELSE s.maxFPS
               least == IF floor > 0 THEN Clamp(floor, Lowest, top) ELSE s.min
    <3>2. s' = [preset |-> preset, policy |-> policy, adaptive |-> adaptive, maxFPS |-> rate, max |-> top,
                min |-> least, fixed |-> fixed]
      BY <3>1 DEF Requested
    <3>3. s.maxFPS \in 1..240 /\ s.max \in Nat /\ s.min \in Nat
      BY DEF QualityInv, Wishes
    <3>4. fps \in 0..240 /\ cap \in Nat /\ floor \in Nat /\ fixed \in Nat /\ Lowest \in Nat
      BY QualityAssumption
    <3>5. rate \in 1..240 /\ top \in Nat
      BY <3>3, <3>4 DEF Clamp, MinUsableFPS
    <3>6. least \in Nat
      <4> HIDE DEF top
      <4> QED BY <3>3, <3>4, <3>5, ClampIsBetween
    <3> HIDE DEF rate, top, least
    <3> QED BY <3>2, <3>4, <3>5, <3>6, ZenonT(90) DEF Wanted
  <2>2. CASE UNCHANGED s
    BY <1>2, <2>2
  <2> QED BY <2>1, <2>2 DEF QualityNext, Outside, UpdateQuality, qualityVars
<1>4. rescales' \in BOOLEAN
  BY <1>2 DEF QualityNext, Outside, Apply, UpdateQuality, qualityVars
<1>5. events' \in 0..MaxEvents
  <2>1. (events < MaxEvents /\ events' = events + 1) \/ events' = events
    BY DEF QualityNext, Outside, Apply, UpdateQuality, qualityVars
  <2> QED BY <1>2, <2>1, QualityAssumption
<1> QED BY <1>1, <1>3, <1>4, <1>5 DEF QualityInv, QualityTypeOK

\* What the controller has decided and what it was asked for stay within their ranges
\* (quality.go:25-43, 136-165), for any ladder and any requests (QualityTypeOK of Quality).
THEOREM QualityTypesKept == QualitySpec => []QualityTypeOK
  BY QualityStarts, QualityStep, WantedInit, WantedStep, PTL DEF QualitySpec

-----------------------------------------------------------------------------
(* The link to the server: RvClient.  A request is in the map, in the      *)
(* hands of one goroutine that will fill its channel, or has its answer:   *)
(* never in two of these places, so that no channel is filled twice.       *)
LinkTyped ==
    /\ last \in Nat
    /\ waiters \subseteq Requests /\ failing \subseteq Requests /\ delivering \in Requests \cup {Idle}
    /\ box \in [Requests -> {<<>>, <<"answer">>, <<"closed">>}]
    /\ at \in [Requests -> {"new", "registered", "writing", "waiting", "leaving", "over"}]
    /\ on \in [Requests -> Nat]

\* There is a connection to use just while session runs on it, and an answer is
\* delivered, or the waiters are failed, in its own part of a connection's life.
Using == {"greeting", "proving", "up"}

LinkPhases ==
    /\ ws = IF runs \in Using THEN last ELSE NoConnection
    /\ runs \in Using => last # 0
    /\ delivering # Idle => runs = "up"
    /\ failing # {} => runs = "failing"

\* A request is in one place: it waits in the map, is about to be told, or has been.
OncePlaced ==
    /\ waiters \cap failing = {}
    /\ delivering \notin waiters /\ delivering \notin failing
    /\ \A r \in Requests :
          /\ r \in waiters \/ r \in failing \/ r = delivering => box[r] = <<>>
          /\ at[r] = "new" => r \notin waiters /\ r \notin failing /\ r # delivering /\ box[r] = <<>>

\* Whoever may come to wait is in one of those places, and in the map only while its
\* connection is in use or the map is about to be failed.
Reachable ==
    \A r \in Requests :
        /\ at[r] \in {"registered", "writing", "waiting"} =>
              box[r] # <<>> \/ delivering = r \/ r \in failing \/ r \in waiters
        /\ at[r] \in {"writing", "waiting"} /\ r \in waiters =>
              on[r] # NoConnection /\ (on[r] = ws \/ runs = "ending")

LinkInv == LinkTyped /\ LinkPhases /\ OncePlaced /\ Reachable

LEMMA LinkInit == RvInit => LinkInv
  BY RvClientAssumption DEF RvInit, LinkInv, LinkTyped, LinkPhases, OncePlaced, Reachable, Using,
     NoConnection

\* Steps of the connection that leave the requests alone.
LEMMA ConnectionKeepsLink ==
    ASSUME LinkInv, UNCHANGED <<rvWaitVars, rvCallVars>>,
           \/ UNCHANGED <<runs, ws, last>>
           \/ runs \notin Using \cup {"ending", "failing"} /\ runs' \notin Using /\ UNCHANGED <<ws, last>>
           \/ runs \in Using /\ runs' \in Using /\ delivering = Idle /\ UNCHANGED <<ws, last>>
           \/ runs \in Using /\ delivering = Idle /\ runs' = "ending" /\ ws' = NoConnection /\ last' = last
           \/ runs = "dialling" /\ runs' = "greeting" /\ last' = last + 1 /\ ws' = last + 1
           \/ runs = "failing" /\ failing = {} /\ runs' = "returned" /\ UNCHANGED <<ws, last>>
    PROVE  LinkInv'
<1> USE DEF rvWaitVars, rvCallVars
<1>1. LinkTyped' /\ OncePlaced'
  BY DEF LinkInv, LinkTyped, OncePlaced
<1>2. LinkPhases'
  BY DEF LinkInv, LinkTyped, LinkPhases, Using
<1>3. Reachable'
  BY DEF LinkInv, LinkTyped, LinkPhases, Reachable, Using, NoConnection
<1> QED BY <1>1, <1>2, <1>3 DEF LinkInv

LEMMA LinkStep == LinkInv /\ [RvNext]_rvVars => LinkInv'
<1> SUFFICES ASSUME LinkInv, [RvNext]_rvVars PROVE LinkInv'
  OBVIOUS
<1> USE DEF rvWaitVars, rvCallVars
<1>1. CASE Check \/ DialFails \/ DialSucceeds \/ SendHello \/ SendAuth \/ Connects \/ SessionEnds
             \/ Returns \/ CloseBegins \/ CloseEnds \/ ServerHears \/ Drop
  BY <1>1, ConnectionKeepsLink DEF Check, DialFails, DialSucceeds, SendHello, SendAuth, Connects,
     SessionEnds, Returns, CloseBegins, CloseEnds, ServerHears, Drop, Using, LinkInv, LinkPhases
<1>2. CASE UNCHANGED rvVars \/ \E r \in Requests : ServerAnswers(r)
  BY <1>2, ConnectionKeepsLink DEF rvVars, rvConnVars, ServerAnswers
<1>3. CASE FailAll
  BY <1>3, RvClientAssumption DEF FailAll, LinkInv, LinkTyped, LinkPhases, OncePlaced, Reachable, Using
<1>4. CASE Read
  <2>1. /\ runs = "up" /\ delivering = Idle /\ waiters' = waiters \ {Head(inbound)}
        /\ Head(inbound) \in Requests
        /\ delivering' = IF Head(inbound) \in waiters THEN Head(inbound) ELSE Idle
        /\ UNCHANGED <<runs, ws, last, box, failing, at, on>>
    BY <1>4 DEF Read
  <2> QED BY <2>1, RvClientAssumption DEF LinkInv, LinkTyped, LinkPhases, OncePlaced, Reachable, Using
<1>5. CASE DeliverAnswer
  BY <1>5, RvClientAssumption DEF DeliverAnswer, rvConnVars, LinkInv, LinkTyped, LinkPhases, OncePlaced,
     Reachable, Using
<1>6. ASSUME NEW r \in Requests, FailOne(r) PROVE LinkInv'
  BY <1>6, RvClientAssumption DEF FailOne, rvConnVars, LinkInv, LinkTyped, LinkPhases, OncePlaced,
     Reachable, Using
<1>7. ASSUME NEW r \in Requests, Register(r) PROVE LinkInv'
  BY <1>7 DEF Register, Calls, rvConnVars, LinkInv, LinkTyped, LinkPhases, OncePlaced, Reachable
<1>8. ASSUME NEW r \in Requests, LoadWs(r) PROVE LinkInv'
  BY <1>8 DEF LoadWs, Calls, rvConnVars, LinkInv, LinkTyped, LinkPhases, OncePlaced, Reachable, Using,
     NoConnection
<1>9. ASSUME NEW r \in Requests, WriteSucceeds(r) \/ WriteErrs(r) \/ GiveUp(r) PROVE LinkInv'
  BY <1>9 DEF WriteSucceeds, WriteErrs, GiveUp, Calls, rvConnVars, LinkInv, LinkTyped, LinkPhases,
     OncePlaced, Reachable, Using
<1>10. ASSUME NEW r \in Requests, TakeAnswer(r) PROVE LinkInv'
  BY <1>10 DEF TakeAnswer, Calls, rvConnVars, LinkInv, LinkTyped, LinkPhases, OncePlaced, Reachable
<1>11. ASSUME NEW r \in Requests, Leave(r) PROVE LinkInv'
  BY <1>11 DEF Leave, Calls, rvConnVars, LinkInv, LinkTyped, LinkPhases, OncePlaced, Reachable
<1> QED BY <1>1, <1>2, <1>3, <1>4, <1>5, <1>6, <1>7, <1>8, <1>9, <1>10, <1>11 DEF RvNext

\* The goroutine that reads never blocks in a request's channel, and a request waits
\* only while an answer or the news of the loss can still come, for any requests,
\* connections and repeated answers (NobodyIsStuck of RvClient).
THEOREM NobodyGetsStuck == RvSpec => []NobodyIsStuck
<1>1. LinkInv => NobodyIsStuck
  BY RvClientAssumption DEF LinkInv, LinkTyped, OncePlaced, Reachable, NobodyIsStuck
<1> QED BY <1>1, LinkInit, LinkStep, PTL DEF RvSpec

LEMMA LinkTypeInit == RvInit => RvTypeOK
<1> SUFFICES ASSUME RvInit PROVE RvTypeOK
  OBVIOUS
<1>1. /\ outbound \in Seq(Hellos \cup Requests) /\ inbound \in Seq(Greetings \cup Requests)
      /\ box \in [Requests -> Seq({"answer", "closed"})]
  BY EmptySeq DEF RvInit
<1>2. /\ answers \in [Requests -> 0..MaxAnswers] /\ last \in 0..MaxConnections
      /\ on \in [Requests -> 0..MaxConnections]
      /\ at \in [Requests -> {"new", "registered", "writing", "waiting", "leaving", "over"}]
  BY RvClientAssumption DEF RvInit, NoConnection
<1> QED BY <1>1, <1>2 DEF RvInit, RvTypeOK

\* What the connection says of itself keeps its type.
LEMMA LinkTypeStep == LinkInv /\ RvTypeOK /\ [RvNext]_rvVars => RvTypeOK'
<1> SUFFICES ASSUME LinkInv, RvTypeOK, [RvNext]_rvVars PROVE RvTypeOK'
  OBVIOUS
<1>0. LinkInv'
  BY LinkStep
<1> USE DEF rvWaitVars, rvCallVars, rvConnVars
<1>1. /\ ws' \in {NoConnection, last'}
      /\ box' \in [Requests -> Seq({"answer", "closed"})]
      /\ waiters' \subseteq Requests /\ delivering' \in Requests \cup {Idle} /\ failing' \subseteq Requests
      /\ at' \in [Requests -> {"new", "registered", "writing", "waiting", "leaving", "over"}]
  <2>1. <<>> \in Seq({"answer", "closed"}) /\ <<"answer">> \in Seq({"answer", "closed"})
        /\ <<"closed">> \in Seq({"answer", "closed"})
    BY EmptySeq
  <2>2. LinkTyped' /\ LinkPhases'
    BY <1>0 DEF LinkInv
  <2>3. box' \in [Requests -> {<<>>, <<"answer">>, <<"closed">>}]
    BY <2>2 DEF LinkTyped
  <2>4. box' \in [Requests -> Seq({"answer", "closed"})]
    BY <2>1, <2>3
  <2> QED BY <2>2, <2>4 DEF LinkTyped, LinkPhases
<1>2. outbound \in Seq(Hellos \cup Requests) /\ inbound \in Seq(Greetings \cup Requests)
  BY DEF RvTypeOK
<1>3. /\ outbound # <<>> => Head(outbound) \in Hellos \cup Requests /\ Tail(outbound) \in Seq(Hellos \cup Requests)
      /\ inbound # <<>> => Head(inbound) \in Greetings \cup Requests /\ Tail(inbound) \in Seq(Greetings \cup Requests)
      /\ \A m \in Hellos \cup Requests : Append(outbound, m) \in Seq(Hellos \cup Requests)
      /\ \A m \in Greetings \cup Requests : Append(inbound, m) \in Seq(Greetings \cup Requests)
  <2>1. outbound # <<>> => Head(outbound) \in Hellos \cup Requests /\ Tail(outbound) \in Seq(Hellos \cup Requests)
    BY <1>2, HeadTailProperties
  <2>2. inbound # <<>> => Head(inbound) \in Greetings \cup Requests /\ Tail(inbound) \in Seq(Greetings \cup Requests)
    BY <1>2, HeadTailProperties
  <2>3. \A m \in Hellos \cup Requests : Append(outbound, m) \in Seq(Hellos \cup Requests)
    BY <1>2, AppendProperties
  <2>4. \A m \in Greetings \cup Requests : Append(inbound, m) \in Seq(Greetings \cup Requests)
    BY <1>2, AppendProperties
  <2> QED BY <2>1, <2>2, <2>3, <2>4
<1>4. outbound' \in Seq(Hellos \cup Requests) /\ inbound' \in Seq(Greetings \cup Requests)
  <2>1. CASE SendHello
    <3>1. outbound' = Append(outbound, "hello") /\ inbound' = inbound /\ "hello" \in Hellos \cup Requests
      BY <2>1 DEF SendHello, Hellos
    <3> QED BY <3>1, <1>2, <1>3
  <2>2. CASE SendAuth
    <3>1. outbound' = Append(outbound, "auth") /\ inbound # <<>> /\ inbound' = Tail(inbound)
          /\ "auth" \in Hellos \cup Requests
      BY <2>2 DEF SendAuth, Hellos
    <3> QED BY <3>1, <1>2, <1>3
  <2>3. CASE Connects \/ Read
    <3>1. outbound' = outbound /\ inbound # <<>> /\ inbound' = Tail(inbound)
      BY <2>3 DEF Connects, Read
    <3> QED BY <3>1, <1>2, <1>3
  <2>4. CASE DialSucceeds
    <3>1. outbound' = <<>> /\ inbound' = <<>>
      BY <2>4 DEF DialSucceeds
    <3> QED BY <3>1, EmptySeq
  <2>5. CASE ServerHears
    <3>1. /\ outbound # <<>> /\ outbound' = Tail(outbound)
          /\ \/ inbound' = inbound
             \/ \E m \in {"challenge", "authOK", "error"} : inbound' = Append(inbound, m)
      BY <2>5 DEF ServerHears
    <3> QED BY <3>1, <1>2, <1>3 DEF Greetings
  <2>6. ASSUME NEW r \in Requests, ServerAnswers(r)
        PROVE  outbound' \in Seq(Hellos \cup Requests) /\ inbound' \in Seq(Greetings \cup Requests)
    <3>1. outbound' = outbound /\ inbound' = Append(inbound, r)
      BY <2>6 DEF ServerAnswers
    <3> QED BY <3>1, <1>2, <1>3
  <2>7. ASSUME NEW r \in Requests, WriteSucceeds(r)
        PROVE  outbound' \in Seq(Hellos \cup Requests) /\ inbound' \in Seq(Greetings \cup Requests)
    <3>1. (outbound' = Append(outbound, r) \/ outbound' = outbound) /\ inbound' = inbound
      BY <2>7 DEF WriteSucceeds
    <3> QED BY <3>1, <1>2, <1>3
  <2>8. CASE UNCHANGED <<outbound, inbound>>
    BY <2>8, <1>2
  <2> QED BY <2>1, <2>2, <2>3, <2>4, <2>5, <2>6, <2>7, <2>8 DEF RvNext, rvVars, Check, DialFails, SessionEnds,
       FailAll, Returns, DeliverAnswer, CloseBegins, CloseEnds, Drop, FailOne, Register, LoadWs,
       WriteErrs, TakeAnswer, GiveUp, Leave
<1>5. /\ server' \in {"new", "greeted", "known", "refusing"}
      /\ answers' \in [Requests -> 0..MaxAnswers]
  <2>1. server \in {"new", "greeted", "known", "refusing"} /\ answers \in [Requests -> 0..MaxAnswers]
    BY DEF RvTypeOK
  <2>2. CASE ServerHears
    BY <2>1, <2>2 DEF ServerHears
  <2>3. CASE DialSucceeds
    BY <2>1, <2>3 DEF DialSucceeds
  <2>4. ASSUME NEW r \in Requests, ServerAnswers(r)
        PROVE  server' = server /\ answers' \in [Requests -> 0..MaxAnswers]
    <3>1. server' = server /\ answers[r] < MaxAnswers /\ answers' = [answers EXCEPT ![r] = @ + 1]
      BY <2>4 DEF ServerAnswers
    <3> QED BY <2>1, <3>1, RvClientAssumption
  <2>5. CASE UNCHANGED <<server, answers>>
    BY <2>1, <2>5
  <2> QED BY <2>1, <2>2, <2>3, <2>4, <2>5 DEF RvNext, rvVars, Check, SendHello, SendAuth, Connects, Read,
       DialFails, SessionEnds, FailAll, Returns, DeliverAnswer, CloseBegins, CloseEnds, Drop, FailOne,
       Register, LoadWs, WriteSucceeds, WriteErrs, TakeAnswer, GiveUp, Leave
<1>6. last' \in 0..MaxConnections /\ on' \in [Requests -> 0..MaxConnections]
  <2>1. /\ last \in 0..MaxConnections /\ on \in [Requests -> 0..MaxConnections]
        /\ ws \in 0..MaxConnections
    BY RvClientAssumption DEF RvTypeOK, NoConnection
  <2>2. CASE DialSucceeds
    BY <2>1, <2>2, RvClientAssumption DEF DialSucceeds
  <2>3. ASSUME NEW r \in Requests, LoadWs(r)
        PROVE  last' \in 0..MaxConnections /\ on' \in [Requests -> 0..MaxConnections]
    BY <2>1, <2>3 DEF LoadWs
  <2>4. CASE UNCHANGED <<last, on>>
    BY <2>1, <2>4
  <2> QED BY <2>2, <2>3, <2>4 DEF RvNext, rvVars, Check, SendHello, SendAuth, Connects, Read, ServerHears,
       DialFails, SessionEnds, FailAll, Returns, DeliverAnswer, CloseBegins, CloseEnds, Drop, FailOne,
       Register, WriteSucceeds, WriteErrs, TakeAnswer, GiveUp, Leave, ServerAnswers
<1>7. /\ runs' \in {"checking", "dialling", "greeting", "proving", "up", "ending", "failing",
                    "returned", "backoff", "ended"}
      /\ closer' \in {"no", "closing", "done"}
  BY DEF RvTypeOK, RvNext, rvVars, Check, DialSucceeds, DialFails, SendHello, SendAuth, Connects, SessionEnds,
       FailAll, Returns, Read, DeliverAnswer, CloseBegins, CloseEnds, ServerHears, Drop, FailOne, Register,
       LoadWs, WriteSucceeds, WriteErrs, TakeAnswer, GiveUp, Leave, ServerAnswers
<1>8. alive' \in BOOLEAN /\ connected' \in BOOLEAN
  BY DEF RvTypeOK, RvNext, rvVars, Check, DialSucceeds, DialFails, SendHello, SendAuth, Connects, SessionEnds,
       FailAll, Returns, Read, DeliverAnswer, CloseBegins, CloseEnds, ServerHears, Drop, FailOne, Register,
       LoadWs, WriteSucceeds, WriteErrs, TakeAnswer, GiveUp, Leave, ServerAnswers
<1> QED BY <1>1, <1>4, <1>5, <1>6, <1>7, <1>8 DEF RvTypeOK

\* The client's link has one connection at most, nothing but messages on its way, and every
\* call in a place the code can go on from (client.go:63-75, 420-475), for any requests and bounds
\* (RvTypeOK of RvClient).
THEOREM LinkTypesKept == RvSpec => []RvTypeOK
  BY LinkInit, LinkStep, LinkTypeInit, LinkTypeStep, PTL DEF RvSpec

-----------------------------------------------------------------------------
(* The clipboards: Clipboard.  What will have gone last when the queue is  *)
(* empty is compared with what the agent has noted, and that with what is  *)
(* on the PC's clipboard.                                                  *)
AnySending == [what : Carried, number : Nat]

ClipTyped ==
    /\ board \in Carried /\ (board # NoText => board.text # NoText.text)
    /\ lastText \in Carried /\ got \in Carried /\ exchanged \in AnySending
    /\ queue \in Seq(AnySending)
    /\ seq \in Nat /\ lastSeq \in Nat /\ seen \in Nat /\ newest \in Nat
    /\ lastSeq <= seq /\ seen <= seq /\ newest <= seq /\ exchanged.number <= seq
    /\ \A i \in DOMAIN queue : queue[i].number <= seq

\* What the agent has noted or is about to note under the present number is the text
\* on the clipboard.
Noted ==
    ~missed =>
        /\ lastSeq = seq => lastText.text = board.text
        /\ watcher = "noting" /\ seen = seq => got.text = board.text

\* While Write holds the clipboard nobody has seen its text, and nothing newer is on its way.
Held ==
    ~Free =>
        /\ newest = seq /\ board = writer
        /\ \A i \in DOMAIN queue : queue[i].number < seq
        /\ watcher = "noting" => seen < seq \/ got = NoText
        /\ exchanged.number = seq => exchanged.what = writer

\* What will have gone last when the queue is empty.
LastOut == IF queue = <<>> THEN exchanged ELSE queue[Len(queue)]

\* Unless a paste overtook it, that is the text the agent has noted.
LastIsNoted ==
    ~missed /\ Free /\ lastText # NoText /\ newest <= LastOut.number
        /\ (\A i \in DOMAIN queue : queue[i].number <= LastOut.number)
    => LastOut.what.text = lastText.text

ClipInv == ClipTyped /\ Noted /\ Held /\ LastIsNoted

\* The texts on their way are sendings, and so is what will have gone last.
LEMMA QueueTyped ==
    ASSUME ClipTyped
    PROVE  /\ \A i \in DOMAIN queue : queue[i] \in AnySending /\ queue[i].number \in Nat
           /\ LastOut \in AnySending /\ LastOut.number \in Nat /\ exchanged.number \in Nat
<1>1. \A i \in DOMAIN queue : queue[i] \in AnySending /\ queue[i].number \in Nat
  <2>1. \A i \in DOMAIN queue : queue[i] \in AnySending
    BY DEF ClipTyped
  <2> QED BY <2>1 DEF AnySending
<1>2. queue # <<>> => Len(queue) \in DOMAIN queue
  BY DEF ClipTyped
<1>3. LastOut \in AnySending
  BY <1>1, <1>2 DEF ClipTyped, LastOut
<1>4. exchanged \in AnySending
  BY DEF ClipTyped
<1> QED BY <1>1, <1>3, <1>4 DEF AnySending

LEMMA ClipInit == ClipboardInit => ClipInv
<1> SUFFICES ASSUME ClipboardInit PROVE ClipInv
  OBVIOUS
<1>1. NoText \in Carried /\ queue \in Seq(AnySending)
  BY DEF Carried, ClipboardInit
<1>2. ClipTyped
  BY <1>1 DEF ClipboardInit, ClipTyped, AnySending
<1> QED BY <1>2 DEF ClipboardInit, ClipInv, Noted, Held, LastIsNoted, Free

\* A text that may be put on the clipboard.
LEMMA WholeIsCarried == ASSUME NEW t \in Texts PROVE Whole(t) \in Carried
  BY DEF Whole, Carried

\* No text is called as nothing is.
LEMMA NamedText == \A t \in Texts : Whole(t).text # NoText.text
  BY ClipboardAssumption DEF Whole, NoText

LEMMA CopyKeepsClip == ASSUME ClipInv, CopyOnPC PROVE ClipInv'
<1>1. PICK what \in {NoText} \cup {Whole(t) : t \in Texts} : Put(what)
  BY DEF CopyOnPC
<1>2. /\ board' = what /\ seq' = seq + 1 /\ Free /\ Free'
      /\ UNCHANGED <<lastSeq, lastText, watcher, seen, got, queue, exchanged, newest, missed>>
  BY <1>1 DEF CopyOnPC, Put, Free, watchVars
<1>3. what \in Carried /\ (what # NoText => what.text # NoText.text)
  BY WholeIsCarried, NamedText DEF Carried
<1>4. ClipTyped'
  BY <1>2, <1>3, QueueTyped DEF ClipInv, ClipTyped
<1> QED BY <1>2, <1>4 DEF ClipInv, ClipTyped, Noted, Held, LastIsNoted, LastOut

LEMMA PollKeepsClip == ASSUME ClipInv, PollSeq PROVE ClipInv'
  BY DEF PollSeq, boardVars, ClipInv, ClipTyped, Noted, Held, LastIsNoted, LastOut, Free

LEMMA ReadKeepsClip == ASSUME ClipInv, ReadBoard PROVE ClipInv'
<1>1. /\ UNCHANGED <<board, seq, lastSeq, lastText, seen, queue, writer, exchanged, newest>>
      /\ \/ Free /\ got' = Cut(board) /\ missed' = missed
         \/ got' = NoText /\ missed'
  BY DEF ReadBoard, boardVars
<1>2. NoText \in Carried
  BY DEF Carried
<1>3. CASE Free /\ got' = Cut(board) /\ missed' = missed
  <2>1. Cut(board) \in Carried /\ Cut(board).text = board.text
    <3>1. board = NoText \/ board \in [text : Texts, whole : BOOLEAN]
      BY DEF ClipInv, ClipTyped, Carried
    <3>2. CASE board = NoText
      BY <3>2, <1>2, ClipboardAssumption DEF Cut, NoText
    <3>3. CASE board \in [text : Texts, whole : BOOLEAN]
      BY <3>3 DEF Cut, Carried
    <3> QED BY <3>1, <3>2, <3>3
  <2> QED BY <1>1, <1>3, <2>1 DEF ClipInv, ClipTyped, Noted, Held, LastIsNoted, LastOut, Free
<1>4. CASE got' = NoText /\ missed'
  BY <1>1, <1>2, <1>4 DEF ClipInv, ClipTyped, Noted, Held, LastIsNoted, LastOut, Free
<1> QED BY <1>1, <1>3, <1>4

LEMMA NoteKeepsClip == ASSUME ClipInv, NoteText PROVE ClipInv'
<1> DEFINE new == [what |-> got, number |-> seen]
<1>1. /\ watcher = "noting" /\ watcher' = "waiting" /\ lastSeq' = seen /\ lastText' = got
      /\ UNCHANGED <<board, seq, seen, got, writer, exchanged, newest>>
      /\ \/ (got = NoText \/ got = lastText) /\ queue' = queue /\ missed' = missed
         \/ got # NoText /\ queue' = Append(queue, new) /\ missed' = missed
         \/ queue' = queue /\ missed'
  BY DEF NoteText, boardVars
<1>2. new \in AnySending
  BY DEF ClipInv, ClipTyped, AnySending
<1>3. CASE queue' = queue
  BY <1>1, <1>3 DEF ClipInv, ClipTyped, Noted, Held, LastIsNoted, LastOut, Free
<1>4. CASE got # NoText /\ queue' = Append(queue, new) /\ missed' = missed
  <2>1. /\ queue' \in Seq(AnySending) /\ queue' # <<>> /\ queue'[Len(queue')] = new
        /\ \A i \in DOMAIN queue' : (i \in DOMAIN queue /\ queue'[i] = queue[i]) \/ queue'[i] = new
    BY <1>2, <1>4 DEF ClipInv, ClipTyped
  <2>2. ClipTyped'
    BY <1>1, <2>1 DEF ClipInv, ClipTyped
  <2>3. Noted'
    BY <1>1, <1>4 DEF ClipInv, Noted
  <2>4. Held'
    BY <1>1, <1>4, <2>1 DEF ClipInv, Held, Free
  <2>5. LastIsNoted'
    BY <1>1, <2>1 DEF LastIsNoted, LastOut
  <2> QED BY <2>2, <2>3, <2>4, <2>5 DEF ClipInv
<1> QED BY <1>1, <1>3, <1>4

LEMMA PumpKeepsClip == ASSUME ClipInv, PumpClipboard PROVE ClipInv'
<1>1. /\ queue # <<>> /\ queue' = Tail(queue) /\ queue \in Seq(AnySending)
      /\ Head(queue) = queue[1] /\ 1 \in DOMAIN queue /\ queue[1] \in AnySending
      /\ UNCHANGED <<board, seq, lastSeq, lastText, watcher, seen, got, writer>>
      /\ \/ /\ exchanged' = Head(queue) /\ missed' = missed
            /\ newest' = IF Head(queue).number > newest THEN Head(queue).number ELSE newest
         \/ missed' /\ exchanged' = exchanged /\ newest' = newest
  BY DEF PumpClipboard, boardVars, ClipInv, ClipTyped
<1>2. /\ queue' \in Seq(AnySending) /\ Len(queue') = Len(queue) - 1
      /\ \A i \in DOMAIN queue' : i + 1 \in DOMAIN queue /\ queue'[i] = queue[i + 1]
      /\ \A i \in DOMAIN queue : i # 1 => i - 1 \in DOMAIN queue' /\ queue'[i - 1] = queue[i]
  BY <1>1
<1>3. CASE missed' /\ exchanged' = exchanged /\ newest' = newest
  BY <1>1, <1>2, <1>3 DEF ClipInv, ClipTyped, Noted, Held, LastIsNoted, Free
<1>4. CASE /\ exchanged' = Head(queue) /\ missed' = missed
           /\ newest' = IF Head(queue).number > newest THEN Head(queue).number ELSE newest
  <2>0. /\ newest' \in Nat /\ newest' <= seq /\ newest' >= newest /\ newest' >= queue[1].number
        /\ newest \in Nat /\ seq \in Nat /\ queue[1].number \in Nat
    BY <1>1, <1>4 DEF ClipInv, ClipTyped, AnySending
  <2>1. ClipTyped'
    BY <1>1, <1>2, <1>4, <2>0 DEF ClipInv, ClipTyped
  <2>2. Noted'
    BY <1>1, <1>4 DEF ClipInv, Noted
  <2>3. Held'
    BY <1>1, <1>2, <1>4, <2>0 DEF ClipInv, Held, Free
  <2>4. LastOut' = LastOut
    <3>1. CASE Len(queue) = 1
      BY <1>1, <1>2, <1>4, <3>1 DEF LastOut
    <3>2. CASE Len(queue) # 1
      <4>1. queue' # <<>> /\ Len(queue) \in DOMAIN queue /\ queue'[Len(queue) - 1] = queue[Len(queue)]
        <5>1. Len(queue) \in DOMAIN queue /\ Len(queue) \in Nat
          BY <1>1
        <5>2. queue'[Len(queue) - 1] = queue[Len(queue)] /\ Len(queue') # 0
          BY <5>1, <1>2, <3>2
        <5> QED BY <5>1, <5>2, <1>2
      <4> QED BY <1>1, <1>2, <4>1 DEF LastOut
    <3> QED BY <3>1, <3>2
  <2>5. LastIsNoted'
    <3> SUFFICES ASSUME ~missed, Free, lastText # NoText, newest' <= LastOut.number,
                        \A i \in DOMAIN queue' : queue'[i].number <= LastOut.number
                 PROVE  LastOut.what.text = lastText.text
      BY <1>1, <1>4, <2>4 DEF LastIsNoted, Free
    <3>0. LastOut \in AnySending /\ LastOut.number \in Nat
      BY QueueTyped DEF ClipInv
    <3>1. newest <= LastOut.number
      BY <2>0, <3>0
    <3>2. ASSUME NEW i \in DOMAIN queue PROVE queue[i].number <= LastOut.number
      <4>1. CASE i = 1
        BY <2>0, <3>0, <4>1
      <4>2. CASE i # 1
        BY <1>2, <4>2
      <4> QED BY <4>1, <4>2
    <3> QED BY <3>1, <3>2 DEF ClipInv, LastIsNoted
  <2> QED BY <2>1, <2>2, <2>3, <2>5 DEF ClipInv
<1> QED BY <1>1, <1>3, <1>4

LEMMA WriteKeepsClip == ASSUME ClipInv, WriteBoard PROVE ClipInv'
<1>1. PICK t \in Texts : Put(Whole(t)) /\ writer' = Whole(t)
                         /\ exchanged' = [what |-> Whole(t), number |-> seq + 1]
  BY DEF WriteBoard
<1>2. /\ board' = Whole(t) /\ seq' = seq + 1 /\ newest' = seq + 1 /\ Free
      /\ UNCHANGED <<lastSeq, lastText, watcher, seen, got, queue, missed>>
  BY <1>1 DEF WriteBoard, Put, watchVars
<1>3. Whole(t) \in Carried /\ (Whole(t) # NoText => Whole(t).text # NoText.text)
  BY WholeIsCarried, NamedText
<1>4. exchanged' \in AnySending
  BY <1>1, <1>3 DEF AnySending, ClipInv, ClipTyped
<1>5. ClipTyped'
  <2>1. exchanged'.number = seq + 1
    BY <1>1
  <2> QED BY <1>2, <1>3, <1>4, <2>1, QueueTyped DEF ClipInv, ClipTyped
<1>6. Noted' /\ Held'
  BY <1>1, <1>2, QueueTyped DEF ClipInv, ClipTyped, Noted, Held
<1>7. LastIsNoted'
  BY <1>1, NamedText DEF LastIsNoted, Free
<1> QED BY <1>5, <1>6, <1>7 DEF ClipInv

LEMMA WriteNotesKeepsClip == ASSUME ClipInv, WriteNotes PROVE ClipInv'
<1>1. /\ ~Free /\ Free' /\ lastText' = writer /\ lastSeq' = seq
      /\ UNCHANGED <<board, seq, watcher, seen, got, queue, exchanged, newest, missed>>
  BY DEF WriteNotes, boardVars, watchVars, Free
<1>2. ClipTyped' /\ Noted' /\ Held'
  BY <1>1 DEF ClipInv, ClipTyped, Noted, Held
<1>3. LastIsNoted'
  <2>1. CASE queue = <<>>
    <3>1. newest = seq /\ (exchanged.number = seq => exchanged.what = writer) /\ exchanged.number \in Nat
          /\ seq \in Nat /\ exchanged.number <= seq
      BY <1>1 DEF ClipInv, ClipTyped, AnySending, Held
    <3>2. LastOut' = exchanged
      BY <1>1, <2>1 DEF LastOut
    <3> SUFFICES ASSUME newest <= exchanged.number PROVE exchanged.what.text = writer.text
      BY <1>1, <3>2 DEF LastIsNoted
    <3> QED BY <3>1
  <2>2. CASE queue # <<>>
    <3>1. Len(queue) \in DOMAIN queue /\ queue[Len(queue)] \in AnySending
      BY <2>2 DEF ClipInv, ClipTyped
    <3>2. queue[Len(queue)].number < seq /\ newest = seq
      BY <1>1, <3>1 DEF ClipInv, Held
    <3> QED BY <1>1, <2>2, <3>1, <3>2 DEF LastIsNoted, LastOut, ClipInv, ClipTyped, AnySending
  <2> QED BY <2>1, <2>2
<1> QED BY <1>2, <1>3 DEF ClipInv

LEMMA ClipStep == ClipInv /\ [ClipboardNext]_clipVars => ClipInv'
<1> SUFFICES ASSUME ClipInv, [ClipboardNext]_clipVars PROVE ClipInv'
  OBVIOUS
<1>1. CASE UNCHANGED clipVars \/ SessionChanges
  BY <1>1 DEF clipVars, boardVars, watchVars, SessionChanges, ClipInv, ClipTyped, Noted, Held,
     LastIsNoted, LastOut, Free
<1> QED BY <1>1, CopyKeepsClip, PollKeepsClip, ReadKeepsClip, NoteKeepsClip, PumpKeepsClip,
           WriteKeepsClip, WriteNotesKeepsClip DEF ClipboardNext

\* When the watcher has caught up, the text that went last is the one on the PC's
\* clipboard, for any texts and any order of copies, polls and pastes (ClipboardsAgree
\* of Clipboard, with its exceptions).
THEOREM ClipboardsStayAgreed == ClipboardSpec => []ClipboardsAgree
<1>1. ClipInv => ClipboardsAgree
  BY DEF ClipInv, ClipTyped, Noted, LastIsNoted, LastOut, ClipboardsAgree, WatcherAtRest, AnySending
<1> QED BY <1>1, ClipInit, ClipStep, PTL DEF ClipboardSpec

LEMMA ClipTypeInit == ClipboardInit => ClipboardTypeOK
<1> SUFFICES ASSUME ClipboardInit PROVE ClipboardTypeOK
  OBVIOUS
<1>1. ClipTyped
  BY ClipInit DEF ClipInv
<1>2. Sendings = AnySending
  BY DEF Sendings, AnySending
<1>3. Len(queue) = 0
  BY DEF ClipboardInit
<1>4. queue \in Seq(Sendings) /\ exchanged \in Sendings
  BY <1>1, <1>2 DEF ClipTyped
<1>5. /\ seq \in 0..MaxCopies /\ lastSeq \in 0..seq /\ seen \in 0..seq /\ newest \in 0..seq
      /\ Len(queue) <= ChangeSlots
  BY <1>3, ClipboardAssumption DEF ClipboardInit
<1>6. /\ watcher \in {"waiting", "reading", "noting"} /\ writer \in {NoText} \cup {Whole(t) : t \in Texts}
      /\ allowed \in BOOLEAN /\ missed \in BOOLEAN
  BY DEF ClipboardInit
<1> QED BY <1>1, <1>4, <1>5, <1>6 DEF ClipTyped, ClipboardTypeOK

LEMMA ClipTypeStep == ClipInv /\ ClipboardTypeOK /\ [ClipboardNext]_clipVars => ClipboardTypeOK'
<1> SUFFICES ASSUME ClipInv, ClipboardTypeOK, [ClipboardNext]_clipVars PROVE ClipboardTypeOK'
  OBVIOUS
<1>1. ClipTyped'
  BY ClipStep DEF ClipInv
<1>2. Sendings = AnySending
  BY DEF Sendings, AnySending
<1> USE DEF boardVars, watchVars
<1>3. queue' \in Seq(Sendings) /\ exchanged' \in Sendings
  BY <1>1, <1>2 DEF ClipTyped
<1>4. seq' \in 0..MaxCopies /\ watcher' \in {"waiting", "reading", "noting"}
  BY ClipboardAssumption DEF ClipboardTypeOK, ClipboardNext, clipVars, CopyOnPC, Put, PollSeq, ReadBoard, NoteText, PumpClipboard,
     WriteBoard, WriteNotes, SessionChanges
<1>5. Len(queue') <= ChangeSlots
  <2>1. queue \in Seq(Sendings) /\ Len(queue) \in Nat /\ Len(queue) <= ChangeSlots
    BY LenProperties DEF ClipboardTypeOK
  <2>2. CASE NoteText
    <3>1. \/ UNCHANGED queue
          \/ Len(queue) < ChangeSlots /\ queue' = Append(queue, [what |-> got, number |-> seen])
      BY <2>2, Zenon DEF NoteText
    <3>2. [what |-> got, number |-> seen] \in Sendings
      BY DEF Sendings, ClipboardTypeOK, ClipInv, ClipTyped
    <3> QED BY <2>1, <3>1, <3>2, AppendProperties, ClipboardAssumption
  <2>3. CASE PumpClipboard
    <3>1. queue # <<>> /\ queue' = Tail(queue)
      BY <2>3 DEF PumpClipboard
    <3>2. Len(Tail(queue)) = Len(queue) - 1
      BY <2>1, <3>1, HeadTailProperties
    <3> QED BY <2>1, <3>1, <3>2, ClipboardAssumption
  <2>4. CASE UNCHANGED queue
    BY <2>1, <2>4
  <2> QED BY <2>2, <2>3, <2>4 DEF ClipboardNext, clipVars, CopyOnPC, PollSeq, ReadBoard, WriteBoard, WriteNotes,
       SessionChanges
<1>6. writer' \in {NoText} \cup {Whole(t) : t \in Texts}
  BY DEF ClipboardTypeOK, ClipboardNext, clipVars, CopyOnPC, PollSeq, ReadBoard, NoteText, PumpClipboard,
     WriteBoard, WriteNotes, SessionChanges
<1>7. allowed' \in BOOLEAN /\ missed' \in BOOLEAN
  BY DEF ClipboardTypeOK, ClipboardNext, clipVars, CopyOnPC, PollSeq, ReadBoard, NoteText, PumpClipboard,
     WriteBoard, WriteNotes, SessionChanges
<1> QED BY <1>1, <1>3, <1>4, <1>5, <1>6, <1>7 DEF ClipTyped, ClipboardTypeOK

\* What the channel of changes holds is texts, no more than it has room for, and no number
\* is noted that the clipboard has not had (clipboard_windows.go:70-85, 179-215), for any texts
\* (ClipboardTypeOK of Clipboard).
THEOREM ClipTypesKept == ClipboardSpec => []ClipboardTypeOK
  BY ClipInit, ClipStep, ClipTypeInit, ClipTypeStep, PTL DEF ClipboardSpec

-----------------------------------------------------------------------------
(* Pictures: Video.  The flag wantKey is cleared only when a picture is    *)
(* begun, whose number is then greater than the request's; a picture that  *)
(* leaves a queue has been sent or is counted as dropped.                   *)
AnyPicture == [n : Nat, key : BOOLEAN]

VideoTyped ==
    /\ started \in Nat /\ asked \in Nat \cup {NotAsked} /\ keySent \in Nat /\ keyDropped \in Nat
    /\ frames \in Seq(AnyPicture) /\ out \subseteq AnyPicture
    /\ \A a, b \in out : a = b
    /\ forced \in BOOLEAN /\ wantKey \in BOOLEAN

\* A picture that answers the last request, in a queue.
Queued == \E picture \in out \cup {frames[i] : i \in DOMAIN frames} : picture.key /\ picture.n > asked

KeyInv ==
    /\ VideoTyped
    /\ asked <= started
    /\ thread = "coding" /\ ~wantKey => started > asked
    /\ KeyframeOnItsWay

LEMMA KeyInit == VideoInit => KeyInv
<1> SUFFICES ASSUME VideoInit PROVE KeyInv
  OBVIOUS
<1>1. started \in Nat /\ asked = -1 /\ asked <= started
  BY DEF VideoInit, NotAsked
<1>2. frames \in Seq(AnyPicture)
  BY DEF VideoInit
<1>3. VideoTyped
  BY <1>1, <1>2 DEF VideoInit, VideoTyped, NotAsked
<1> QED BY <1>1, <1>3 DEF VideoInit, KeyInv, KeyframeOnItsWay, NotAsked

\* What leaves a queue is counted when it is a key picture.
LEMMA NewestIsNewest ==
    ASSUME NEW n \in Nat, NEW picture \in AnyPicture
    PROVE  /\ Newest(n, picture) \in Nat /\ Newest(n, picture) >= n
           /\ picture.key => Newest(n, picture) >= picture.n
  BY DEF Newest, AnyPicture

LEMMA PublishKeepsKey == ASSUME KeyInv, PublishFrame PROVE KeyInv'
<1> DEFINE new == [n |-> started, key |-> forced]
           rest == IF Len(frames) < FramesKept THEN frames ELSE Tail(frames)
<1>0. new \in AnyPicture /\ FramesKept \in Nat \ {0}
  BY VideoAssumption DEF KeyInv, VideoTyped, AnyPicture
<1>1. rest \in Seq(AnyPicture) /\ (rest # frames => frames # <<>>)
  BY <1>0 DEF KeyInv, VideoTyped
<1>2. frames' = Append(rest, new) /\ UNCHANGED <<started, asked, keySent, out, wantKey, dirty, pipeline>>
      /\ thread = "coding" /\ thread' = "loop" /\ forced' = FALSE
  BY DEF PublishFrame
<1>3. keyDropped' \in Nat /\ keyDropped' >= keyDropped
      /\ (rest # frames => keyDropped' = Newest(keyDropped, Head(frames)) /\ rest = Tail(frames)
                           /\ Head(frames) \in AnyPicture)
  <2>1. keyDropped \in Nat
    BY DEF KeyInv, VideoTyped
  <2>2. CASE Len(frames) < FramesKept
    BY <2>1, <2>2 DEF PublishFrame
  <2>3. CASE ~(Len(frames) < FramesKept)
    <3>1. frames \in Seq(AnyPicture) /\ frames # <<>>
      BY <2>3, <1>0 DEF KeyInv, VideoTyped
    <3>2. keyDropped' = Newest(keyDropped, Head(frames)) /\ rest = Tail(frames) /\ Head(frames) \in AnyPicture
      BY <2>3, <3>1 DEF PublishFrame
    <3> QED BY <2>1, <3>2, NewestIsNewest
  <2> QED BY <2>2, <2>3
<1>4. VideoTyped' /\ (asked <= started)'
  <2>1. frames' \in Seq(AnyPicture)
    BY <1>0, <1>1, <1>2
  <2> QED BY <2>1, <1>2, <1>3 DEF KeyInv, VideoTyped
<1>5. new \in {frames'[i] : i \in DOMAIN frames'} /\ (forced => new.key) /\ new.n = started
  <2>1. Len(rest) + 1 \in DOMAIN frames' /\ frames'[Len(rest) + 1] = new
    BY <1>0, <1>1, <1>2
  <2> QED BY <2>1
<1>6. \A i \in DOMAIN frames :
         frames[i].key => frames[i] \in {frames'[j] : j \in DOMAIN frames'} \/ keyDropped' >= frames[i].n
  <2> SUFFICES ASSUME NEW i \in DOMAIN frames, frames[i].key
               PROVE  frames[i] \in {frames'[j] : j \in DOMAIN frames'} \/ keyDropped' >= frames[i].n
    OBVIOUS
  <2>0. frames \in Seq(AnyPicture)
    BY DEF KeyInv, VideoTyped
  <2>1. CASE rest = frames
    <3>1. i \in DOMAIN frames' /\ frames'[i] = frames[i]
      BY <2>0, <2>1, <1>2, <1>0
    <3> QED BY <3>1
  <2>2. CASE rest # frames /\ i = 1
    <3>1. frames[i] = Head(frames) /\ Head(frames) \in AnyPicture /\ keyDropped \in Nat
      BY <2>0, <2>2, <1>3 DEF KeyInv, VideoTyped
    <3> QED BY <2>2, <3>1, <1>3, NewestIsNewest
  <2>3. CASE rest # frames /\ i # 1
    <3>1. rest = Tail(frames) /\ i - 1 \in 1..Len(rest) /\ rest[i - 1] = frames[i]
      BY <2>0, <2>3, <1>3
    <3>2. i - 1 \in DOMAIN frames' /\ frames'[i - 1] = frames[i]
      BY <3>1, <1>0, <1>1, <1>2
    <3> QED BY <3>2
  <2> QED BY <2>1, <2>2, <2>3
<1>7. KeyframeOnItsWay'
  <2> SUFFICES ASSUME asked # NotAsked, pipeline # "none", ~wantKey, ~dirty, pipeline # "half",
                      ~(keySent > asked), ~(keyDropped' > asked)
               PROVE  Queued'
    BY <1>2 DEF KeyframeOnItsWay, Queued
  <2>1. CASE forced
    BY <2>1, <1>2, <1>5 DEF KeyInv, Queued
  <2>2. CASE ~forced
    <3>1. PICK picture \in out \cup {frames[i] : i \in DOMAIN frames} : picture.key /\ picture.n > asked
      BY <2>2, <1>2, <1>3 DEF KeyInv, KeyframeOnItsWay, VideoTyped
    <3>2. CASE picture \in out
      BY <3>1, <3>2, <1>2 DEF Queued
    <3>3. CASE picture \in {frames[i] : i \in DOMAIN frames}
      <4>1. picture \in {frames'[j] : j \in DOMAIN frames'} \/ keyDropped' >= picture.n
        BY <3>1, <3>3, <1>6
      <4>2. picture \in AnyPicture
        BY <3>3 DEF KeyInv, VideoTyped
      <4>3. ~(keyDropped' >= picture.n)
        BY <4>2, <3>1, <1>3 DEF KeyInv, VideoTyped, AnyPicture
      <4> QED BY <4>1, <4>3, <3>1, <1>2 DEF Queued
    <3> QED BY <3>1, <3>2, <3>3
  <2> QED BY <2>1, <2>2
<1> QED BY <1>2, <1>4, <1>7 DEF KeyInv

LEMMA PumpFramesKeepsKey == ASSUME KeyInv, PumpFrames PROVE KeyInv'
<1>1. /\ frames # <<>> /\ frames' = Tail(frames) /\ frames \in Seq(AnyPicture)
      /\ Head(frames) \in AnyPicture
      /\ UNCHANGED <<started, asked, keySent, wantKey, dirty, pipeline, thread, forced>>
      /\ \/ out = {} /\ out' = {Head(frames)} /\ keyDropped' = keyDropped
         \/ out' = out /\ keyDropped' = Newest(keyDropped, Head(frames))
  BY DEF PumpFrames, pipelineVars, KeyInv, VideoTyped
<1>2. keyDropped' \in Nat /\ keyDropped' >= keyDropped
      /\ (Head(frames) \in out' \/ (Head(frames).key => keyDropped' >= Head(frames).n))
  <2>1. keyDropped \in Nat
    BY DEF KeyInv, VideoTyped
  <2>2. /\ Newest(keyDropped, Head(frames)) \in Nat /\ Newest(keyDropped, Head(frames)) >= keyDropped
        /\ Head(frames).key => Newest(keyDropped, Head(frames)) >= Head(frames).n
    BY <2>1, <1>1, NewestIsNewest
  <2> QED BY <1>1, <2>1, <2>2
<1>3. VideoTyped'
  BY <1>1, <1>2 DEF KeyInv, VideoTyped
<1>4. \A i \in DOMAIN frames : i # 1 => frames[i] \in {frames'[j] : j \in DOMAIN frames'}
  <2> SUFFICES ASSUME NEW i \in DOMAIN frames, i # 1 PROVE frames[i] \in {frames'[j] : j \in DOMAIN frames'}
    OBVIOUS
  <2>1. i - 1 \in DOMAIN frames' /\ frames'[i - 1] = frames[i]
    BY <1>1
  <2> QED BY <2>1
<1>5. KeyframeOnItsWay'
  <2> SUFFICES ASSUME asked # NotAsked, pipeline # "none", thread # "over", ~wantKey, ~dirty, ~forced,
                      pipeline # "half", ~(keySent > asked), ~(keyDropped' > asked)
               PROVE  Queued'
    BY <1>1 DEF KeyframeOnItsWay, Queued
  <2>1. PICK picture \in out \cup {frames[i] : i \in DOMAIN frames} : picture.key /\ picture.n > asked
    BY <1>1, <1>2 DEF KeyInv, KeyframeOnItsWay, VideoTyped
  <2>2. CASE picture \in out
    BY <2>1, <2>2, <1>1 DEF Queued
  <2>3. CASE picture \notin out
    <3>1. PICK i \in DOMAIN frames : picture = frames[i]
      BY <2>1, <2>3
    <3>2. CASE i # 1
      BY <3>1, <3>2, <2>1, <1>1, <1>4 DEF Queued
    <3>3. CASE i = 1
      <4>1. picture = Head(frames) /\ picture.n \in Nat /\ asked \in Nat
        BY <3>1, <3>3, <1>1 DEF AnyPicture, KeyInv, VideoTyped
      <4>2. picture \in out'
        BY <4>1, <2>1, <1>2
      <4> QED BY <4>2, <2>1, <1>1 DEF Queued
    <3> QED BY <3>2, <3>3
  <2> QED BY <2>2, <2>3
<1> QED BY <1>1, <1>3, <1>5 DEF KeyInv

LEMMA PumpVideoKeepsKey == ASSUME KeyInv, PumpVideo PROVE KeyInv'
<1>1. PICK picture \in out : keySent' = Newest(keySent, picture)
  BY DEF PumpVideo
<1>2. /\ out' = {} /\ out = {picture} /\ picture \in AnyPicture
      /\ UNCHANGED <<frames, keyDropped, started, asked, wantKey, dirty, pipeline, thread, forced>>
  BY <1>1 DEF PumpVideo, pipelineVars, KeyInv, VideoTyped
<1>3. keySent' \in Nat /\ keySent' >= keySent /\ (picture.key => keySent' >= picture.n)
  BY <1>1, <1>2, NewestIsNewest DEF KeyInv, VideoTyped
<1>4. VideoTyped'
  BY <1>2, <1>3 DEF KeyInv, VideoTyped
<1>5. KeyframeOnItsWay'
  <2> SUFFICES ASSUME asked # NotAsked, pipeline # "none", thread # "over", ~wantKey, ~dirty, ~forced,
                      pipeline # "half", ~(keySent' > asked), ~(keyDropped > asked)
               PROVE  Queued'
    BY <1>2 DEF KeyframeOnItsWay, Queued
  <2>1. PICK p \in out \cup {frames[i] : i \in DOMAIN frames} : p.key /\ p.n > asked
    BY <1>2, <1>3 DEF KeyInv, KeyframeOnItsWay, VideoTyped
  <2>2. p # picture
    BY <2>1, <1>2, <1>3 DEF KeyInv, VideoTyped, AnyPicture
  <2> QED BY <2>1, <2>2, <1>2 DEF Queued
<1> QED BY <1>2, <1>4, <1>5 DEF KeyInv

LEMMA KeyStep == KeyInv /\ [VideoNext]_videoVars => KeyInv'
<1> SUFFICES ASSUME KeyInv, [VideoNext]_videoVars PROVE KeyInv'
  OBVIOUS
<1> USE DEF KeyInv, VideoTyped, KeyframeOnItsWay, pipelineVars, queueVars
<1>1. CASE DesktopRedrawn \/ DesktopTaken \/ NewSettings \/ AcquireRefused \/ AcquireNothing \/ UNCHANGED videoVars
  BY <1>1 DEF DesktopRedrawn, DesktopTaken, NewSettings, AcquireRefused, AcquireNothing, videoVars
<1>2. CASE RequestKeyframe
  BY <1>2 DEF RequestKeyframe
<1>3. CASE RebuildForSettings \/ RebuildWhenLost
  BY <1>3 DEF RebuildForSettings, RebuildWhenLost, Rebuild
<1>4. CASE BeginEncode
  <2>1. UNCHANGED <<asked, frames, out, keySent, keyDropped, pipeline>> /\ thread # "coding"
    BY <1>4 DEF BeginEncode
  <2>2. CASE pipeline = "half"
    BY <1>4, <2>1, <2>2 DEF BeginEncode
  <2>3. CASE pipeline # "half"
    <3>1. /\ started' = started + 1 /\ wantKey' = FALSE /\ forced' = (forced \/ wantKey)
          /\ dirty' = dirty /\ started' > asked /\ thread # "over"
      BY <1>4, <2>3 DEF BeginEncode, NotAsked
    <3>2. forced' \in BOOLEAN /\ wantKey' \in BOOLEAN
      BY <3>1, Zenon
    <3>3. started' \in Nat /\ (asked <= started)' /\ (started > asked)'
      BY <2>1, <3>1 DEF NotAsked
    <3>4. VideoTyped'
      BY <2>1, <3>2, <3>3
    <3>5. KeyframeOnItsWay'
      BY <2>1, <3>1
    <3> QED BY <3>3, <3>4, <3>5
  <2> QED BY <2>2, <2>3
<1>5. CASE EncodeFails \/ EncoderBusy
  BY <1>5 DEF EncodeFails, EncoderBusy
<1>6. CASE PublishFrame
  BY <1>6, PublishKeepsKey
<1>7. CASE PumpFrames
  BY <1>7, PumpFramesKeepsKey
<1>8. CASE PumpVideo
  BY <1>8, PumpVideoKeepsKey
<1> QED BY <1>1, <1>2, <1>3, <1>4, <1>5, <1>6, <1>7, <1>8 DEF VideoNext

\* A request for a keyframe is never lost: a newer key picture is owed, on its way, or
\* sent, unless a queue dropped one or the thread gave up, for any number of pictures,
\* failures and locks of the desktop (KeyframeOnItsWay of Video).
THEOREM KeyframeStaysOwed == VideoSpec => []KeyframeOnItsWay
<1>1. KeyInv => KeyframeOnItsWay
  BY DEF KeyInv
<1> QED BY <1>1, KeyInit, KeyStep, PTL DEF VideoSpec

\* The encoder has a picture that has a number, and the thread counts failures only
\* until it gives up.
ThreadInv ==
    /\ VideoTypeOK
    /\ thread = "coding" => started > 0
    /\ thread # "over" => inARow <= FailuresKept

LEMMA ThreadInit == VideoInit => ThreadInv
<1> SUFFICES ASSUME VideoInit PROVE ThreadInv
  OBVIOUS
<1>1. /\ inARow \in 0..FailuresKept + 1 /\ started \in 0..MaxPictures /\ inARow <= FailuresKept
      /\ asked \in NotAsked..MaxPictures /\ keySent \in 0..MaxPictures /\ keyDropped \in 0..MaxPictures
      /\ requests \in 0..MaxRequests /\ locks \in 0..MaxLocks /\ faults \in 0..MaxFaults
  BY VideoAssumption DEF VideoInit, NotAsked
<1>2. frames \in Seq(Pictures) /\ Len(frames) <= FramesKept
  BY EmptySeq, VideoAssumption DEF VideoInit
<1>3. /\ capturable \in BOOLEAN /\ stale \in BOOLEAN /\ fresh \in BOOLEAN
      /\ wantKey \in BOOLEAN /\ dirty \in BOOLEAN /\ forced \in BOOLEAN
  BY DEF VideoInit
<1>4. VideoTypeOK
  BY <1>1, <1>2, <1>3 DEF VideoInit, VideoTypeOK
<1> QED BY <1>1, <1>4 DEF VideoInit, ThreadInv

\* A key picture's number is one of a picture.
LEMMA NewestInRange ==
    ASSUME NEW n \in 0..MaxPictures, NEW picture \in Pictures PROVE Newest(n, picture) \in 0..MaxPictures
<1>1. picture.n \in 0..MaxPictures
  BY VideoAssumption DEF Pictures
<1> QED BY <1>1 DEF Newest

\* The pictures in the queues.
LEMMA QueuesKeepType ==
    ASSUME ThreadInv, [VideoNext]_videoVars
    PROVE  /\ frames' \in Seq(Pictures) /\ Len(frames') <= FramesKept /\ out' \subseteq Pictures
           /\ keySent' \in 0..MaxPictures /\ keyDropped' \in 0..MaxPictures
<1> DEFINE Kept ==
        /\ frames' \in Seq(Pictures) /\ Len(frames') <= FramesKept /\ out' \subseteq Pictures
        /\ keySent' \in 0..MaxPictures /\ keyDropped' \in 0..MaxPictures
<1>1. /\ frames \in Seq(Pictures) /\ Len(frames) \in Nat /\ Len(frames) <= FramesKept /\ out \subseteq Pictures
      /\ keySent \in 0..MaxPictures /\ keyDropped \in 0..MaxPictures
  BY LenProperties DEF ThreadInv, VideoTypeOK
<1>2. frames # <<>> => /\ Head(frames) \in Pictures /\ Tail(frames) \in Seq(Pictures)
                       /\ Len(Tail(frames)) = Len(frames) - 1
  BY <1>1, HeadTailProperties
<1>3. CASE PublishFrame
  <2> DEFINE new == [n |-> started, key |-> forced]
  <2>1. new \in Pictures
    <3>1. started \in 1..MaxPictures
      BY <1>3, VideoAssumption DEF PublishFrame, ThreadInv, VideoTypeOK
    <3>2. forced \in BOOLEAN
      BY DEF ThreadInv, VideoTypeOK
    <3> QED BY <3>1, <3>2 DEF Pictures
  <2>2. out' = out /\ keySent' = keySent
    BY <1>3 DEF PublishFrame
  <2> HIDE DEF new
  <2>3. CASE Len(frames) < FramesKept
    <3>1. frames' = Append(frames, new) /\ keyDropped' = keyDropped
      BY <1>3, <2>3 DEF PublishFrame, new
    <3> QED BY <1>1, <2>1, <2>2, <2>3, <3>1, AppendProperties, VideoAssumption
  <2>4. CASE ~(Len(frames) < FramesKept)
    <3>1. frames' = Append(Tail(frames), new) /\ keyDropped' = Newest(keyDropped, Head(frames))
      BY <1>3, <2>4 DEF PublishFrame, new
    <3>2. frames # <<>>
      BY <1>1, <2>4, VideoAssumption
    <3>3. Append(Tail(frames), new) \in Seq(Pictures) /\ Len(Append(Tail(frames), new)) = Len(frames)
      BY <1>1, <1>2, <2>1, <3>2, AppendProperties
    <3>4. Newest(keyDropped, Head(frames)) \in 0..MaxPictures
      BY <1>1, <1>2, <3>2, NewestInRange
    <3> QED BY <1>1, <2>2, <3>1, <3>3, <3>4
  <2> QED BY <2>3, <2>4
<1>4. CASE PumpFrames
  <2>1. frames # <<>> /\ frames' = Tail(frames) /\ keySent' = keySent
        /\ (out' = {Head(frames)} \/ out' = out)
        /\ (keyDropped' = Newest(keyDropped, Head(frames)) \/ keyDropped' = keyDropped)
    BY <1>4 DEF PumpFrames
  <2>2. Newest(keyDropped, Head(frames)) \in 0..MaxPictures
    BY <1>1, <1>2, <2>1, NewestInRange
  <2> QED BY <1>1, <1>2, <2>1, <2>2, VideoAssumption
<1>5. CASE PumpVideo
  <2>1. PICK picture \in out : keySent' = Newest(keySent, picture)
    BY <1>5 DEF PumpVideo
  <2>2. keySent' \in 0..MaxPictures
    BY <1>1, <2>1, NewestInRange
  <2> QED BY <1>1, <1>5, <2>2 DEF PumpVideo
<1>6. CASE UNCHANGED queueVars
  BY <1>1, <1>6 DEF queueVars
<1>7. CASE RebuildForSettings \/ RebuildWhenLost
  BY <1>6, <1>7 DEF RebuildForSettings, RebuildWhenLost
<1> QED BY <1>3, <1>4, <1>5, <1>6, <1>7 DEF VideoNext, videoVars, DesktopRedrawn, DesktopTaken, NewSettings,
     RequestKeyframe, AcquireRefused, AcquireNothing, BeginEncode, EncodeFails, EncoderBusy

LEMMA ThreadStep == ThreadInv /\ [VideoNext]_videoVars => ThreadInv'
<1> SUFFICES ASSUME ThreadInv, [VideoNext]_videoVars PROVE ThreadInv'
  OBVIOUS
<1>1. /\ frames' \in Seq(Pictures) /\ Len(frames') <= FramesKept /\ out' \subseteq Pictures
      /\ keySent' \in 0..MaxPictures /\ keyDropped' \in 0..MaxPictures
  BY QueuesKeepType
<1> USE DEF pipelineVars, queueVars
<1>2. /\ thread \in {"loop", "coding", "over"} /\ inARow \in 0..FailuresKept + 1
      /\ started \in 0..MaxPictures /\ asked \in NotAsked..MaxPictures
      /\ (thread = "coding" => started > 0) /\ (thread # "over" => inARow <= FailuresKept)
  BY DEF ThreadInv, VideoTypeOK
<1>3. /\ thread' \in {"loop", "coding", "over"} /\ inARow' \in 0..FailuresKept + 1
      /\ started' \in 0..MaxPictures /\ asked' \in NotAsked..MaxPictures
      /\ (thread' = "coding" => started' > 0) /\ (thread' # "over" => inARow' <= FailuresKept)
  <2>1. CASE BeginEncode
    BY <1>2, <2>1, VideoAssumption DEF BeginEncode, NotAsked
  <2>2. CASE AcquireRefused
    BY <1>2, <2>2, VideoAssumption DEF AcquireRefused
  <2>3. CASE AcquireNothing
    BY <1>2, <2>3, VideoAssumption DEF AcquireNothing
  <2>4. CASE RequestKeyframe
    BY <1>2, <2>4, VideoAssumption DEF RequestKeyframe, NotAsked
  <2>5. CASE EncodeFails \/ EncoderBusy \/ PublishFrame
    BY <1>2, <2>5 DEF EncodeFails, EncoderBusy, PublishFrame
  <2>6. CASE UNCHANGED <<thread, inARow, started, asked>>
    BY <1>2, <2>6
  <2> QED BY <2>1, <2>2, <2>3, <2>4, <2>5, <2>6 DEF VideoNext, videoVars, DesktopRedrawn, DesktopTaken, NewSettings,
       RebuildForSettings, RebuildWhenLost, PumpFrames, PumpVideo
<1>4. pipeline' \in {"whole", "half", "none"}
  BY DEF ThreadInv, VideoTypeOK, VideoNext, videoVars, DesktopRedrawn, DesktopTaken, NewSettings,
       RequestKeyframe, RebuildForSettings, RebuildWhenLost, Rebuild, AcquireRefused, AcquireNothing, BeginEncode,
       EncodeFails, EncoderBusy, PublishFrame, PumpFrames, PumpVideo
<1>5. capturable' \in BOOLEAN /\ stale' \in BOOLEAN /\ fresh' \in BOOLEAN
  BY DEF ThreadInv, VideoTypeOK, VideoNext, videoVars, DesktopRedrawn, DesktopTaken, NewSettings,
       RequestKeyframe, RebuildForSettings, RebuildWhenLost, Rebuild, AcquireRefused, AcquireNothing, BeginEncode,
       EncodeFails, EncoderBusy, PublishFrame, PumpFrames, PumpVideo
<1>6. wantKey' \in BOOLEAN /\ dirty' \in BOOLEAN /\ forced' \in BOOLEAN
  BY DEF ThreadInv, VideoTypeOK, VideoNext, videoVars, DesktopRedrawn, DesktopTaken, NewSettings,
       RequestKeyframe, RebuildForSettings, RebuildWhenLost, Rebuild, AcquireRefused, AcquireNothing, BeginEncode,
       EncodeFails, EncoderBusy, PublishFrame, PumpFrames, PumpVideo
<1>7. requests' \in 0..MaxRequests /\ locks' \in 0..MaxLocks /\ faults' \in 0..MaxFaults
  <2>1. requests \in 0..MaxRequests /\ locks \in 0..MaxLocks /\ faults \in 0..MaxFaults
    BY DEF ThreadInv, VideoTypeOK
  <2>2. CASE RequestKeyframe \/ DesktopTaken
    BY <2>1, <2>2, VideoAssumption DEF RequestKeyframe, DesktopTaken
  <2>3. CASE RebuildForSettings \/ RebuildWhenLost
    BY <2>1, <2>3, VideoAssumption DEF RebuildForSettings, RebuildWhenLost, Rebuild
  <2>4. CASE NewSettings \/ EncodeFails
    BY <2>1, <2>4, VideoAssumption DEF NewSettings, EncodeFails
  <2>5. CASE UNCHANGED <<requests, locks, faults>>
    BY <2>1, <2>5
  <2> QED BY <2>2, <2>3, <2>4, <2>5 DEF VideoNext, videoVars, DesktopRedrawn, AcquireRefused, AcquireNothing,
       BeginEncode, EncoderBusy, PublishFrame, PumpFrames, PumpVideo
<1> QED BY <1>1, <1>3, <1>4, <1>5, <1>6, <1>7 DEF ThreadInv, VideoTypeOK

\* The queues hold pictures that were begun, as many as they have room for, and the thread
\* counts failures no further than the one that ends it (session.cpp:170-215, 296-300,
\* windows.go:172, 340-347), for any capacities (VideoTypeOK of Video).
THEOREM VideoTypesKept == VideoSpec => []VideoTypeOK
<1>1. ThreadInv => VideoTypeOK
  BY DEF ThreadInv
<1> QED BY <1>1, ThreadInit, ThreadStep, PTL DEF VideoSpec

-----------------------------------------------------------------------------
(* All parts together: whatever part works, the others are at rest, so     *)
(* that a behaviour of the instance is one of each part.                   *)
LEMMA PartsBegin ==
    MCInit => /\ Init /\ QualityInit /\ CursorInit /\ RvInit /\ PairingInit
              /\ ClipboardInit /\ WakeInit /\ VideoInit /\ DisplaysInit
  BY DEF MCInit

LEMMA PartsStep ==
    [MCNext]_mcVars =>
        /\ [Next]_vars /\ [QualityNext]_qualityVars /\ [CursorNext]_cursorVars
        /\ [RvNext]_rvVars /\ [PairingNext]_pairVars /\ [ClipboardNext]_clipVars
        /\ [WakeNext]_wakeVars /\ [VideoNext]_videoVars /\ [DisplaysNext]_displayVars
  BY DEF MCNext, mcVars

\* The parts of the PC's programs keep to their types for every value of the constants,
\* whichever of them works (TypesOK of MCAgentParts).
THEOREM PartsTyped == MCSpec => []TypesOK
<1>1. MCSpec => Spec /\ QualitySpec /\ CursorSpec
  BY PartsBegin, PartsStep, PTL DEF MCSpec, Spec, QualitySpec, CursorSpec
<1>2. MCSpec => RvSpec /\ PairingSpec /\ ClipboardSpec
  BY PartsBegin, PartsStep, PTL DEF MCSpec, RvSpec, PairingSpec, ClipboardSpec
<1>3. MCSpec => WakeSpec /\ VideoSpec /\ DisplaysSpec
  BY PartsBegin, PartsStep, PTL DEF MCSpec, WakeSpec, VideoSpec, DisplaysSpec
<1>4. /\ TypeOK /\ QualityTypeOK /\ CursorTypeOK /\ RvTypeOK /\ PairingTypeOK
      /\ ClipboardTypeOK /\ WakeTypeOK /\ VideoTypeOK /\ DisplaysTypeOK
      => TypesOK
  BY DEF TypesOK
<1> QED BY <1>1, <1>2, <1>3, <1>4, ListTyped, QualityTypesKept, CursorTyped, LinkTypesKept, PairTypesKept,
         ClipTypesKept, WakeTypesKept, VideoTypesKept, DisplaysTypesKept, PTL

=============================================================================
