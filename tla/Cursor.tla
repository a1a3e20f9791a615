------------------------------- MODULE Cursor -------------------------------
(***************************************************************************)
(* The pointer on its way from Windows to the client's screen: the native  *)
(* layer (agent/native/session.cpp) queues updates, the capture source     *)
(* (internal/capture/windows.go) copies them into a channel, the session   *)
(* (pumpCursor in internal/session/session.go) sends bitmaps and positions *)
(* on the control channel, and the client draws what it has                *)
(* (client/js/ui/session-ui.js).  Each stage drops what its successor is   *)
(* too slow for; the control channel loses nothing and keeps the order.    *)
(***************************************************************************)
EXTENDS Integers, Sequences, FiniteSets

CONSTANTS NativeQueue,   \* updates the native layer keeps, 8
          GoQueue,       \* capacity of windowsSource.cursor, 8
          MaxPending,    \* the 32 of rememberShape
          MaxSent,       \* the 128 of resendPendingShapes
          MaxImages,     \* the 64 of _onCursorShape
          MaxBacklog,    \* messages that make a backlog of 512 KiB
          MaxShapes, MaxMoves \* bounds: shapes Windows shows, and other moves

ASSUME CursorAssumption ==
    /\ NativeQueue \in Nat \ {0} /\ MaxSent \in Nat \ {0}
    /\ GoQueue \in Nat /\ MaxPending \in Nat /\ MaxImages \in Nat /\ MaxBacklog \in Nat
    /\ MaxShapes \in Nat /\ MaxMoves \in Nat

NoShape == 0

VARIABLES
    shown,    \* the shape on the PC's screen; each new one gets the next number
    moves,    \* counter of the bound
    native,   \* Session::cursors_: [shape, bitmap]
    updates,  \* windowsSource.cursor
    current,  \* the shape of the update the session's pumpCursor is at work on, if any
    pending, sent, \* Session.pendingShapes, Session.cursorShapes
    trying,   \* bitmaps that resendPendingShapes has still to try
    open,     \* the control channel is open
    ctrl,     \* what is on its way to the client: [kind, shape]
    loading,  \* bitmaps the client is decoding
    images,   \* the client's bitmaps, oldest first
    state,    \* the shape the client is to draw
    evicted   \* history: bitmaps the client has had and let go

pumpVars == <<current, pending, sent, trying>>
clientVars == <<loading, images, state, evicted>>
cursorVars == <<shown, moves, native, updates, pumpVars, open, ctrl, clientVars>>

Shapes == 1..MaxShapes
Moved == [shape |-> NoShape, bitmap |-> FALSE]
Updates == [shape : Shapes, bitmap : {TRUE}] \cup {Moved}
Messages == [kind : {"shape"}, shape : Shapes] \cup [kind : {"state"}, shape : 0..MaxShapes]
Elements(seq) == {seq[i] : i \in DOMAIN seq}

CursorTypeOK ==
    /\ shown \in 0..MaxShapes /\ moves \in 0..MaxMoves
    /\ native \in Seq(Updates) /\ Len(native) <= NativeQueue
    /\ updates \in Seq(Updates) /\ Len(updates) <= GoQueue
    /\ current \subseteq 0..MaxShapes
    /\ pending \subseteq Shapes /\ Cardinality(pending) <= MaxPending + 1
    /\ sent \subseteq Shapes /\ Cardinality(sent) <= MaxSent
    /\ trying \subseteq pending /\ (current = {} => trying = {})
    /\ open \in BOOLEAN
    /\ ctrl \in Seq(Messages) /\ Len(ctrl) <= MaxBacklog
    /\ images \in Seq(Shapes) /\ Len(images) <= MaxImages
    /\ loading \subseteq Shapes /\ state \in 0..MaxShapes /\ evicted \subseteq Shapes

CursorInit ==
    /\ shown = NoShape /\ moves = 0
    /\ native = <<>> /\ updates = <<>>
    /\ current = {} /\ pending = {} /\ sent = {} /\ trying = {}
    /\ open = FALSE /\ ctrl = <<>>
    /\ loading = {} /\ images = <<>> /\ state = NoShape
    /\ evicted = {}

-----------------------------------------------------------------------------
\* PublishCursor: the oldest updates make room.  An update that brings no bitmap
\* leaves shape_id as it was initialised.
Publish(update) ==
    native' = Append(IF Len(native) >= NativeQueue THEN Tail(native) ELSE native, update)

ShapeChanges ==
    /\ shown < MaxShapes
    /\ shown' = shown + 1
    /\ Publish([shape |-> shown + 1, bitmap |-> TRUE])
    /\ UNCHANGED <<moves, updates, pumpVars, open, ctrl, clientVars>>

PointerMoves ==
    /\ shown # NoShape /\ moves < MaxMoves
    /\ moves' = moves + 1
    /\ Publish(Moved)
    /\ UNCHANGED <<shown, updates, pumpVars, open, ctrl, clientVars>>

\* windowsSource.pumpCursor: an update that finds the channel full is dropped.
PumpNative ==
    /\ native # <<>>
    /\ native' = Tail(native)
    /\ updates' = IF Len(updates) < GoQueue THEN Append(updates, Head(native)) ELSE updates
    /\ UNCHANGED <<shown, moves, pumpVars, open, ctrl, clientVars>>

-----------------------------------------------------------------------------
\* rememberShape.  Too many waiting: they are all forgotten.
Remembered(update) ==
    IF ~update.bitmap \/ update.shape \in sent THEN pending
    ELSE (IF Cardinality(pending) > MaxPending THEN {} ELSE pending) \cup {update.shape}

\* pumpCursor takes an update: its bitmap is remembered, and every bitmap that waits is
\* to be tried.
TakeUpdate ==
    /\ current = {} /\ updates # <<>>
    /\ updates' = Tail(updates)
    /\ current' = {Head(updates).shape}
    /\ pending' = Remembered(Head(updates)) /\ trying' = pending'
    /\ UNCHANGED <<shown, moves, native, sent, open, ctrl, clientVars>>

\* sendCtrlBytes: it sends if the channel is open and has no backlog.
CtrlTakes == open /\ Len(ctrl) < MaxBacklog

\* What is remembered as sent after one more: too many, and it starts afresh.
SentAfter(shape) ==
    IF Cardinality(sent \cup {shape}) > MaxSent THEN {shape} ELSE sent \cup {shape}

\* Mutant: a bitmap counts as sent whether or not the channel took it.
SendShape_Unchecked(shape) ==
    /\ shape \in trying /\ trying' = trying \ {shape}
    /\ ctrl' = IF CtrlTakes THEN Append(ctrl, [kind |-> "shape", shape |-> shape]) ELSE ctrl
    /\ pending' = pending \ {shape} /\ sent' = SentAfter(shape)
    /\ UNCHANGED <<shown, moves, native, updates, current, open, clientVars>>

\* resendPendingShapes: the bitmaps are tried in any order, for they are in a map, and
\* one that is not sent waits on while the next is tried.
SendShape(shape) ==
    /\ shape \in trying /\ trying' = trying \ {shape}
    /\ IF CtrlTakes
       THEN /\ ctrl' = Append(ctrl, [kind |-> "shape", shape |-> shape])
            /\ pending' = pending \ {shape} /\ sent' = SentAfter(shape)
       ELSE UNCHANGED <<ctrl, pending, sent>>
    /\ UNCHANGED <<shown, moves, native, updates, current, open, clientVars>>

\* The position goes after the bitmaps, or not at all.
SendPosition ==
    /\ current # {} /\ trying = {} /\ current' = {}
    /\ \E shape \in current :
           ctrl' = IF CtrlTakes THEN Append(ctrl, [kind |-> "state", shape |-> shape]) ELSE ctrl
    /\ UNCHANGED <<shown, moves, native, updates, pending, sent, trying, open, clientVars>>

OpenCtrl ==
    /\ ~open /\ open' = TRUE
    /\ UNCHANGED <<shown, moves, native, updates, pumpVars, ctrl, clientVars>>

-----------------------------------------------------------------------------
\* The client.  A bitmap is decoded by the browser before it is kept.
ClientHears ==
    /\ ctrl # <<>> /\ ctrl' = Tail(ctrl)
    /\ IF Head(ctrl).kind = "shape"
       THEN loading' = loading \cup {Head(ctrl).shape} /\ UNCHANGED state
       ELSE state' = Head(ctrl).shape /\ UNCHANGED loading
    /\ UNCHANGED <<shown, moves, native, updates, pumpVars, open, images, evicted>>

\* onload: the oldest bitmap makes room.  A bitmap that is set again keeps its place.
OnLoad(shape) ==
    /\ shape \in loading /\ loading' = loading \ {shape}
    /\ LET all == IF shape \in Elements(images) THEN images ELSE Append(images, shape)
       IN  IF Len(all) > MaxImages
           THEN images' = Tail(all) /\ evicted' = evicted \cup {Head(all)}
           ELSE images' = all /\ UNCHANGED evicted
    /\ UNCHANGED <<shown, moves, native, updates, pumpVars, open, ctrl, state>>

CursorNext ==
    \/ ShapeChanges \/ PointerMoves \/ PumpNative \/ TakeUpdate \/ SendPosition
    \/ OpenCtrl \/ ClientHears
    \/ \E shape \in Shapes : SendShape(shape) \/ OnLoad(shape)

CursorSpec == CursorInit /\ [][CursorNext]_cursorVars

-----------------------------------------------------------------------------
\* A bitmap that the session counts as sent has reached the client or is on its
\* way, whatever was full or closed when it was tried (session.go:1068-1072): the
\* client never holds an id it has no bitmap for because of the session.
SentIsThere ==
    \A shape \in sent :
        \/ shape \in loading \/ shape \in Elements(images) \/ shape \in evicted
        \/ [kind |-> "shape", shape |-> shape] \in Elements(ctrl)
=============================================================================
