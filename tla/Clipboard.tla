----------------------------- MODULE Clipboard ------------------------------
(***************************************************************************)
(* Text between the clipboards of the PC and the client: the watcher and   *)
(* Write of internal/clipboard/clipboard_windows.go, pumpClipboard and     *)
(* handleClipboardIn of internal/session/session.go, and both directions   *)
(* of client/js/input/input.js.                                            *)
(*                                                                         *)
(* The watcher polls the sequence number of the clipboard, reads the text  *)
(* if it has changed and sends it; Write notes what it has put there, so   *)
(* that it is not sent back.  The mutex covers single notes only, and the  *)
(* clipboard itself is Windows' to lock.                                   *)
(***************************************************************************)
EXTENDS Naturals, Sequences

CONSTANTS Texts,      \* what is copied
          LongTexts,  \* those over MaxBytes / 2, which Read cuts
          ChangeSlots,\* capacity of windowsClipboard.changes
          MaxCopies   \* bound: changes of the PC's clipboard

ASSUME ClipboardAssumption ==
    "none" \notin Texts /\ LongTexts \subseteq Texts /\ ChangeSlots \in Nat /\ MaxCopies \in Nat

\* A text as it is carried, whole or cut; or nothing, as for a picture.
NoText == [text |-> "none", whole |-> TRUE]
Carried == {NoText} \cup [text : Texts, whole : BOOLEAN]
Whole(t) == [text |-> t, whole |-> TRUE]

\* A text on its way, with the sequence number it had on the PC (history).
Sendings == [what : Carried, number : Nat]

VARIABLES
    board,   \* the PC's clipboard, and its sequence number
    seq,
    lastSeq, lastText, \* windowsClipboard
    watcher, \* where watch is
    seen,    \* the sequence number it has seen
    got,     \* the text it has read
    queue,   \* windowsClipboard.changes
    writer,  \* Write: the text it holds the clipboard for, if any
    allowed, \* a session is connected and may use the clipboard both ways
    exchanged,  \* history: what went last from one side to the other
    newest,  \* history: the highest sequence number of what went
    missed   \* history: a read failed, or a text was dropped

boardVars == <<board, seq>>
watchVars == <<watcher, seen, got, queue>>
clipVars == <<boardVars, lastSeq, lastText, watchVars, writer, allowed, exchanged, newest, missed>>

ClipboardTypeOK ==
    /\ board \in Carried /\ lastText \in Carried /\ got \in Carried /\ exchanged \in Sendings
    /\ seq \in 0..MaxCopies /\ lastSeq \in 0..seq /\ seen \in 0..seq
    /\ watcher \in {"waiting", "reading", "noting"}
    /\ queue \in Seq(Sendings) /\ Len(queue) <= ChangeSlots
    /\ writer \in {NoText} \cup {Whole(t) : t \in Texts}
    /\ allowed \in BOOLEAN /\ newest \in 0..seq /\ missed \in BOOLEAN

ClipboardInit ==
    /\ board = NoText /\ seq = 0
    /\ lastSeq = 0 /\ lastText = NoText
    /\ watcher = "waiting" /\ seen = 0 /\ got = NoText /\ queue = <<>>
    /\ writer = NoText /\ allowed = FALSE
    /\ exchanged = [what |-> NoText, number |-> 0] /\ newest = 0 /\ missed = FALSE

-----------------------------------------------------------------------------
Free == writer = NoText
Put(what) == seq < MaxCopies /\ board' = what /\ seq' = seq + 1

\* Somebody copies a text, or something that is not text, on the PC.
CopyOnPC ==
    /\ Free
    /\ \E what \in {NoText} \cup {Whole(t) : t \in Texts} : Put(what)
    /\ UNCHANGED <<lastSeq, lastText, watchVars, writer, allowed, exchanged, newest, missed>>

\* watch, on a tick: the sequence number has changed.
PollSeq ==
    /\ watcher = "waiting" /\ seq # lastSeq
    /\ seen' = seq /\ watcher' = "reading"
    /\ UNCHANGED <<boardVars, lastSeq, lastText, got, queue, writer, allowed, exchanged, newest, missed>>

Cut(what) == IF what.text \in LongTexts THEN [what EXCEPT !.whole = FALSE] ELSE what

\* Read opens the clipboard; another program may hold it for too long.
ReadBoard ==
    /\ watcher = "reading" /\ watcher' = "noting"
    /\ \/ Free /\ got' = Cut(board) /\ UNCHANGED missed
       \/ got' = NoText /\ missed' = TRUE
    /\ UNCHANGED <<boardVars, lastSeq, lastText, seen, queue, writer, allowed, exchanged, newest>>

\* Mutant: the number is read again when the text is noted.
NoteText_Newest ==
    /\ watcher = "noting" /\ watcher' = "waiting"
    /\ lastSeq' = seq /\ lastText' = got
    /\ IF got = NoText \/ got = lastText THEN UNCHANGED <<queue, missed>>
       ELSE IF Len(queue) < ChangeSlots THEN queue' = Append(queue, [what |-> got, number |-> seen]) /\ UNCHANGED missed
       ELSE missed' = TRUE /\ UNCHANGED queue
    /\ UNCHANGED <<boardVars, seen, got, writer, allowed, exchanged, newest>>

\* The number and the text are noted; a text that is not this side's own is sent,
\* or dropped when nobody takes what was sent before.
NoteText ==
    /\ watcher = "noting" /\ watcher' = "waiting"
    /\ lastSeq' = seen /\ lastText' = got
    /\ IF got = NoText \/ got = lastText THEN UNCHANGED <<queue, missed>>
       ELSE IF Len(queue) < ChangeSlots THEN queue' = Append(queue, [what |-> got, number |-> seen]) /\ UNCHANGED missed
       ELSE missed' = TRUE /\ UNCHANGED queue
    /\ UNCHANGED <<boardVars, seen, got, writer, allowed, exchanged, newest>>

-----------------------------------------------------------------------------
\* The session.

\* pumpClipboard and receiveClipboard.  The message is dropped when the control
\* channel has a backlog, and the browser may refuse the text.
PumpClipboard ==
    /\ allowed /\ queue # <<>>
    /\ queue' = Tail(queue)
    /\ \/ exchanged' = Head(queue) /\ UNCHANGED missed
          /\ newest' = IF Head(queue).number > newest THEN Head(queue).number ELSE newest
       \/ missed' = TRUE /\ UNCHANGED <<exchanged, newest>>
    /\ UNCHANGED <<boardVars, lastSeq, lastText, watcher, seen, got, writer, allowed>>

\* A paste on the client: handleClipboardIn calls Write, which opens the clipboard
\* and puts the text there ...
WriteBoard ==
    /\ allowed /\ Free
    /\ \E t \in Texts : Put(Whole(t)) /\ writer' = Whole(t)
                      /\ exchanged' = [what |-> Whole(t), number |-> seq + 1]
    /\ newest' = seq + 1
    /\ UNCHANGED <<lastSeq, lastText, watchVars, allowed, missed>>

\* ... and notes it before the clipboard is closed.
WriteNotes ==
    /\ ~Free /\ writer' = NoText
    /\ lastText' = writer /\ lastSeq' = seq
    /\ UNCHANGED <<boardVars, watchVars, allowed, exchanged, newest, missed>>

\* A session connects, or ends.  What is in the channel stays there.
SessionChanges ==
    /\ allowed' = ~allowed
    /\ UNCHANGED <<boardVars, lastSeq, lastText, watchVars, writer, exchanged, newest, missed>>

ClipboardNext ==
    \/ CopyOnPC \/ PollSeq \/ ReadBoard \/ NoteText
    \/ PumpClipboard \/ WriteBoard \/ WriteNotes \/ SessionChanges

ClipboardSpec == ClipboardInit /\ [][ClipboardNext]_clipVars

-----------------------------------------------------------------------------
WatcherAtRest == watcher = "waiting" /\ Free /\ queue = <<>> /\ seq = lastSeq

\* When the watcher has caught up, the text that went last from one side to the
\* other is the one on the PC's clipboard (clipboard_windows.go:185-215), cut or
\* not, however copies, polls and pastes have come between one another; unless it
\* was still on its way when a paste went the other way, a read failed or a text
\* was dropped, or the clipboard holds no text.
ClipboardsAgree ==
    WatcherAtRest /\ ~missed /\ exchanged.number = newest /\ board # NoText => exchanged.what.text = board.text
=============================================================================
