----------------------------- MODULE ChatDelivery -----------------------------
(***************************************************************************)
(* ChatStreamController of the desktop main process: one run's events come *)
(* over a connection to the sidecar (streamFixedChatEvents), go to the     *)
(* renderer in batches, and are held back while too much of what was       *)
(* delivered is not acknowledged.  One JavaScript thread: a step is one    *)
(* callback, and frames, timers, acknowledgements, ends of connections and *)
(* the loss of the renderer come in any order.                             *)
(***************************************************************************)
EXTENDS Naturals, Sequences, SequencesExt

CONSTANTS
  Sizes,      \* possible runs: the encoded size of each event, the last is terminal
  BatchMax,   \* batchMaxBytes
  WindowMax,  \* maxUnacknowledgedBytes
  Reconnects  \* reconnectLimit

VARIABLES
  size,      \* size[i]: event i of the run
  made,      \* events that the sidecar has produced
  stopped,   \* cancelChatStream was called
  link,      \* connection: "none", "opening" or "open"
  linkFrom,  \* last event before the connection
  linkHeld,  \* flow.pause was called for the connection
  stream,    \* StreamState
  owner,     \* isOwnerActive
  left,      \* the renderer gave the stream up, or the owner was invalidated
  shown,     \* events that the renderer was sent, in order
  told       \* endings that the renderer was sent: "terminal", "failure"

connection == <<link, linkFrom, linkHeld>>
vars == <<size, made, stopped, connection, stream, owner, left, shown, told>>

Final == Len(size)
Bytes(from, to) == FoldLeft(LAMBDA n, bytes : n + bytes, 0, SubSeq(size, from, to))
Owed(debt) == FoldLeft(LAMBDA n, e : n + e.bytes, 0, debt)
Queued == Bytes(stream.delivered + 1, stream.received)

NewStream ==
  [received |-> 0, delivered |-> 0, acked |-> 0, debt |-> <<>>, unacked |-> 0, reconnects |-> 0,
   flow |-> FALSE,       \* the flow of the present connection is known
   timer |-> FALSE,      \* batchTimer runs
   paused |-> FALSE,     \* and backpressureTimer runs
   closed |-> FALSE]

Init ==
  /\ size \in Sizes
  /\ made = 0 /\ stopped = FALSE
  /\ link = "opening" /\ linkFrom = 0 /\ linkHeld = FALSE
  /\ stream = NewStream
  /\ owner = TRUE /\ left = FALSE
  /\ shown = <<>> /\ told = {}

TerminalSeen(s) == s.received = Final
TerminalDelivered(s) == s.delivered = Final

-------------------------------------------------------------------------------
(* drain: batches as large as allowed, until the queue is empty or the     *)
(* window is full.  A pause asks the source to stop; it is asked once.     *)
BatchEnd(s) ==
  CHOOSE t \in s.delivered + 1 .. s.received :
    /\ t = s.delivered + 1 \/ Bytes(s.delivered + 1, t) <= BatchMax
    /\ t = s.received \/ Bytes(s.delivered + 1, t + 1) > BatchMax

RECURSIVE Drained(_)
Drained(s) ==
  IF s.delivered = s.received THEN s
  ELSE LET end == BatchEnd(s)
           bytes == Bytes(s.delivered + 1, end)
           sent == [s EXCEPT !.delivered = end, !.unacked = @ + bytes,
                             !.debt = Append(@, [through |-> end, bytes |-> bytes])]
       IN IF s.unacked + bytes > WindowMax THEN [s EXCEPT !.paused = TRUE]
          ELSE IF sent.unacked >= WindowMax THEN [sent EXCEPT !.paused = TRUE]
          ELSE Drained(sent)

(* What drain delivers, and the flow that it holds when it pauses.         *)
Deliver(s) ==
  /\ stream' = s
  /\ shown' = shown \o [i \in 1 .. s.delivered - Len(shown) |-> Len(shown) + i]
  /\ told' = told \cup (IF TerminalDelivered(s) THEN {"terminal"} ELSE {})

Drain(s) ==
  LET d == IF owner THEN Drained(s) ELSE s IN
  /\ Deliver(d)
  /\ linkHeld' = (IF d.paused /\ ~ s.paused /\ d.flow THEN TRUE
                  ELSE IF ~ s.paused /\ stream.paused /\ s.flow THEN FALSE ELSE linkHeld)
  /\ UNCHANGED <<stopped, link, linkFrom>>

(* close: the connection is aborted, and a run whose end was not seen is   *)
(* cancelled in the sidecar.                                               *)
Close(s, cancel) ==
  /\ stream' = [s EXCEPT !.closed = TRUE, !.timer = FALSE]
  /\ link' = "none"
  /\ stopped' = (stopped \/ (cancel /\ ~ TerminalSeen(s)))
  /\ UNCHANGED <<linkFrom, linkHeld>>

Fail(s) ==
  /\ Close(s, TRUE)
  /\ told' = (IF owner THEN told \cup {"failure"} ELSE told)
  /\ UNCHANGED shown

-------------------------------------------------------------------------------
(* The sidecar produces events; a cancelled run gets its terminal event.   *)
Produce ==
  /\ made < Final
  /\ made' \in (IF stopped THEN {Final} ELSE {made + 1})
  /\ UNCHANGED <<size, stopped, connection, stream, owner, left, shown, told>>

Open ==
  /\ link = "opening"
  /\ link' = "open"
  /\ UNCHANGED <<size, made, stopped, linkFrom, linkHeld, stream, owner, left, shown, told>>

(* accept: an event is queued.  The end of the run and a full batch are    *)
(* delivered at once, the rest when the batch timer fires.                 *)
Accept ==
  LET s == [stream EXCEPT !.received = @ + 1, !.flow = TRUE]
      full == Bytes(s.delivered + 1, s.received) > BatchMax
  IN
  /\ link = "open" /\ ~ linkHeld /\ stream.received < made /\ ~ stream.closed
  /\ \/ ~ owner /\ Close(stream, TRUE) /\ UNCHANGED <<shown, told>>
     \/ owner /\ size[s.received] > BatchMax /\ Fail(s)
     \/ /\ owner /\ size[s.received] <= BatchMax
        /\ IF TerminalSeen(s) \/ full
             THEN Drain([s EXCEPT !.timer = FALSE])
             ELSE /\ stream' = [s EXCEPT !.timer = TRUE]
                  /\ UNCHANGED <<stopped, connection, shown, told>>
  /\ UNCHANGED <<size, made, owner, left>>

BatchTimer ==
  /\ stream.timer /\ ~ stream.closed
  /\ Drain([stream EXCEPT !.timer = FALSE])
  /\ UNCHANGED <<size, made, owner, left>>

(* The renderer has acknowledged nothing for too long.                     *)
BackpressureTimer ==
  /\ stream.paused /\ ~ stream.closed
  /\ Fail(stream)
  /\ UNCHANGED <<size, made, owner, left>>

(* acknowledge: the debt up to the k-th batch is released, the source goes *)
(* on, the queue is drained, and a run whose terminal batch is             *)
(* acknowledged is finished.                                               *)
AcknowledgeOne(k) ==  \* one possible bug: only the acknowledged batch is released
  LET s == [stream EXCEPT !.debt = SubSeq(@, k + 1, Len(@)), !.unacked = @ - stream.debt[k].bytes,
                          !.acked = stream.debt[k].through, !.paused = FALSE]
  IN
  /\ k \in DOMAIN stream.debt /\ ~ stream.closed
  /\ IF TerminalDelivered(s) /\ s.debt = <<>>
       THEN Close(s, FALSE) /\ UNCHANGED <<shown, told>>
       ELSE Drain(s)
  /\ UNCHANGED <<size, made, owner, left>>

Acknowledge(k) ==
  LET s == [stream EXCEPT !.debt = SubSeq(@, k + 1, Len(@)),
                          !.unacked = @ - Owed(SubSeq(stream.debt, 1, k)),
                          !.acked = stream.debt[k].through, !.paused = FALSE]
  IN
  /\ k \in DOMAIN stream.debt /\ ~ stream.closed
  /\ IF TerminalDelivered(s) /\ s.debt = <<>>
       THEN Close(s, FALSE) /\ UNCHANGED <<shown, told>>
       ELSE Drain(s)
  /\ UNCHANGED <<size, made, owner, left>>

(* The connection ends.  One that ends without the terminal event is       *)
(* replaced, after what was received, while the limit allows it.           *)
Interrupted ==
  /\ link # "none" /\ ~ stream.closed
  /\ IF stream.reconnects >= Reconnects THEN Fail(stream)
     ELSE IF owner
       THEN /\ stream' = [stream EXCEPT !.reconnects = @ + 1, !.flow = FALSE]
            /\ link' = "opening" /\ linkFrom' = stream.received /\ linkHeld' = FALSE
            /\ UNCHANGED <<stopped, shown, told>>
       ELSE Close(stream, TRUE) /\ UNCHANGED <<shown, told>>
  /\ UNCHANGED <<size, made, owner, left>>

(* After the terminal event of this connection it ends well.               *)
Ended ==
  /\ link = "open" /\ ~ linkHeld /\ ~ stream.closed
  /\ TerminalSeen(stream) /\ linkFrom < Final
  /\ LET d == IF owner THEN Drained(stream) ELSE stream IN
       /\ Deliver(d)
       /\ link' = "none"
       /\ UNCHANGED <<stopped, linkFrom, linkHeld>>
  /\ UNCHANGED <<size, made, owner, left>>

(* A bad frame, an expired cursor or a refusal.                            *)
Refused ==
  /\ link # "none" /\ ~ stream.closed
  /\ Fail(stream)
  /\ UNCHANGED <<size, made, owner, left>>

-------------------------------------------------------------------------------
(* The renderer goes away, or closes its session; the controller is told   *)
(* to drop the stream, which may come a little later.                      *)
Leave ==
  /\ owner
  /\ owner' = FALSE
  /\ UNCHANGED <<size, made, stopped, connection, stream, left, shown, told>>

Dispose ==
  /\ ~ stream.closed
  /\ left' = TRUE
  /\ Close(stream, TRUE)
  /\ UNCHANGED <<size, made, owner, shown, told>>

Dropped == ~ owner /\ Dispose
Events == Accept \/ Interrupted \/ Ended \/ Refused
Next ==
  \/ Produce \/ Open \/ Events \/ BatchTimer \/ BackpressureTimer \/ Leave \/ Dispose
  \/ \E k \in 1 .. Final : Acknowledge(k)

Spec == Init /\ [][Next]_vars

-------------------------------------------------------------------------------
TypeOK ==
  /\ size \in Sizes /\ made \in 0 .. Final
  /\ link \in {"none", "opening", "open"} /\ linkFrom \in 0 .. Final
  /\ {stopped, linkHeld, owner, left} \subseteq BOOLEAN
  /\ stream.received \in 0 .. Final /\ stream.delivered \in 0 .. Final /\ stream.acked \in 0 .. Final
  /\ stream.reconnects \in 0 .. Reconnects
  /\ {stream.flow, stream.timer, stream.paused, stream.closed} \subseteq BOOLEAN
  /\ told \subseteq {"terminal", "failure"}

(* The renderer is sent every event once and in order, over any            *)
(* reconnection; what it has not acknowledged is exactly accounted for and *)
(* within the window; and what waits for it stays within two batches,      *)
(* unless a reconnection came in between.                                  *)
DeliveryExact ==
  /\ shown = [i \in 1 .. stream.delivered |-> i]
  /\ stream.unacked = Bytes(stream.acked + 1, stream.delivered)
  /\ stream.unacked = Owed(stream.debt)
  /\ stream.unacked <= WindowMax
  /\ stream.reconnects = 0 => Queued <= 2 * BatchMax

(* A stream that is closed leaves no run behind, and a renderer that still *)
(* wants it knows how it ended.                                            *)
EndsAreKnown ==
  stream.closed =>
    /\ stopped \/ TerminalSeen(stream)
    /\ owner /\ ~ left => told # {}

(* A stream comes to its end under any renderer, sidecar and connection.   *)
StreamCloses == <> stream.closed

(* "At 256 KiB of unacknowledged data it pauses the private sidecar        *)
(* source" (DESKTOP_SIDECAR.md).                                           *)
SourceIsPaused == stream.paused /\ link = "open" /\ ~ stream.closed => linkHeld
===============================================================================
