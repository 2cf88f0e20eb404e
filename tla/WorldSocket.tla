----------------------------- MODULE WorldSocket -----------------------------
(***************************************************************************)
(* The sending half of a WorldSocket and the end of its connection.        *)
(*                                                                         *)
(* Game threads call SendPacket: test IsOpen, then Enqueue on _bufferQueue *)
(* (an MPSCQueue; module FifoQueue is what that promises).  The network    *)
(* thread owns _writeQueue: Update drains _bufferQueue into buffers,       *)
(* appends them to _writeQueue and writes until the kernel would block.    *)
(* Another thread may end the connection meanwhile, as the world thread    *)
(* does (World::ProcessLinkInstanceSocket, WorldSession::KickPlayer): it   *)
(* goes through DelayedCloseSocket or CloseSocket step by step.            *)
(*                                                                         *)
(* DelayedCloseSocket calls empty() on a std::queue that the network       *)
(* thread is changing.  That race is modelled by what the build can do: it *)
(* loads the two ends of the queue one after the other, in either order,   *)
(* and, where stores are late, it may load values older than the network   *)
(* thread's last pushes and pops.                                          *)
(***************************************************************************)
EXTENDS Naturals, FiniteSets, SequencesExt

CONSTANTS Senders,      \* game threads that call SendPacket
          MaxPackets,   \* bound on the packets sent; they are numbered as enqueued
          BufferRoom,   \* how many packets one send buffer holds
          Settings      \* big: the packets that do not fit in one send buffer;
                        \* late: the network thread's stores are seen late (x86-TSO)

Packets == 1..MaxPackets

ASSUME SocketConstants ==
  /\ MaxPackets \in Nat /\ BufferRoom \in Nat \ {0}
  /\ Settings \subseteq [big : SUBSET Packets, late : BOOLEAN]

VARIABLES
  bufferQueue,   \* _bufferQueue
  sending,       \* the threads inside SendPacket, past the IsOpen test
  buffer,        \* the local "buffer" of WorldSocket::Update
  writeQueue,    \* _writeQueue: each buffer is a sequence of packets
  writing,       \* _isWritingAsync
  net,           \* where the network thread is
  held,          \* the NetworkThread still holds the socket and calls Update
  closed,        \* _closed
  closing,       \* _closing
  closer,        \* where the closing thread is
  firstEnd,      \* the first end of the queue its empty() has loaded
  pushed, popped,           \* the ends of _writeQueue: buffers ever pushed, popped
  seenPushed, seenPopped,   \* the same as other threads see them
  setting,       \* one of Settings; never changes
  shutdown,      \* the socket is shut down for sending
  failed,        \* the peer is gone: writes fail
  forceExit,     \* OnClose has run: the session, if any, is told to exit
  closedBy,      \* history: "nobody", "delay" (DelayedCloseSocket) or "other"
  accepted,      \* history: the packets enqueued, in order
  wire,          \* history: the packets written, in order
  promise        \* history: what was queued when DelayedCloseSocket was called

sendVars  == <<bufferQueue, sending, accepted>>
queueVars == <<writeQueue, pushed, popped>>
seenVars  == <<seenPushed, seenPopped, setting>>
closeVars == <<closed, closing, shutdown, forceExit, closedBy, promise>>
closerVars == <<closer, firstEnd>>
vars == <<sendVars, buffer, queueVars, writing, net, held, closeVars, closerVars,
          seenVars, failed, wire>>

(***************************************************************************)
(* net: "idle" between two handlers, "drain" in WorldSocket::Update's      *)
(* loop, "write" / "once" about to call HandleQueue from Socket::Update's  *)
(* loop / from WriteHandlerWrapper, "popped" / "poppedLast" after its      *)
(* pop().                                                                  *)
(* closer: "idle", "first" and "second" inside empty(), "closeEmpty" or,   *)
(* without the test, "close" before _closed.exchange, "shutdown" after it, *)
(* "done".                                                                 *)
(***************************************************************************)
NetPC    == {"idle", "drain", "write", "once", "popped", "poppedLast"}
CloserPC == {"idle", "first", "second", "closeEmpty", "close", "shutdown", "done"}

QueuesTyped ==
  /\ bufferQueue \in Seq(Packets) /\ buffer \in Seq(Packets)
  /\ writeQueue \in Seq(Seq(Packets))
  /\ accepted \in Seq(Packets) /\ wire \in Seq(Packets)
FlagsTyped ==
  /\ sending \subseteq Senders
  /\ writing \in BOOLEAN /\ closed \in BOOLEAN /\ closing \in BOOLEAN
  /\ shutdown \in BOOLEAN /\ failed \in BOOLEAN /\ forceExit \in BOOLEAN
  /\ net \in NetPC /\ held \in BOOLEAN /\ closer \in CloserPC
  /\ closedBy \in {"nobody", "delay", "other"} /\ setting \in Settings
EndsTyped ==
  /\ pushed \in Nat /\ popped \in 0..pushed
  /\ seenPushed \in 0..pushed /\ seenPopped \in 0..popped
  /\ firstEnd \in [front : BOOLEAN, value : Nat]
  /\ promise \in [packets : Nat, pushed : Nat, seen : Nat]
TypeOK == QueuesTyped /\ FlagsTyped /\ EndsTyped

Init ==
  /\ bufferQueue = <<>> /\ sending = {} /\ accepted = <<>>
  /\ buffer = <<>> /\ writeQueue = <<>> /\ wire = <<>>
  /\ writing = FALSE /\ net = "idle" /\ held = TRUE
  /\ closed = FALSE /\ closing = FALSE /\ shutdown = FALSE
  /\ failed = FALSE /\ forceExit = FALSE /\ closedBy = "nobody"
  /\ closer = "idle" /\ firstEnd = [front |-> FALSE, value |-> 0]
  /\ pushed = 0 /\ popped = 0 /\ seenPushed = 0 /\ seenPopped = 0
  /\ setting \in Settings
  /\ promise = [packets |-> 0, pushed |-> 0, seen |-> 0]

IsOpen == ~closed /\ ~closing
-----------------------------------------------------------------------------
(* SendPacket: the IsOpen test ...                                         *)
SendCheck(s) ==
  /\ s \notin sending
  /\ Len(accepted) + Cardinality(sending) < MaxPackets
  /\ IsOpen
  /\ sending' = sending \cup {s}
  /\ UNCHANGED <<bufferQueue, accepted, buffer, queueVars, writing, net, held, closeVars,
                 closerVars, seenVars, failed, wire>>

(* ... and the Enqueue, however much later.                                *)
SendEnqueue(s) ==
  /\ s \in sending
  /\ sending' = sending \ {s}
  /\ accepted' = Append(accepted, Len(accepted) + 1)
  /\ bufferQueue' = Append(bufferQueue, Len(accepted) + 1)
  /\ UNCHANGED <<buffer, queueVars, writing, net, held, closeVars, closerVars, seenVars,
                 failed, wire>>
-----------------------------------------------------------------------------
(* QueuePacket, once per buffer of "new".                                  *)
QueuePackets(new) ==
  /\ writeQueue' = writeQueue \o new
  /\ pushed' = pushed + Len(new)
  /\ popped' = popped

(* Without a store buffer the stores of the network thread are seen at once. *)
Visible ==
  /\ UNCHANGED setting
  /\ IF setting.late THEN UNCHANGED <<seenPushed, seenPopped>>
                     ELSE seenPushed' = pushed' /\ seenPopped' = popped'

(* A handler starts with locked instructions (the poll of the reactor, the *)
(* reference counts of the socket), which wait for the store buffer.       *)
Drained == seenPushed = pushed /\ seenPopped = popped

Publish ==
  /\ ~Drained
  /\ seenPushed' = pushed /\ seenPopped' = popped
  /\ UNCHANGED <<sendVars, buffer, queueVars, writing, net, held, closeVars, closerVars,
                 setting, failed, wire>>

(* The 1 ms timer calls Update on every socket the thread still holds.     *)
UpdateBegin ==
  /\ net = "idle" /\ held /\ Drained
  /\ net' = "drain"
  /\ buffer' = <<>>
  /\ UNCHANGED <<sendVars, queueVars, writing, held, closeVars, closerVars, seenVars,
                 failed, wire>>

(* Mutant: the big packet overtakes what the buffer holds.                  *)
UpdateDequeueOvertaking ==
  /\ net = "drain" /\ bufferQueue # <<>>
  /\ LET p == Head(bufferQueue) IN
       IF p \in setting.big
       THEN QueuePackets(<< <<p>> >>) /\ UNCHANGED buffer
       ELSE IF Len(buffer) = BufferRoom
       THEN QueuePackets(<<buffer>>) /\ buffer' = <<p>>
       ELSE UNCHANGED queueVars /\ buffer' = Append(buffer, p)
  /\ bufferQueue' = Tail(bufferQueue)
  /\ Visible
  /\ UNCHANGED <<sending, accepted, writing, net, held, closeVars, closerVars, failed, wire>>

(* Update: one packet into the buffer.  When there is no room the buffer - *)
(* even an empty one - is queued first; a big packet gets its own.         *)
UpdateDequeue ==
  /\ net = "drain" /\ bufferQueue # <<>>
  /\ LET p == Head(bufferQueue) IN
       IF p \in setting.big
       THEN QueuePackets(<<buffer, <<p>> >>) /\ buffer' = <<>>
       ELSE IF Len(buffer) = BufferRoom
       THEN QueuePackets(<<buffer>>) /\ buffer' = <<p>>
       ELSE UNCHANGED queueVars /\ buffer' = Append(buffer, p)
  /\ bufferQueue' = Tail(bufferQueue)
  /\ Visible
  /\ UNCHANGED <<sending, accepted, writing, net, held, closeVars, closerVars, failed, wire>>

(* Update: Dequeue has returned false - perhaps with packets behind a      *)
(* stalled producer - so the rest is queued and Socket::Update decides.    *)
UpdateEnd ==
  /\ net = "drain"
  /\ QueuePackets(IF buffer = <<>> THEN <<>> ELSE <<buffer>>)
  /\ buffer' = <<>>
  /\ held' = ~closed
  /\ net' = IF closed \/ writing \/ (writeQueue' = <<>> /\ ~closing) THEN "idle" ELSE "write"
  /\ Visible
  /\ UNCHANGED <<sendVars, writing, closeVars, closerVars, failed, wire>>
-----------------------------------------------------------------------------
(* HandleQueue leaves through its caller: the loop of Update, or once.     *)
Calling == net \in {"write", "once"}

HandleEmpty ==
  /\ Calling
  /\ writeQueue = <<>>
  /\ net' = "idle"
  /\ UNCHANGED <<sendVars, buffer, queueVars, writing, held, closeVars, closerVars, seenVars,
                 failed, wire>>

Writable == Calling /\ writeQueue # <<>> /\ Head(writeQueue) # <<>> /\ ~failed /\ ~shutdown

(* would_block, or a partial write: k whole packets of the front buffer    *)
(* went out; AsyncProcessQueue waits until the socket can be written.      *)
HandlePartial ==
  /\ Writable
  /\ \E k \in 0..(Len(Head(writeQueue)) - 1) :
       /\ wire' = wire \o SubSeq(Head(writeQueue), 1, k)
       /\ writeQueue' = << SubSeq(Head(writeQueue), k + 1, Len(Head(writeQueue))) >>
                          \o Tail(writeQueue)
  /\ writing' = TRUE
  /\ net' = "idle"
  /\ UNCHANGED <<sendVars, buffer, pushed, popped, held, closeVars, closerVars, seenVars, failed>>

Pop ==
  /\ writeQueue' = Tail(writeQueue)
  /\ popped' = popped + 1
  /\ pushed' = pushed
  /\ Visible

(* The whole front buffer is written and popped.                           *)
HandleWritten ==
  /\ Writable
  /\ wire' = wire \o Head(writeQueue)
  /\ Pop
  /\ net' = IF net = "write" THEN "popped" ELSE "poppedLast"
  /\ UNCHANGED <<sendVars, buffer, writing, held, closeVars, closerVars, failed>>

(* Mutant: the error path pops, and so does whoever called it.              *)
HandleFailedPopsTwice ==
  /\ Calling /\ writeQueue # <<>>
  /\ failed \/ shutdown \/ Head(writeQueue) = <<>>
  /\ writeQueue' = SubSeq(writeQueue, 3, Len(writeQueue))
  /\ popped' = popped + 2
  /\ pushed' = pushed
  /\ Visible
  /\ net' = "poppedLast"
  /\ UNCHANGED <<sendVars, buffer, writing, held, closeVars, closerVars, failed, wire>>

(* A write error, or nothing to write in an empty buffer: popped as well.  *)
HandleFailed ==
  /\ Calling /\ writeQueue # <<>>
  /\ failed \/ shutdown \/ Head(writeQueue) = <<>>
  /\ Pop
  /\ net' = "poppedLast"
  /\ UNCHANGED <<sendVars, buffer, writing, held, closeVars, closerVars, failed, wire>>

(* CloseSocket: only the first call shuts down and runs OnClose.           *)
CloseSocketNow(by) ==
  /\ closed' = TRUE
  /\ IF closed THEN UNCHANGED <<shutdown, forceExit, closedBy>>
               ELSE shutdown' = TRUE /\ forceExit' = TRUE /\ closedBy' = by

(* Mutant: the queue drains without a look at _closing.                     *)
HandleClosingForgets ==
  /\ net \in {"popped", "poppedLast"}
  /\ net' = IF net = "popped" /\ writeQueue # <<>> THEN "write" ELSE "idle"
  /\ UNCHANGED <<sendVars, buffer, queueVars, writing, held, closeVars, closerVars, seenVars,
                 failed, wire>>

(* HandleQueue after the pop: close if _closing and nothing is left; go on *)
(* with the next buffer only in Update's loop and after a full write.      *)
HandleClosing ==
  /\ net \in {"popped", "poppedLast"}
  /\ IF closing /\ writeQueue = <<>>
     THEN CloseSocketNow("delay")
     ELSE UNCHANGED <<closed, shutdown, forceExit, closedBy>>
  /\ net' = IF net = "popped" /\ writeQueue # <<>> THEN "write" ELSE "idle"
  /\ UNCHANGED <<sendVars, buffer, queueVars, writing, held, closing, promise,
                 closerVars, seenVars, failed, wire>>

(* Mutant: the handler leaves _isWritingAsync set.                          *)
WriteReadyKeepsFlag ==
  /\ net = "idle" /\ writing /\ Drained
  /\ net' = "once"
  /\ UNCHANGED <<sendVars, buffer, queueVars, writing, held, closeVars, closerVars,
                 seenVars, failed, wire>>

(* WriteHandlerWrapper: the socket can be written again.                   *)
WriteReady ==
  /\ net = "idle" /\ writing /\ Drained
  /\ writing' = FALSE
  /\ net' = "once"
  /\ UNCHANGED <<sendVars, buffer, queueVars, held, closeVars, closerVars, seenVars,
                 failed, wire>>

(* The peer resets the connection: from now on writes fail ...             *)
PeerGone ==
  /\ ~failed
  /\ failed' = TRUE
  /\ UNCHANGED <<sendVars, buffer, queueVars, writing, net, held, closeVars, closerVars,
                 seenVars, wire>>

(* ... and a read, if one is pending, ends in ReadHandlerInternal's error. *)
ReadError ==
  /\ net = "idle" /\ failed /\ ~closed /\ Drained
  /\ CloseSocketNow("other")
  /\ UNCHANGED <<sendVars, buffer, queueVars, writing, net, held, closing, promise,
                 closerVars, seenVars, failed, wire>>
-----------------------------------------------------------------------------
(* DelayedCloseSocket sets _closing; remember what was queued by then, and *)
(* how much of it the other threads could see.                             *)
SetClosing ==
  /\ closing' = TRUE
  /\ promise' = [packets |-> Len(accepted), pushed |-> pushed, seen |-> seenPushed]

(* The network thread itself (the authentication failures): its own view   *)
(* of the queue is exact.                                                  *)
NetDelayedClose ==
  /\ net = "idle" /\ held /\ ~closing /\ Drained
  /\ SetClosing
  /\ IF writeQueue = <<>>
     THEN CloseSocketNow("delay")
     ELSE UNCHANGED <<closed, shutdown, forceExit, closedBy>>
  /\ UNCHANGED <<sendVars, buffer, queueVars, writing, net, held, closerVars, seenVars,
                 failed, wire>>

(* The closing thread: _closing.exchange(true) ...                         *)
DelayedClose ==
  /\ closer = "idle"
  /\ IF closing
     THEN closer' = "done" /\ UNCHANGED <<closing, promise>>
     ELSE closer' = "first" /\ SetClosing
  /\ UNCHANGED <<sendVars, buffer, queueVars, writing, net, held, closed, shutdown,
                 forceExit, closedBy, firstEnd, seenVars, failed, wire>>

(* ... _writeQueue.empty(), one load ...                                   *)
EmptyFirstLoad ==
  /\ closer = "first"
  /\ closer' = "second"
  /\ \/ firstEnd' = [front |-> TRUE, value |-> seenPopped]
     \/ firstEnd' = [front |-> FALSE, value |-> seenPushed]
  /\ UNCHANGED <<sendVars, buffer, queueVars, writing, net, held, closeVars, seenVars,
                 failed, wire>>

(* Mutant: the queue is not tested.                                         *)
EmptyNotTested ==
  /\ closer = "second"
  /\ closer' = "closeEmpty"
  /\ UNCHANGED <<firstEnd, sendVars, buffer, queueVars, writing, net, held, closeVars,
                 seenVars, failed, wire>>

(* ... and the other one, and the comparison.                              *)
EmptySecondLoad ==
  /\ closer = "second"
  /\ closer' = IF firstEnd.value = (IF firstEnd.front THEN seenPushed ELSE seenPopped)
               THEN "closeEmpty" ELSE "done"
  /\ UNCHANGED <<firstEnd, sendVars, buffer, queueVars, writing, net, held, closeVars,
                 seenVars, failed, wire>>

(* KickPlayer calls CloseSocket without further ado.                       *)
Kick ==
  /\ closer = "idle"
  /\ closer' = "close"
  /\ UNCHANGED <<firstEnd, sendVars, buffer, queueVars, writing, net, held, closeVars,
                 seenVars, failed, wire>>

(* CloseSocket: _closed.exchange(true) ...                                 *)
CloseExchange ==
  /\ closer \in {"closeEmpty", "close"}
  /\ closed' = TRUE
  /\ closer' = IF closed THEN "done" ELSE "shutdown"
  /\ closedBy' = IF closed THEN closedBy ELSE IF closer = "close" THEN "other" ELSE "delay"
  /\ UNCHANGED <<firstEnd, sendVars, buffer, queueVars, writing, net, held, closing,
                 shutdown, forceExit, promise, seenVars, failed, wire>>

(* ... then shutdown and OnClose.                                          *)
CloseShutdown ==
  /\ closer = "shutdown"
  /\ closer' = "done"
  /\ shutdown' = TRUE /\ forceExit' = TRUE
  /\ UNCHANGED <<firstEnd, sendVars, buffer, queueVars, writing, net, held, closed, closing,
                 closedBy, promise, seenVars, failed, wire>>
-----------------------------------------------------------------------------
NetworkNext ==
  \/ UpdateBegin \/ UpdateDequeue \/ UpdateEnd
  \/ HandleEmpty \/ HandlePartial \/ HandleWritten \/ HandleFailed \/ HandleClosing
  \/ WriteReady \/ ReadError \/ NetDelayedClose

CloserNext ==
  \/ DelayedClose \/ EmptyFirstLoad \/ EmptySecondLoad
  \/ Kick \/ CloseExchange \/ CloseShutdown

Next ==
  \/ \E s \in Senders : SendCheck(s) \/ SendEnqueue(s)
  \/ NetworkNext
  \/ CloserNext
  \/ PeerGone
  \/ Publish

Spec == Init /\ [][Next]_vars

(***************************************************************************)
(* Fairness: every thread runs on once inside a call, stores become        *)
(* visible, the timer fires (it is re-armed by every Update), Dequeue sees *)
(* a stalled producer's packets in the end, and - the one assumption on    *)
(* the peer - a connection that does not fail keeps accepting data.        *)
(***************************************************************************)
Fairness ==
  /\ \A s \in Senders : WF_vars(SendEnqueue(s))
  /\ WF_vars(UpdateBegin) /\ SF_vars(UpdateDequeue) /\ WF_vars(UpdateEnd)
  /\ WF_vars(HandleEmpty) /\ WF_vars(HandleFailed) /\ WF_vars(HandleClosing)
  /\ SF_vars(HandleWritten) /\ SF_vars(WriteReady)
  /\ WF_vars(EmptyFirstLoad) /\ WF_vars(EmptySecondLoad)
  /\ WF_vars(CloseExchange) /\ WF_vars(CloseShutdown)
  /\ WF_vars(Publish)

FairSpec == Spec /\ Fairness
-----------------------------------------------------------------------------
(* Where a packet may be, in the order of the stream.                       *)
Stages == <<wire>> \o writeQueue \o <<buffer, bufferQueue>>

Ascending(s) == \A i, j \in 1..Len(s) : i < j => s[i] < s[j]
Precedes(s, t) == \A i \in 1..Len(s), j \in 1..Len(t) : s[i] < t[j]

(***************************************************************************)
(* The byte stream: until the connection breaks, what is on the wire       *)
(* followed by everything still queued - in the write queue, in Update's   *)
(* buffer, in the lock-free queue - is what SendPacket accepted, in order: *)
(* packets are numbered as accepted, so the stages hold just the accepted  *)
(* ones, each in ascending order and all before those of the next stage.   *)
(* The client decrypts with a running cipher, so one packet out of place   *)
(* or sent twice ruins the rest.  Coalescing, big packets that bypass the  *)
(* buffer and partial writes must all keep it; after the connection broke  *)
(* and buffers were dropped, what the peer has seen is still a prefix.     *)
(***************************************************************************)
StreamIntact ==
  /\ ~failed /\ ~shutdown =>
       /\ \A k \in 1..Len(Stages) : Ascending(Stages[k])
       /\ \A k, l \in 1..Len(Stages) : k < l => Precedes(Stages[k], Stages[l])
       /\ UNION {ToSet(Stages[k]) : k \in 1..Len(Stages)} = ToSet(accepted)
  /\ IsPrefix(wire, accepted)

(***************************************************************************)
(* Where stores are seen in order, a delayed close never cuts off a buffer *)
(* that was in _writeQueue when it was asked for: by the time it closes,   *)
(* all buffers pushed by then have been popped, even though the emptiness  *)
(* test of another thread races with the network thread's pushes and pops. *)
(* Where they are seen late that much is not true: a buffer whose push the *)
(* closing thread cannot see yet may be cut off.  It still holds for every *)
(* buffer whose push had become visible.                                   *)
(***************************************************************************)
DelayedCloseFlushes ==
  closedBy = "delay" =>
    popped >= (IF setting.late THEN promise.seen ELSE promise.pushed)

(***************************************************************************)
(* What Socket.h:166 says of DelayedCloseSocket, "Marks the socket for     *)
(* closing after write buffer becomes empty", taken for the packets that   *)
(* SendPacket had accepted: they are written before the socket is closed.  *)
(***************************************************************************)
NothingLostByDelayedClose ==
  closedBy = "delay" /\ ~failed => Len(wire) >= promise.packets

(***************************************************************************)
(* Socket.h:166 again: a socket marked for closing is closed in the end,   *)
(* whoever marked it and wherever the network thread was, if every thread  *)
(* sees the others' stores in their order: the look at the queue after the *)
(* mark and the look at the mark after the pop cannot both miss.           *)
(***************************************************************************)
DelayedCloseClosesInOrder == closing /\ ~setting.late ~> closed

(***************************************************************************)
(* Every accepted packet reaches the wire unless the connection ends.      *)
(***************************************************************************)
EventuallyWritten ==
  \A n \in Packets :
    (Len(accepted) >= n) ~> (Len(wire) >= n \/ failed \/ closed)
-----------------------------------------------------------------------------
(***************************************************************************)
(* What StreamIntact rests on.  Behind the buffers that Update has moved   *)
(* to the write queue, its buffer and the lock-free queue hold the last of *)
(* the accepted packets; while the connection is whole the write queue     *)
(* holds exactly those between the wire and Update's buffer, each of its   *)
(* buffers a run of consecutive packets.                                   *)
(***************************************************************************)
Moved == Len(accepted) - Len(bufferQueue) - Len(buffer)
Whole == ~failed /\ ~shutdown

AcceptedNumbered ==
  /\ IsFiniteSet(sending)
  /\ Len(accepted) + Cardinality(sending) <= MaxPackets
  /\ \A i \in 1..Len(accepted) : accepted[i] = i

WireNumbered == Len(wire) <= Moved /\ \A i \in 1..Len(wire) : wire[i] = i

EndOfStream ==
  /\ \A i \in 1..Len(buffer) : buffer[i] = Moved + i
  /\ \A i \in 1..Len(bufferQueue) : bufferQueue[i] = Moved + Len(buffer) + i

(* Queue q holds exactly the packets after lo up to hi, in order.          *)
Runs(q, lo, hi) ==
  \A k \in 1..Len(q) : \A i \in 1..Len(q[k]) :
    /\ q[k][i] \in (lo + 1)..hi
    /\ q[k][i] = q[k][1] + i - 1
InOrder(q) == \A k, l \in 1..Len(q) : k < l => Precedes(q[k], q[l])
Covers(q, lo, hi) ==
  \A p \in (lo + 1)..hi :
    \E k \in 1..Len(q) : \E i \in 1..Len(q[k]) : q[k][i] = p
HoldsExactly(q, lo, hi) == Runs(q, lo, hi) /\ InOrder(q) /\ Covers(q, lo, hi)

StreamInv ==
  /\ AcceptedNumbered /\ WireNumbered /\ EndOfStream
  /\ net # "drain" => buffer = <<>>
  /\ Whole => HoldsExactly(writeQueue, Len(wire), Moved)

(***************************************************************************)
(* What DelayedCloseFlushes rests on: whichever end of the queue empty()   *)
(* loads first, if the other one then equals it, everything seen pushed    *)
(* when _closing was set has been popped - and where stores are seen in    *)
(* order that is everything pushed.                                        *)
(***************************************************************************)
QueueEnds == pushed = popped + Len(writeQueue)

PromiseSeen == closing => promise.seen <= seenPushed
CloserMarked == closer \in {"first", "second", "closeEmpty"} => closing
FirstLoad ==
  closer = "second" => IF firstEnd.front THEN firstEnd.value <= popped
                                         ELSE promise.seen <= firstEnd.value
SeenEmpty == closer = "closeEmpty" => promise.seen <= popped
ClosedFlushed == closedBy = "delay" => closing /\ promise.seen <= popped

SeenInOrder ==
  ~setting.late => pushed = seenPushed /\ promise.pushed = promise.seen

CloseInv ==
  QueueEnds /\ PromiseSeen /\ CloserMarked /\ FirstLoad /\ SeenEmpty /\ ClosedFlushed

SocketInv == TypeOK /\ StreamInv /\ CloseInv
=============================================================================
