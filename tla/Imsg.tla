-------------------------------- MODULE Imsg --------------------------------
(***************************************************************************)
(* One direction of an imsg pipe between two processes of galileo: the     *)
(* sender's queue of buffers (msgbuf), the socket in the kernel with the   *)
(* descriptors travelling on it, the receiver's read buffer and its queue  *)
(* of received descriptors, and the libevent handler (proc_dispatch) that  *)
(* moves data along on both sides.                                         *)
(*                                                                         *)
(* Bytes are counted in units; a unit is known by the message it belongs   *)
(* to and its place in it, and a descriptor by the message it was composed *)
(* with.  A descriptor table that is nearly full, EINTR and EAGAIN make a  *)
(* call return without doing anything, which is a stuttering step here.    *)
(***************************************************************************)
EXTENDS Naturals, Sequences

CONSTANTS
    HdrSize,    \* IMSG_HEADER_SIZE
    MaxImsg,    \* MAX_IMSGSIZE
    Wrap,       \* 2^16: datalen and hdr.len are 16 bits wide
    ReadSize,   \* IBUF_READ_SIZE
    IovMax,     \* IOV_MAX
    SockSize,   \* what the kernel buffers for the socket
    MaxMsgs     \* bound on the messages composed

ASSUME ImsgAssumption ==
    /\ {HdrSize, MaxImsg, Wrap, ReadSize, IovMax, SockSize, MaxMsgs} \subseteq Nat \ {0}
    /\ HdrSize <= MaxImsg /\ MaxImsg < ReadSize /\ MaxImsg < Wrap

VARIABLES
    msgs,       \* the messages composed so far: total length and IMSGF_HASFD
    w,          \* sender: the ibufs queued on ibuf.w
    sender,     \* "loop", "flush" (inside proc_flush_imsg) or "closed"
    events,     \* sender: the events iev->ev waits for
    sock,       \* the units in the kernel, some with a descriptor attached
    r,          \* receiver: the units in ibuf.r
    fds,        \* receiver: the descriptors in ibuf.fds
    receiver,   \* "loop", "get" (proc_dispatch has read) or "dead" (the pipe is)
    got         \* the messages handed to p_cb, each with imsg.fd

vars == <<msgs, w, sender, events, sock, r, fds, receiver, got>>

None == 0

Least(a, b) == IF a < b THEN a ELSE b

-----------------------------------------------------------------------------
(* The sending side.                                                       *)

(* struct ibuf: unsent are the units rpos + 1 .. wpos of message m.        *)
Ibuf(m) == [m |-> m, rpos |-> 0, wpos |-> 0, fd |-> None]

Unsent(b) == b.wpos - b.rpos

(* ibuf_add with ibuf_reserve and ibuf_realloc; {} is a failure.           *)
IbufAdd(b, n) == IF b.wpos + n > MaxImsg THEN {} ELSE {[b EXCEPT !.wpos = @ + n]}

(* imsg_create: datalen is 16 bits wide, header size included.             *)
ImsgCreate(m, datalen) ==
    IF (datalen + HdrSize) % Wrap > MaxImsg THEN {} ELSE IbufAdd(Ibuf(m), HdrSize)

(* imsg_close: what the header says of the message.                        *)
ImsgClose(b) == [len |-> b.wpos, fd |-> b.fd # None]

(* Mutant: the write event is only added to an idle queue.                 *)
EventAddLate(q) == IF Len(q) > 1 THEN {"read", "write"} ELSE {"read"}

(* imsg_event_add                                                          *)
ImsgEventAdd(q) == IF q # <<>> THEN {"read", "write"} ELSE {"read"}

(* imsg_compose_event of datalen units, with a descriptor or without.      *)
ImsgComposeEvent(datalen, hasfd) ==
    /\ sender = "loop"
    /\ Len(msgs) < MaxMsgs
    /\ LET m == Len(msgs) + 1
       IN  \E b0 \in ImsgCreate(m, datalen) : \E b1 \in IbufAdd(b0, datalen) :
              LET b == [b1 EXCEPT !.fd = IF hasfd THEN m ELSE None]
              IN  /\ msgs' = Append(msgs, ImsgClose(b))
                  /\ w' = Append(w, b)
                  /\ events' = ImsgEventAdd(w')
    /\ UNCHANGED <<sender, sock, r, fds, receiver, got>>

(* The number of buffers msgbuf_write gathers: a buffer with a descriptor  *)
(* only as the first.                                                      *)
Gather(q) == CHOOSE g \in 1..Least(IovMax, Len(q)) :
                 /\ \A i \in 2..g : q[i].fd = None
                 /\ g = Least(IovMax, Len(q)) \/ q[g + 1].fd # None

(* How many units the first i buffers have left.                           *)
Left(q) == LET left[i \in 0..Len(q)] == IF i = 0 THEN 0 ELSE left[i - 1] + Unsent(q[i])
           IN  left

(* The units of the first g buffers, as sendmsg gets them.                 *)
Iov(q, g) ==
    LET left == Left(q)
        buf(j) == CHOOSE i \in 1..g : left[i - 1] < j /\ j <= left[i]
    IN  [j \in 1..left[g] |-> [m |-> q[buf(j)].m, u |-> q[buf(j)].rpos + (j - left[buf(j) - 1]),
                               fd |-> IF j = 1 THEN q[1].fd ELSE None]]

(* The buffers that are sent whole when n units are.                       *)
Done(q, n) ==
    LET left == Left(q)
    IN  CHOOSE d \in 0..Len(q) : left[d] <= n /\ (d < Len(q) => n < left[d + 1])

(* Mutant: a buffer that was sent in part is sent again from the start.    *)
DrainWhole(q, n) == SubSeq(q, Done(q, n) + 1, Len(q))

(* msgbuf_drain: n units have been sent.                                   *)
MsgbufDrain(q, n) ==
    LET rest == SubSeq(q, Done(q, n) + 1, Len(q))
    IN  IF rest = <<>> THEN rest
        ELSE [rest EXCEPT ![1].rpos = @ + (n - Left(q)[Done(q, n)])]

(* msgbuf_write: the kernel takes as many units as it likes of those       *)
(* gathered; the descriptor goes with the first of them, and is closed.    *)
MsgbufWrite ==
    /\ w # <<>>
    /\ receiver # "dead"
    /\ LET iov == Iov(w, Gather(w))
       IN  \E n \in 1..Least(Len(iov), SockSize - Len(sock)) :
              /\ sock' = sock \o SubSeq(iov, 1, n)
              /\ w' = MsgbufDrain([w EXCEPT ![1].fd = None], n)
    /\ UNCHANGED <<msgs, r, fds, receiver, got>>

(* proc_dispatch in the sender, called for EV_WRITE.                       *)
DispatchWrite ==
    /\ sender = "loop"
    /\ "write" \in events
    /\ MsgbufWrite
    /\ events' = ImsgEventAdd(w')
    /\ UNCHANGED sender

(* proc_flush_imsg: write until the queue is empty, trying again when the  *)
(* socket is full; nothing else runs in the sender meanwhile.              *)
ProcFlushImsg ==
    /\ sender = "loop"
    /\ sender' = "flush"
    /\ UNCHANGED <<msgs, w, events, sock, r, fds, receiver, got>>

ImsgFlush ==
    /\ sender = "flush"
    /\ MsgbufWrite
    /\ UNCHANGED <<sender, events>>

(* Mutant: the flush leaves the event as it was.                           *)
FlushKeepsEvent ==
    /\ sender = "flush"
    /\ w = <<>>
    /\ sender' = "loop"
    /\ UNCHANGED <<msgs, w, events, sock, r, fds, receiver, got>>

(* The end of proc_flush_imsg.                                             *)
FlushDone ==
    /\ sender = "flush"
    /\ w = <<>>
    /\ sender' = "loop"
    /\ events' = ImsgEventAdd(w)
    /\ UNCHANGED <<msgs, w, sock, r, fds, receiver, got>>

(* proc_close, at any time: imsg_clear drops what is queued, a message cut *)
(* in the middle included.                                                 *)
ProcClose ==
    /\ sender = "loop"
    /\ sender' = "closed"
    /\ w' = <<>>
    /\ events' = {}
    /\ UNCHANGED <<msgs, sock, r, fds, receiver, got>>

-----------------------------------------------------------------------------
(* The receiving side.                                                     *)

(* imsg_get_fd                                                             *)
ImsgGetFd(q) == IF q = <<>> THEN None ELSE Head(q)

(* imsg_read: recvmsg returns some units, and never more than one          *)
(* descriptor, for which there is room.                                    *)
DispatchRead ==
    /\ receiver = "loop"
    /\ \E n \in 1..Least(Len(sock), ReadSize - Len(r)) :
          LET carried == {i \in 1..n : sock[i].fd # None}
          IN  /\ \A i, j \in carried : i = j
              /\ sock' = SubSeq(sock, n + 1, Len(sock))
              /\ r' = r \o [i \in 1..n |-> <<sock[i].m, sock[i].u>>]
              /\ fds' = IF carried = {} THEN fds
                        ELSE Append(fds, sock[CHOOSE i \in carried : TRUE].fd)
    /\ receiver' = "get"
    /\ UNCHANGED <<msgs, w, sender, events, got>>

(* The message the read buffer begins with, as its header says, is whole.  *)
(* The first unit is always the first of a message, or IsChannel would     *)
(* fail.                                                                   *)
Complete == Len(r) >= HdrSize /\ Len(r) >= msgs[r[1][1]].len

(* imsg_get in the loop of proc_dispatch, and the call of p_cb.            *)
ImsgGet ==
    /\ receiver = "get"
    /\ Complete
    /\ LET m == r[1][1]
           h == msgs[m]
       IN  /\ r' = SubSeq(r, h.len + 1, Len(r))
           /\ fds' = IF h.fd /\ fds # <<>> THEN Tail(fds) ELSE fds
           /\ got' = Append(got, [m |-> m, fd |-> IF h.fd THEN ImsgGetFd(fds) ELSE None,
                                  len |-> h.len])
    /\ UNCHANGED <<msgs, w, sender, events, sock, receiver>>

(* imsg_get returns 0, which ends the loop.                                *)
DispatchDone ==
    /\ receiver = "get"
    /\ ~Complete
    /\ receiver' = "loop"
    /\ UNCHANGED <<msgs, w, sender, events, sock, r, fds, got>>

(* Mutant: imsg_read returning -1 (EAGAIN) is taken for the end as well.   *)
EofOnAgain ==
    /\ receiver = "loop"
    /\ sock = <<>>
    /\ receiver' = "dead"
    /\ UNCHANGED <<msgs, w, sender, events, sock, r, fds, got>>

(* Mutant: the end of the pipe with a message cut short is ignored.        *)
EofKeepsPartial ==
    /\ receiver = "loop"
    /\ r = <<>>
    /\ sock = <<>> /\ sender = "closed"
    /\ receiver' = "dead"
    /\ UNCHANGED <<msgs, w, sender, events, sock, r, fds, got>>

(* imsg_read returns 0: no data and no sender, or no room in the buffer.   *)
(* The pipe is dead and the process leaves its event loop.                 *)
DispatchEof ==
    /\ receiver = "loop"
    /\ Least(Len(sock), ReadSize - Len(r)) = 0
    /\ sock = <<>> => sender = "closed"
    /\ receiver' = "dead"
    /\ UNCHANGED <<msgs, w, sender, events, sock, r, fds, got>>

-----------------------------------------------------------------------------
(* imsg_init, msgbuf_init, and proc_connect adding the events.             *)
Init ==
    /\ msgs = <<>> /\ w = <<>> /\ sock = <<>> /\ r = <<>> /\ fds = <<>> /\ got = <<>>
    /\ sender = "loop"
    /\ events = {"read"}
    /\ receiver = "loop"

Next ==
    \/ \E datalen \in 0..Wrap - 1, hasfd \in BOOLEAN : ImsgComposeEvent(datalen, hasfd)
    \/ DispatchWrite
    \/ ProcFlushImsg
    \/ ImsgFlush
    \/ FlushDone
    \/ ProcClose
    \/ DispatchRead
    \/ ImsgGet
    \/ DispatchDone
    \/ DispatchEof

Spec == Init /\ [][Next]_vars

(* libevent calls the handler of a descriptor that stays ready, and the    *)
(* loop of proc_flush_imsg does not stop by itself.                        *)
FairSpec == /\ Spec
            /\ WF_vars(DispatchWrite) /\ WF_vars(DispatchRead) /\ WF_vars(DispatchEof)
            /\ WF_vars(ImsgGet) /\ WF_vars(DispatchDone)
            /\ WF_vars(ImsgFlush) /\ WF_vars(FlushDone)

-----------------------------------------------------------------------------
(* Properties.                                                             *)

(* EV_WRITE is waited for exactly while buffers are queued.  Without it a  *)
(* queue would never drain; with it and an empty queue msgbuf_write would  *)
(* send nothing, get 0 from sendmsg and take the pipe for dead.            *)
WriteEventExact == sender = "loop" => ("write" \in events <=> w # <<>>)

(* A process that takes the pipe for dead is right: the other end closed   *)
(* it and everything it had sent was read.  (recvmsg returns 0 as well     *)
(* when there is no room left in the read buffer.)                         *)
NoFalseEof == receiver = "dead" => sender = "closed" /\ sock = <<>>

(* The pipe as a channel of whole messages.  Once the sender is gone only  *)
(* the messages the kernel or the receiver have to the last unit remain.   *)
Whole(m) == [m |-> m, fd |-> IF msgs[m].fd THEN m ELSE None, len |-> msgs[m].len]

Sent == {m \in Len(got) + 1..Len(msgs) :
            \/ \E i \in 1..Len(sock) : sock[i].m = m /\ sock[i].u = msgs[m].len
            \/ \E i \in 1..Len(r) : r[i] = <<m, msgs[m].len>>}

LastSent == CHOOSE n \in Sent \cup {Len(got)} : \A m \in Sent : m <= n

Arriving == IF sender # "closed" THEN Len(msgs) ELSE LastSent

Pending == [k \in 1..Arriving - Len(got) |-> Whole(Len(got) + k)]

Pipe == INSTANCE Channel WITH
    Message <- [m : 1..MaxMsgs, fd : 0..MaxMsgs, len : HdrSize..MaxImsg],
    chan <- Pending

(* Whatever the kernel does with partial writes and reads, the pipe is the *)
(* channel Reload takes it for: whole messages, in order, each with the    *)
(* descriptor that was composed with it.                                   *)
IsChannel == Pipe!Spec

(* A message that was composed is handled, unless the sender closes.       *)
AllDelivered ==
    \A n \in 1..MaxMsgs : Len(msgs) >= n ~> (Len(got) >= n \/ sender = "closed")

(* A receiver learns that the other end is gone.                           *)
EofSeen == sender = "closed" ~> receiver = "dead"
=============================================================================
