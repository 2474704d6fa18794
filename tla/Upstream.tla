------------------------------ MODULE Upstream ------------------------------
(***************************************************************************)
(* What drives a request towards the capsule: libasr's query in the event  *)
(* loop (event_asr_run, event_asr_dispatch, event_asr_abort), and then TLS *)
(* on a non-blocking socket below a bufferevent (proxy_tls_readcb and      *)
(* proxy_tls_writecb).  Both depend on the next event being added at the   *)
(* end of every callback: events fire once.  What the callbacks above do   *)
(* is in Worker, and so is proxy_connect.                                  *)
(*                                                                         *)
(* The client has clt_evasr, the struct event_asr has the query and the    *)
(* client, the event loop has the event inside the event_asr; the request  *)
(* can end at any time, also inside the callback that event_asr_dispatch   *)
(* makes before it frees the event_asr itself.                             *)
(***************************************************************************)
EXTENDS Naturals, Sequences

CONSTANTS
    MaxRounds,  \* bound on the rounds a query takes (servers, retries)
    Request,    \* the size of the request
    Replies,    \* the replies of the capsule: sequences of the sizes of records
    Room,       \* the size of the socket's send buffer
    ReadSize    \* IBUF_READ_SIZE

ASSUME UpstreamAssumption ==
    /\ MaxRounds \in Nat
    /\ {Request, Room, ReadSize} \subseteq Nat \ {0}
    /\ Replies \subseteq Seq(1..ReadSize)

VARIABLES
    client,     \* "new", "resolving", "connecting", "tls", "gone"
    evasr,      \* clt_evasr: "null" or "set"
    eva,        \* the struct event_asr: "none", "live", "freed", "twice"
    event,      \* its event: "none", "timer", "fd" (which has a timeout too)
    query,      \* the asr_query: "none", "open", "done", "aborted", "misused"
    rounds,     \* how often the query has been run
    tls,        \* the handshake's next step ("hello", "wait", "finished", "done"),
                \* and the bytes that are decrypted but not yet read
    sock,       \* the socket: what has arrived, and the free send buffer
    bev,        \* the bufferevent: ev_read and ev_write, the bytes of output
    server,     \* what the capsule has received and what it has yet to send
    got         \* the sizes of what proxy_read was given, and whether proxy_error came

tlsvars == <<tls, sock, bev, server, got>>
vars == <<client, evasr, eva, event, query, rounds, tlsvars>>

-----------------------------------------------------------------------------
(* The resolver.                                                           *)

(* free(eva) and asr_abort, which show when they come a second time.       *)
Freed(e) == IF e = "live" THEN "freed" ELSE "twice"
AbortedQuery(q) == IF q = "open" THEN "aborted" ELSE "misused"

(* proxy_start_request: getaddrinfo_async may fail, and so may the calloc  *)
(* of event_asr_run; then fcgi_abort_request frees the client.             *)
StartFails ==
    /\ client = "new"
    /\ client' = "gone"
    /\ query' \in {"none", AbortedQuery("open")}
    /\ UNCHANGED <<evasr, eva, event, rounds>> /\ UNCHANGED tlsvars

(* proxy_start_request and event_asr_run: the query starts from a timer.   *)
EventAsrRun ==
    /\ client = "new"
    /\ client' = "resolving"
    /\ query' = "open"
    /\ eva' = "live"
    /\ event' = "timer"
    /\ evasr' = "set"
    /\ UNCHANGED rounds /\ UNCHANGED tlsvars

(* event_asr_abort                                                         *)
EventAsrAbort(e, q) == [eva |-> Freed(e), query |-> AbortedQuery(q), event |-> "none"]

(* proxy_client_free, as far as the resolver is concerned.                 *)
ProxyClientFree(ptr, e, q) ==
    IF ptr = "set" THEN EventAsrAbort(e, q) ELSE [eva |-> e, query |-> q, event |-> "none"]

(* The request ends for another reason: the web server aborts it, the      *)
(* connection is lost or the configuration changes.                        *)
RequestEnds ==
    LET s == ProxyClientFree(evasr, eva, query)
    IN  /\ client \in {"resolving", "connecting", "tls"}
        /\ client' = "gone"
        /\ evasr' = "null"
        /\ eva' = s.eva
        /\ query' = s.query
        /\ event' = s.event
        /\ UNCHANGED rounds /\ UNCHANGED tlsvars

(* Mutant: the callback leaves clt_evasr as it is.                         *)
CallbackPointerKept == evasr

(* proxy_resolved begins with clt_evasr = NULL.                            *)
CallbackPointer == "null"

(* event_asr_dispatch when asr_run is done: the callback, then free(eva).  *)
(* proxy_resolved goes on to connect, or ends the request (no address, no  *)
(* connection, or the web server is gone) and with it the client.          *)
DispatchDone(ends) ==
    LET s == IF ends THEN ProxyClientFree(CallbackPointer, eva, "done")
             ELSE [eva |-> eva, query |-> "done", event |-> "none"]
    IN  /\ event # "none"
        /\ client' = IF ends THEN "gone" ELSE "connecting"
        /\ evasr' = CallbackPointer
        /\ eva' = Freed(s.eva)
        /\ query' = IF query = "open" THEN s.query ELSE "misused"
        /\ event' = "none"
        /\ UNCHANGED rounds /\ UNCHANGED tlsvars

(* event_asr_dispatch when asr_run needs more: it waits for a descriptor   *)
(* of the query, with the timeout the query asks for.                      *)
DispatchAgain ==
    /\ event # "none"
    /\ rounds < MaxRounds
    /\ rounds' = rounds + 1
    /\ event' = "fd"
    /\ query' = IF query = "open" THEN "open" ELSE "misused"
    /\ UNCHANGED <<client, evasr, eva>> /\ UNCHANGED tlsvars

-----------------------------------------------------------------------------
(* TLS.  A call of the library first goes on with the handshake, as far as *)
(* the socket lets it.  The outcome is "in" or "out" (TLS_WANT_POLLIN and  *)
(* TLS_WANT_POLLOUT), "eof", "error" or, for a byte count, "ok".           *)

Message(type, size) == [type |-> type, size |-> size]

(* A call begins with the state t of the library and the socket s.         *)
Call(t, s) == [t |-> t, s |-> s, want |-> "ok", n |-> 0]

(* The next message of the handshake, unless the call has to wait.         *)
HandshakeStep(r) ==
    LET t == r.t
        s == r.s
    IN  IF r.want # "ok" \/ t.hs = "done" THEN r
        ELSE IF t.hs = "wait"
        THEN IF s.inq = <<>> THEN [r EXCEPT !.want = "in"]
             ELSE IF Head(s.inq).type # "answer" THEN [r EXCEPT !.want = "error"]
             ELSE Call([t EXCEPT !.hs = "finished"], [s EXCEPT !.inq = Tail(@)])
        ELSE IF s.room = 0 THEN [r EXCEPT !.want = "out"]
        ELSE Call([t EXCEPT !.hs = IF t.hs = "hello" THEN "wait" ELSE "done"],
                  [s EXCEPT !.room = @ - 1, !.outq = Append(@, Message(t.hs, 0))])

(* The handshake: the hello goes out, the answer comes, the end goes out.  *)
Handshake(t, s) == HandshakeStep(HandshakeStep(HandshakeStep(Call(t, s))))

Least(a, b) == IF a < b THEN a ELSE b

(* tls_read of up to max bytes: what is left of a record, or the next one. *)
TlsRead(max) ==
    LET h == Handshake(tls, sock)
        pending == IF h.t.plain > 0 \/ h.s.inq = <<>> THEN h.t.plain ELSE Head(h.s.inq).size
        next == IF h.t.plain > 0 \/ pending = 0 THEN h.s.inq ELSE Tail(h.s.inq)
        n == Least(pending, max)
    IN  IF h.want # "ok" THEN h
        ELSE IF pending > 0
        THEN [t |-> [h.t EXCEPT !.plain = pending - n], s |-> [h.s EXCEPT !.inq = next],
              want |-> "ok", n |-> n]
        ELSE [t |-> h.t, s |-> h.s, want |-> IF h.s.inq = <<>> THEN "in" ELSE "eof", n |-> 0]

(* tls_write of what is in the output buffer.                              *)
TlsWrite ==
    LET h == Handshake(tls, sock)
        n == Least(bev.out, h.s.room)
    IN  IF h.want # "ok" THEN h
        ELSE IF n = 0 THEN [t |-> h.t, s |-> h.s, want |-> "out", n |-> 0]
        ELSE [t |-> h.t, s |-> [h.s EXCEPT !.room = @ - n, !.outq = Append(@, Message("data", n))],
              want |-> "ok", n |-> n]

(* proxy_connect from "done": the bufferevent has its two events and the   *)
(* request in its output buffer.                                           *)
ProxyConnected ==
    /\ client = "connecting"
    /\ client' = "tls"
    /\ bev' = [rd |-> TRUE, wr |-> TRUE, out |-> Request]
    /\ UNCHANGED <<evasr, eva, event, query, rounds, tls, sock, server, got>>

(* proxy_error ends the request.                                           *)
TlsError(what) ==
    /\ client' = "gone"
    /\ got' = [got EXCEPT !.why = what]

(* Mutant: the event is added again only when there was nothing to read.   *)
ReadAgainIfEmpty(r) == r.want = "in"

(* proxy_tls_readcb adds the event again unless it calls errorcb, whatever *)
(* the library waits for.                                                  *)
ReadAgain(r) == r.want \in {"in", "out", "ok"}

(* Mutant: a buffer that is full is taken for one that overflowed.         *)
ReceivedNotFull(r) ==
    IF r.n \in {0, ReadSize} THEN got.data ELSE Append(got.data, r.n)

(* evbuffer_add to the input, and readcb.                                  *)
Received(r) == IF r.n = 0 THEN got.data ELSE Append(got.data, r.n)

(* wm_read.high is 0.                                                      *)
Howmuch == ReadSize

(* proxy_tls_readcb                                                        *)
ProxyTlsReadcb ==
    LET r == TlsRead(Howmuch)
    IN  /\ client = "tls"
        /\ bev.rd /\ sock.inq # <<>>
        /\ tls' = r.t
        /\ sock' = r.s
        /\ bev' = [bev EXCEPT !.rd = ReadAgain(r)]
        /\ IF r.want \in {"eof", "error"} THEN TlsError(r.want)
           ELSE got' = [got EXCEPT !.data = Received(r)] /\ UNCHANGED client
        /\ UNCHANGED <<evasr, eva, event, query, rounds, server>>

(* Mutant: a write that is complete only in part is not continued.         *)
WriteAgainIfRefused(r) == r.want \in {"in", "out"}

(* proxy_tls_writecb adds the event again while there is output.           *)
WriteAgain(r) == r.want \in {"in", "out"} \/ (r.want = "ok" /\ bev.out # r.n)

(* proxy_tls_writecb                                                       *)
ProxyTlsWritecb ==
    LET r == TlsWrite
    IN  /\ client = "tls"
        /\ bev.wr /\ sock.room > 0
        /\ tls' = r.t
        /\ sock' = r.s
        /\ bev' = [bev EXCEPT !.wr = WriteAgain(r), !.out = @ - r.n]
        /\ IF r.want = "error" THEN TlsError(r.want) ELSE UNCHANGED <<client, got>>
        /\ UNCHANGED <<evasr, eva, event, query, rounds, server>>

-----------------------------------------------------------------------------
(* The capsule and the network.                                            *)

(* The capsule takes what was sent: it answers the hello, and when it has  *)
(* the whole request it has a reply to send.                               *)
Receive ==
    /\ client = "tls"
    /\ sock.outq # <<>>
    /\ LET m == Head(sock.outq)
       IN  /\ sock' = [sock EXCEPT !.outq = Tail(@),
                                   !.room = @ + (IF m.type = "data" THEN m.size ELSE 1),
                                   !.inq = IF m.type = "hello" THEN Append(@, Message("answer", 0))
                                           ELSE @]
           /\ server' = [server EXCEPT !.seen = @ + m.size]
    /\ UNCHANGED <<client, evasr, eva, event, query, rounds, tls, bev, got>>

(* One more record of the reply, and at its end the connection is closed.  *)
SendReply ==
    /\ client = "tls"
    /\ server.seen = Request
    /\ server.next <= Len(server.reply) + 1
    /\ sock' = [sock EXCEPT !.inq = Append(@, IF server.next > Len(server.reply) THEN Message("eof", 0)
                                              ELSE Message("data", server.reply[server.next]))]
    /\ server' = [server EXCEPT !.next = @ + 1]
    /\ UNCHANGED <<client, evasr, eva, event, query, rounds, tls, bev, got>>

(* The capsule gives up early: a failed handshake, or a crash.             *)
ServerCloses ==
    /\ client = "tls"
    /\ server.next <= Len(server.reply) + 1
    /\ sock' = [sock EXCEPT !.inq = Append(@, Message("eof", 0))]
    /\ server' = [server EXCEPT !.next = Len(server.reply) + 2, !.early = TRUE]
    /\ UNCHANGED <<client, evasr, eva, event, query, rounds, tls, bev, got>>

Init ==
    /\ client = "new"
    /\ evasr = "null"
    /\ eva = "none"
    /\ event = "none"
    /\ query = "none"
    /\ rounds = 0
    /\ tls = [hs |-> "hello", plain |-> 0]
    /\ sock = [inq |-> <<>>, outq |-> <<>>, room |-> Room]
    /\ bev = [rd |-> FALSE, wr |-> FALSE, out |-> 0]
    /\ server \in [reply : Replies, next : {1}, seen : {0}, early : {FALSE}]
    /\ got = [data |-> <<>>, why |-> "none"]

Dispatch == DispatchAgain \/ \E ends \in BOOLEAN : DispatchDone(ends)

Next ==
    \/ StartFails \/ EventAsrRun \/ RequestEnds \/ Dispatch
    \/ ProxyConnected \/ ProxyTlsReadcb \/ ProxyTlsWritecb
    \/ Receive \/ SendReply \/ ServerCloses

Spec == Init /\ [][Next]_vars

(* The query's event always fires, as it has a timeout, and libasr gives   *)
(* up; the event loop handles what is ready; the capsule answers.          *)
Fairness ==
    /\ WF_vars(Dispatch) /\ WF_vars(ProxyConnected)
    /\ WF_vars(ProxyTlsReadcb) /\ WF_vars(ProxyTlsWritecb)
    /\ WF_vars(Receive) /\ WF_vars(SendReply)

FairSpec == Spec /\ Fairness

-----------------------------------------------------------------------------
(* Properties.                                                             *)

(* Whoever ends the request, and even if it is the callback of the query   *)
(* itself, the event_asr is freed once, the query is not touched after its *)
(* end, and no event of a freed event_asr is left in the event loop.  A    *)
(* request that has gone leaves neither a query nor an event_asr behind.   *)
ResolverSafe ==
    /\ eva # "twice" /\ query # "misused"
    /\ event # "none" <=> eva = "live"
    /\ client = "gone" => eva # "live" /\ query # "open"

(* While the connection is open nothing waits for an event that is not in  *)
(* the event loop: there is always one for what may arrive, one for output *)
(* that is not yet written, and no byte stays decrypted inside the library *)
(* where no event would tell of it.                                        *)
NoLostWakeup ==
    client = "tls" => bev.rd /\ (bev.out > 0 => bev.wr) /\ tls.plain = 0

(* proxy_read has had the whole reply, record by record, before            *)
(* proxy_error is told of its end, when the capsule did not break off.     *)
WholeReply ==
    got.why = "eof" /\ ~server.early => got.data = server.reply

(* A request whose query is started comes to an end, whatever the sizes of *)
(* the records and however small the send buffer.                          *)
Answered == client = "resolving" ~> client = "gone"
=============================================================================
