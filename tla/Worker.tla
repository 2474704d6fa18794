------------------------------- MODULE Worker -------------------------------
(***************************************************************************)
(* One proxy process of galileo: the FastCGI connections of the web server *)
(* (struct fcgi), the requests multiplexed on them (struct client) and, for *)
(* each request, the Gemini exchange that answers it.                      *)
(*                                                                         *)
(* The process is a single-threaded libevent loop, so a step is one        *)
(* callback.  fcgi_read handles the records that have arrived in a loop;   *)
(* here every record is a step of its own.  How bytes become records is    *)
(* not modelled here.                                                      *)
(*                                                                         *)
(* Environment.  The web server closes each stream of a request once and   *)
(* reuses a request id only after it got the END_REQUEST of its last use   *)
(* (or while the request is active, which the code rejects explicitly).    *)
(* Records for an id that is not active only drain input: stuttering here. *)
(***************************************************************************)

CONSTANTS
    Conns,      \* the connections (struct fcgi) that can exist at once
    Ids,        \* FastCGI request ids (clt_id)
    Hosts,      \* host names a request or a proxy block can carry
    None,       \* the NULL pointer
    Faults      \* the calls that may fail: a subset of {"alloc", "write"}

ASSUME WorkerAssumption ==
    /\ None \notin Hosts
    /\ Faults \subseteq {"alloc", "write"}

VARIABLES
    proxies,    \* sc_proxies: the host names of the loaded proxy blocks
    sock,       \* sc_sock_fd: "closed", "set" (IMSG_CFG_SOCK), "on" (sc_evsock added)
    fcgi,       \* the connections
    clt,        \* fcg_clients: the requests of every connection
    loop,       \* what the process holds for a request, whoever refers to it
    wire,       \* how far the response of an id has got on fcg_bev
    got         \* the web server's view of the request it sent with an id;
                \* "skipped" is a wait for a request fcgi_read dropped

vars == <<proxies, sock, fcgi, clt, loop, wire, got>>

-----------------------------------------------------------------------------
(* Data.                                                                   *)

(* What a struct client can own: a running resolver query (clt_evasr), the *)
(* resolved addresses (clt_addrinfo), a connect event (clt_evconn), the    *)
(* upstream socket (clt_fd), its TLS context and its bufferevent.          *)
Resources == {"evasr", "addrinfo", "evconn", "fd", "ctx", "bev"}

(* The resources through which libevent calls the request back.            *)
Drivers == {"evasr", "evconn", "bev"}

(* The stages of a response: nothing, CGI header, body, END_REQUEST; "bad" *)
(* is a response no web server could make sense of.                        *)
Stages == {"none", "hdr", "body", "end", "bad"}

Clients == [live : BOOLEAN,                   \* in fcg_clients
            sent : {"begin", "params", "all"},\* streams the web server closed
            method : {"UNKNOWN", "GET", "POST"},
            path : BOOLEAN,                   \* clt_path_info is set
            server : Hosts \cup {None},       \* clt_server_name
            body : {"none", "query", "lost"}, \* clt_body and clt_bodylen
            pc : Hosts \cup {None},           \* clt_pc, into sc_proxies
            refs : SUBSET Resources,          \* the resources the fields name
            headersdone : BOOLEAN,
            translate : BOOLEAN,
            resp : Stages,                    \* the response as written so far
            tpbuf : BOOLEAN]                  \* clt_tp still buffers part of it

NoClient == [live |-> FALSE, sent |-> "begin", method |-> "UNKNOWN",
             path |-> FALSE, server |-> None, body |-> "none", pc |-> None,
             refs |-> {}, headersdone |-> FALSE, translate |-> FALSE,
             resp |-> "none", tpbuf |-> FALSE]

(* "out": fcg_bev has output.  "mpx" and "why" are history: whether two    *)
(* requests were ever outstanding together, and what closed the connection. *)
Fcgis == [open : BOOLEAN, keep : BOOLEAN, done : BOOLEAN, out : BOOLEAN,
          mpx : BOOLEAN, why : {"none", "done", "error", "reload"}]

Closed(why) == [open |-> FALSE, keep |-> FALSE, done |-> FALSE, out |-> FALSE,
                mpx |-> FALSE, why |-> why]

(* The next stage of a response when x is appended to it.                  *)
Extend(s, x) ==
    CASE x = "hdr" -> IF s = "none" THEN "hdr" ELSE "bad"
      [] x = "body" -> IF s \in {"hdr", "body"} THEN "body" ELSE "bad"
      [] x = "end" -> IF s \in {"none", "hdr", "body"} THEN "end" ELSE "bad"

-----------------------------------------------------------------------------
(* Output of a request.  Everything but an untranslated body goes through   *)
(* the template buffer clt_tp, which reaches fcg_bev when it is full or     *)
(* flushed.                                                                *)

(* tp_write and everything built on it.                                    *)
TpWrite(k, x) == [k EXCEPT !.resp = Extend(@, x), !.tpbuf = TRUE]

(* proxy_start_reply followed by a page (tp_error, tp_inputpage).          *)
Page(k) == TpWrite(TpWrite(k, "hdr"), "body")

(* proxy_start_reply(302).                                                 *)
Redirect(k) == TpWrite(k, "hdr")

(* What has reached fcg_bev after template_flush.                          *)
Flushed(k, w) == IF k.tpbuf THEN k.resp ELSE w

(* clt_write past the template: anything still buffered comes too late.    *)
DoWrite(k, w, x) == IF k.tpbuf THEN "bad" ELSE Extend(w, x)

-----------------------------------------------------------------------------
(* Release of requests and connections.                                    *)

(* Mutant: a running resolver query is not aborted.                        *)
FreeKeepsQuery(k, held) == held \ (k.refs \ {"evasr"})

(* proxy_client_free: release what the fields of the client refer to.      *)
ProxyClientFree(k, held) == held \ k.refs

(* fcgi_error: drop the connection with all its requests, which have       *)
(* become the clients ks holding hs; gs is what the web server waits for.  *)
FcgiErrorFrom(c, ks, hs, gs, why) ==
    /\ fcgi' = [fcgi EXCEPT ![c] = [Closed(why) EXCEPT !.mpx = fcgi[c].mpx]]
    /\ clt' = [clt EXCEPT ![c] = [j \in Ids |-> NoClient]]
    /\ loop' = [loop EXCEPT ![c] = [j \in Ids |-> ProxyClientFree(ks[j], hs[j])]]
    /\ wire' = [wire EXCEPT ![c] = [j \in Ids |-> "none"]]
    /\ got' = [got EXCEPT ![c] =
                  [j \in Ids |-> IF gs[j] = "wait" THEN "cut" ELSE gs[j]]]
    /\ UNCHANGED <<proxies, sock>>

FcgiError(c, why) == FcgiErrorFrom(c, clt[c], loop[c], got[c], why)

(* A bufferevent_write on fcg_bev fails while the request is k holding h.  *)
WriteFails(c, i, k, h) ==
    /\ "write" \in Faults
    /\ FcgiErrorFrom(c, [clt[c] EXCEPT ![i] = k], [loop[c] EXCEPT ![i] = h],
                     got[c], "error")

(* end_request: flush the template, send END_REQUEST, free the client and  *)
(* mark a connection that is not kept as done.                             *)
EndRequest(c, i, k, h) ==
    \/ /\ wire' = [wire EXCEPT ![c][i] = Extend(Flushed(k, wire[c][i]), "end")]
       /\ clt' = [clt EXCEPT ![c][i] = NoClient]
       /\ loop' = [loop EXCEPT ![c][i] = ProxyClientFree(k, h)]
       /\ fcgi' = [fcgi EXCEPT ![c].out = TRUE, ![c].done = @ \/ ~fcgi[c].keep]
       /\ UNCHANGED <<proxies, sock, got>>
    \/ WriteFails(c, i, k, h)

(* The client becomes k holding h, with w of its response on fcg_bev.      *)
Continue(c, i, k, h, w) ==
    /\ clt' = [clt EXCEPT ![c][i] = k]
    /\ loop' = [loop EXCEPT ![c][i] = h]
    /\ wire' = [wire EXCEPT ![c][i] = w]
    /\ fcgi' = [fcgi EXCEPT ![c].out = @ \/ w # wire[c][i]]
    /\ UNCHANGED <<proxies, sock, got>>

(* The same when all k has written is on fcg_bev, the last part excepted   *)
(* if it is still in the template buffer.                                  *)
Emit(c, i, k, h) ==
    /\ clt' = [clt EXCEPT ![c][i] = k]
    /\ loop' = [loop EXCEPT ![c][i] = h]
    /\ wire' = [wire EXCEPT ![c][i] = k.resp]
    /\ fcgi' = [fcgi EXCEPT ![c].out = TRUE]
    /\ UNCHANGED <<proxies, sock, got>>

-----------------------------------------------------------------------------
(* The upstream side of a request.                                         *)

(* proxy_match                                                             *)
ProxyMatch(server) == IF server \in proxies THEN server ELSE None

(* proxy_start_request for the client k.                                   *)
ProxyStartRequest(c, i, k0) ==
    LET h == loop[c][i]
        k == IF k0.path THEN [k0 EXCEPT !.pc = ProxyMatch(k0.server)] ELSE k0
        asked == [k EXCEPT !.refs = @ \cup {"evasr"}]
    IN  \/ /\ ~k.path \/ k.pc = None \/ k.body = "lost"
           /\ EndRequest(c, i, Page(k), h)
        \/ /\ k.path /\ k.pc # None /\ k.body = "query"
           /\ \/ EndRequest(c, i, Redirect(k), h)
              \/ "alloc" \in Faults /\ EndRequest(c, i, k, h)
        \/ /\ k.path /\ k.pc # None /\ k.body = "none"
           /\ \/ Continue(c, i, asked, h \cup {"evasr"}, wire[c][i])
              \/ "alloc" \in Faults /\ EndRequest(c, i, k, h)

(* proxy_connect from "done:" on: the upstream socket is writable.         *)
ProxyConnected(c, i, k0, h0) ==
    LET k == [k0 EXCEPT !.refs = @ \ {"evconn", "addrinfo"}]
        h == h0 \ {"addrinfo"}
    IN  \/ \E tls \in SUBSET {"ctx"} :
              Continue(c, i, [k EXCEPT !.refs = @ \cup {"bev"} \cup tls],
                       h \cup {"bev"} \cup tls, wire[c][i])
        \/ \E new \in {{}, {"bev"}, {"bev", "ctx"}} :
              /\ "alloc" \in Faults
              /\ EndRequest(c, i, Page([k EXCEPT !.refs = @ \cup new]), h \cup new)

(* Mutant: the connect event is never added.                               *)
ConnectFirstNoEvent(c, i, k, h) ==
    Continue(c, i, [k EXCEPT !.refs = @ \cup {"fd", "evconn"}], h \cup {"fd"}, wire[c][i])

(* proxy_connect with clt_fd == -1: the first address a socket can be      *)
(* created for is tried; without one the request fails.  A connect that    *)
(* does not succeed at once is waited for, whatever its error.             *)
ProxyConnectFirst(c, i, k, h) ==
    LET fd == [k EXCEPT !.refs = @ \cup {"fd"}]
    IN  \/ EndRequest(c, i, Page(k), h)
        \/ ProxyConnected(c, i, fd, h \cup {"fd"})
        \/ Continue(c, i, [fd EXCEPT !.refs = @ \cup {"evconn"}],
                    h \cup {"fd", "evconn"}, wire[c][i])

(* proxy_resolved                                                          *)
ProxyResolved(c, i) ==
    /\ "evasr" \in loop[c][i]
    /\ LET k == [clt[c][i] EXCEPT !.refs = @ \ {"evasr"}]
           h == loop[c][i] \ {"evasr"}
       IN  \/ EndRequest(c, i, Page(k), h)
           \/ ProxyConnectFirst(c, i, [k EXCEPT !.refs = @ \cup {"addrinfo"}],
                                h \cup {"addrinfo"})

(* Mutant: the connect event is persistent.                                *)
ConnectPersists(c, i) ==
    /\ "evconn" \in loop[c][i]
    /\ ProxyConnected(c, i, clt[c][i], loop[c][i])

(* proxy_connect called by the connect event, which is not persistent: the *)
(* socket became writable or five seconds passed.  Only SO_ERROR is looked *)
(* at, so the two are not told apart.                                      *)
ProxyConnect(c, i) ==
    /\ "evconn" \in loop[c][i]
    /\ LET h == loop[c][i] \ {"evconn"}
       IN  \/ EndRequest(c, i, Page(clt[c][i]), h)
           \/ ProxyConnected(c, i, clt[c][i], h)

(* proxy_read once the headers are done: nothing (no complete line),       *)
(* translated lines, or the bytes as they are.  When clt_write fails,      *)
(* clt_write_bufferevent still drains the input of the bufferevent that    *)
(* fcgi_error has freed; what that does to the memory is left out.         *)
ProxyReadBody(c, i, k, w) ==
    LET h == loop[c][i]
        raw == [k EXCEPT !.resp = DoWrite(k, w, "body")]
        lines == TpWrite(k, "body")
    IN  \/ Continue(c, i, k, h, w)
        \/ k.translate /\ (Continue(c, i, lines, h, w) \/ Emit(c, i, lines, h))
        \/ ~k.translate /\ Emit(c, i, raw, h)
        \/ WriteFails(c, i, k, h)

(* Mutant: the template is not flushed before an untranslated body.        *)
ReadHeaderNoFlush(c, i, k) ==
    ProxyReadBody(c, i, [TpWrite(k, "hdr") EXCEPT !.headersdone = TRUE], wire[c][i])

(* proxy_read of the response header.  A 2x reply starts the response and  *)
(* goes on with the body; every other reply, and a header that is invalid  *)
(* or too long, ends the request with a page or a redirect.                *)
ProxyReadHeader(c, i, k) ==
    LET hdr == TpWrite(k, "hdr")
        page == TpWrite([hdr EXCEPT !.headersdone = TRUE, !.translate = TRUE], "body")
        raw == [hdr EXCEPT !.headersdone = TRUE, !.tpbuf = FALSE]
    IN  \/ EndRequest(c, i, Page(k), loop[c][i])
        \/ EndRequest(c, i, Redirect(k), loop[c][i])
        \/ \E w \in {wire[c][i], page.resp} : ProxyReadBody(c, i, page, w)
        \/ ProxyReadBody(c, i, raw, Flushed(hdr, wire[c][i]))

ProxyRead(c, i) ==
    /\ "bev" \in loop[c][i]
    /\ IF clt[c][i].headersdone
       THEN ProxyReadBody(c, i, clt[c][i], wire[c][i])
       ELSE ProxyReadHeader(c, i, clt[c][i])

(* proxy_error: the upstream connection is over, cleanly (eof) or not.     *)
ProxyError(c, i, eof) ==
    /\ "bev" \in loop[c][i]
    /\ LET k == clt[c][i]
           last == IF ~k.headersdone THEN Page(k)
                   ELSE IF eof /\ k.translate THEN TpWrite(k, "body")
                   ELSE k
       IN  EndRequest(c, i, last, loop[c][i])

-----------------------------------------------------------------------------
(* The FastCGI side: fcgi_accept and the records fcgi_read handles.        *)

FcgiAccept(c) ==
    /\ sock = "on"
    /\ ~fcgi[c].open
    /\ fcgi' = [fcgi EXCEPT ![c] = [Closed("none") EXCEPT !.open = TRUE, !.keep = TRUE]]
    /\ got' = [got EXCEPT ![c] = [j \in Ids |-> "idle"]]
    /\ UNCHANGED <<proxies, sock, clt, loop, wire>>

(* The web server has an unfinished request with this id.                  *)
Pending(c, i) == got[c][i] \in {"wait", "skipped"}

(* FCGI_BEGIN_REQUEST of a responder.  fcg_keep_conn is overwritten before *)
(* an active id is noticed; a client that cannot be allocated is skipped.  *)
FcgiBeginRequest(c, i, keep) ==
    /\ fcgi[c].open
    /\ ~Pending(c, i) \/ clt[c][i].live
    /\ IF ~fcgi[c].keep
       THEN FcgiErrorFrom(c, clt[c], loop[c], [got[c] EXCEPT ![i] = "wait"], "error")
       ELSE /\ fcgi' = [fcgi EXCEPT ![c].keep = keep,
                            ![c].mpx = @ \/ \E j \in Ids \ {i} : Pending(c, j)]
            /\ \/ /\ clt[c][i].live
                  /\ UNCHANGED <<clt, got>>
               \/ /\ ~clt[c][i].live
                  /\ clt' = [clt EXCEPT ![c][i] = [NoClient EXCEPT !.live = TRUE]]
                  /\ got' = [got EXCEPT ![c][i] = "wait"]
               \/ /\ ~clt[c][i].live
                  /\ "alloc" \in Faults
                  /\ got' = [got EXCEPT ![c][i] = "skipped"]
                  /\ UNCHANGED clt
            /\ UNCHANGED <<proxies, sock, loop, wire>>

(* Mutant: an unknown role is not answered.                                *)
UnknownRoleSilent(c, i) ==
    /\ fcgi[c].open
    /\ ~Pending(c, i)
    /\ got' = [got EXCEPT ![c][i] = "wait"]
    /\ UNCHANGED <<proxies, sock, fcgi, clt, loop, wire>>

(* FCGI_BEGIN_REQUEST of any other role: answered without a client.  The   *)
(* code would also answer for an id that is active, and so end a request   *)
(* that goes on; ~Pending leaves out a web server that asks for this.      *)
FcgiUnknownRole(c, i) ==
    /\ fcgi[c].open
    /\ ~Pending(c, i)
    /\ \/ /\ wire' = [wire EXCEPT ![c][i] = Extend(@, "end")]
          /\ fcgi' = [fcgi EXCEPT ![c].out = TRUE]
          /\ got' = [got EXCEPT ![c][i] = "wait"]
          /\ UNCHANGED <<proxies, sock, clt, loop>>
       \/ /\ "write" \in Faults
          /\ FcgiErrorFrom(c, clt[c], loop[c], [got[c] EXCEPT ![i] = "wait"], "error")

(* FCGI_PARAMS with content; fcgi_parse_params keeps what it recognises.   *)
FcgiParams(c, i) ==
    LET k == clt[c][i]
    IN  /\ k.live
        /\ k.sent = "begin"
        /\ \E m \in {k.method, "GET", "POST"}, p \in {k.path, TRUE},
              s \in {k.server} \cup Hosts :
              Continue(c, i, [k EXCEPT !.method = m, !.path = p, !.server = s],
                       loop[c][i], wire[c][i])

(* The empty FCGI_PARAMS: a GET starts.                                    *)
FcgiParamsEnd(c, i) ==
    LET k == [clt[c][i] EXCEPT !.sent = "params"]
    IN  /\ k.live
        /\ clt[c][i].sent = "begin"
        /\ IF k.method = "GET" THEN ProxyStartRequest(c, i, k)
           ELSE Continue(c, i, k, loop[c][i], wire[c][i])

(* FCGI_STDIN with content: fcgi_parse_form looks for the field "q" in the *)
(* body of a POST and gives up ("lost") when it is too long or out of      *)
(* memory.  Other methods drain it.                                        *)
FcgiStdin(c, i) ==
    LET k == clt[c][i]
    IN  /\ k.live
        /\ k.sent = "params"
        /\ k.method = "POST"
        /\ \E b \in CASE k.body = "none" -> {"none", "query"}
                                \cup (IF "alloc" \in Faults THEN {"lost"} ELSE {})
                      [] k.body = "query" -> {"query", "lost"}
                                \cup (IF "alloc" \in Faults THEN {"none"} ELSE {})
                      [] k.body = "lost" -> {"lost"} :
              Continue(c, i, [k EXCEPT !.body = b], loop[c][i], wire[c][i])

(* The empty FCGI_STDIN: a POST starts.                                    *)
FcgiStdinEnd(c, i) ==
    LET k == [clt[c][i] EXCEPT !.sent = "all"]
    IN  /\ k.live
        /\ clt[c][i].sent = "params"
        /\ IF k.method = "POST" THEN ProxyStartRequest(c, i, k)
           ELSE Continue(c, i, k, loop[c][i], wire[c][i])

(* Mutant: an aborted request is answered but not freed.                   *)
AbortKeepsClient(c, i) ==
    /\ clt[c][i].live
    /\ wire' = [wire EXCEPT ![c][i] = "end"]
    /\ UNCHANGED <<proxies, sock, fcgi, clt, loop, got>>

FcgiAbortRequest(c, i) ==
    /\ clt[c][i].live
    /\ EndRequest(c, i, clt[c][i], loop[c][i])

(* A record fcgi_read refuses (version, length, parameters), or libevent   *)
(* reporting that the web server closed or reset the connection.           *)
FcgiFailure(c) ==
    /\ fcgi[c].open
    /\ FcgiError(c, "error")

(* Mutant: a connection that is done is closed with output still queued.   *)
WriteClosesEarly(c) ==
    fcgi[c].open /\ fcgi[c].out /\ fcgi[c].done /\ FcgiError(c, "done")

(* Mutant: fcg_done is not looked at.                                      *)
WriteNeverCloses(c) ==
    /\ fcgi[c].open
    /\ fcgi[c].out
    /\ fcgi' = [fcgi EXCEPT ![c].out = FALSE]
    /\ UNCHANGED <<proxies, sock, clt, loop, wire, got>>

(* fcgi_write: libevent drained the output of fcg_bev.                     *)
FcgiWrite(c) ==
    LET seen == [j \in Ids |-> IF wire[c][j] = "end" THEN "answered" ELSE got[c][j]]
    IN  /\ fcgi[c].open
        /\ fcgi[c].out
        /\ IF fcgi[c].done
           THEN FcgiErrorFrom(c, clt[c], loop[c], seen, "done")
           ELSE /\ fcgi' = [fcgi EXCEPT ![c].out = FALSE]
                /\ got' = [got EXCEPT ![c] = seen]
                /\ wire' = [wire EXCEPT ![c] =
                     [j \in Ids |-> IF wire[c][j] = "end" THEN "none" ELSE wire[c][j]]]
                /\ UNCHANGED <<proxies, sock, clt, loop>>

-----------------------------------------------------------------------------
(* Configuration, in the order the parent sends it: IMSG_CTL_RESET,        *)
(* IMSG_CFG_SRV for each proxy, IMSG_CFG_SOCK, IMSG_CFG_DONE.              *)

(* config_getproxy                                                         *)
ConfigGetProxy(s) ==
    /\ sock = "closed"
    /\ proxies' = proxies \cup {s}
    /\ UNCHANGED <<sock, fcgi, clt, loop, wire, got>>

(* config_getsock                                                          *)
ConfigGetSock ==
    /\ sock = "closed"
    /\ sock' = "set"
    /\ UNCHANGED <<proxies, fcgi, clt, loop, wire, got>>

(* proxy_launch                                                            *)
ConfigDone ==
    /\ sock = "set"
    /\ sock' = "on"
    /\ UNCHANGED <<proxies, fcgi, clt, loop, wire, got>>

(* Mutant: the proxies are freed, the connections are not.                 *)
PurgeKeepsConns ==
    /\ sock' = "closed"
    /\ proxies' = {}
    /\ UNCHANGED <<fcgi, clt, loop, wire, got>>

(* config_purge: every request is aborted and every connection freed; the  *)
(* END_REQUESTs just queued go with the bufferevent.                       *)
ConfigPurge ==
    /\ fcgi' = [c \in Conns |-> IF fcgi[c].open THEN Closed("reload") ELSE fcgi[c]]
    /\ clt' = [c \in Conns |-> [j \in Ids |-> NoClient]]
    /\ loop' = [c \in Conns |-> [j \in Ids |->
                   ProxyClientFree(clt[c][j], loop[c][j])]]
    /\ wire' = [c \in Conns |-> [j \in Ids |-> "none"]]
    /\ got' = [c \in Conns |-> [j \in Ids |->
                  IF got[c][j] = "wait" THEN "cut" ELSE got[c][j]]]
    /\ sock' = "closed"
    /\ proxies' = {}

-----------------------------------------------------------------------------
Init ==
    /\ proxies = {}
    /\ sock = "closed"
    /\ fcgi = [c \in Conns |-> Closed("none")]
    /\ clt = [c \in Conns |-> [i \in Ids |-> NoClient]]
    /\ loop = [c \in Conns |-> [i \in Ids |-> {}]]
    /\ wire = [c \in Conns |-> [i \in Ids |-> "none"]]
    /\ got = [c \in Conns |-> [i \in Ids |-> "idle"]]

Upstream(c, i) ==
    \/ ProxyResolved(c, i)
    \/ ProxyConnect(c, i)
    \/ ProxyRead(c, i)
    \/ \E eof \in BOOLEAN : ProxyError(c, i, eof)

Record(c, i) ==
    \/ \E keep \in BOOLEAN : FcgiBeginRequest(c, i, keep)
    \/ FcgiUnknownRole(c, i)
    \/ FcgiParams(c, i)
    \/ FcgiParamsEnd(c, i)
    \/ FcgiStdin(c, i)
    \/ FcgiStdinEnd(c, i)
    \/ FcgiAbortRequest(c, i)

Connection(c) ==
    \/ FcgiAccept(c)
    \/ FcgiFailure(c)
    \/ FcgiWrite(c)

Configuration ==
    \/ \E s \in Hosts : ConfigGetProxy(s)
    \/ ConfigGetSock
    \/ ConfigDone
    \/ ConfigPurge

Next ==
    \/ Configuration
    \/ \E c \in Conns : Connection(c) \/ \E i \in Ids : Record(c, i) \/ Upstream(c, i)

Spec == Init /\ [][Next]_vars

(***************************************************************************)
(* Fairness: what the event loop and the world owe a request.  libevent    *)
(* calls back what is ready; the web server reads what it is sent; the     *)
(* resolver gives up by itself and the connect event has a timeout.  The   *)
(* code sets no timeout on the upstream exchange, so that an upstream      *)
(* eventually closes is an assumption about Gemini servers (one response   *)
(* per connection), not about this code.                                   *)
(***************************************************************************)
Fairness ==
    \A c \in Conns :
        /\ WF_vars(FcgiWrite(c))
        /\ \A i \in Ids : /\ WF_vars(ProxyResolved(c, i))
                          /\ WF_vars(ProxyConnect(c, i))
                          /\ WF_vars(ProxyError(c, i, TRUE))

FairSpec == Spec /\ Fairness

-----------------------------------------------------------------------------
(* Properties.                                                             *)

TypeOK ==
    /\ proxies \subseteq Hosts
    /\ sock \in {"closed", "set", "on"}
    /\ fcgi \in [Conns -> Fcgis]
    /\ clt \in [Conns -> [Ids -> Clients]]
    /\ loop \in [Conns -> [Ids -> SUBSET Resources]]
    /\ wire \in [Conns -> [Ids -> Stages]]
    /\ got \in [Conns -> [Ids -> {"idle", "wait", "skipped", "answered", "cut"}]]

(* A request has started when proxy_start_request ran for it.              *)
Started(k) == \/ k.method = "GET" /\ k.sent # "begin"
              \/ k.method = "POST" /\ k.sent = "all"

(* Ownership: whatever the process holds on behalf of a request is named   *)
(* by a field of its struct client, and a field never names something      *)
(* already released (clt_evconn excepted, whose event may have fired).  So *)
(* proxy_client_free releases everything, nothing twice, and no libevent   *)
(* callback is left with a freed client as its argument.                   *)
Owned(k, held) == /\ held \subseteq k.refs
                  /\ k.refs \ {"evconn"} \subseteq held

ResourcesOwned == \A c \in Conns, i \in Ids : Owned(clt[c][i], loop[c][i])

(* A started request is driven by exactly one callback: the resolver, the  *)
(* connect event or the upstream bufferevent.  None is stranded with no    *)
(* event that could finish it, and no two callbacks race for one client.   *)
Driven(k, held) == IF k.live /\ Started(k) THEN \E d \in Drivers : held \cap Drivers = {d}
                                           ELSE held = {}

OneDriver == \A c \in Conns, i \in Ids : Driven(clt[c][i], loop[c][i])

(* The response of every request reaches fcg_bev as one CGI header, then   *)
(* body, then one END_REQUEST, whatever order callbacks run in: output     *)
(* that bypasses the template (clt_write_bufferevent) never overtakes what *)
(* the template still buffers, and no error path sends a second header.    *)
ResponseInOrder == \A c \in Conns, i \in Ids : wire[c][i] # "bad"

(* clt_pc points into sc_proxies, which a reload frees: a client that has  *)
(* started holds a pointer, and only to a proxy that is still loaded.      *)
ConfigAlive ==
    \A c \in Conns, i \in Ids :
        /\ clt[c][i].pc # None => clt[c][i].pc \in proxies
        /\ loop[c][i] # {} => clt[c][i].pc # None

(* A request the web server waits for is alive in the worker or its        *)
(* END_REQUEST is queued: it is never forgotten, whatever fails and        *)
(* whichever order callbacks run in.  Only a BEGIN_REQUEST whose client    *)
(* cannot be allocated is, fcgi_read just logs it: "skipped".              *)
NoneForgotten ==
    \A c \in Conns, i \in Ids :
        got[c][i] = "wait" =>
            /\ fcgi[c].open
            /\ clt[c][i].live \/ (wire[c][i] = "end" /\ fcgi[c].out)

(* When fcgi_write closes a connection because fcg_done is set, every      *)
(* request was answered, provided the web server never had two outstanding *)
(* on it.  (With two, the end of either closes the connection on both.)    *)
DoneCutsNone ==
    \A c \in Conns, i \in Ids :
        ~fcgi[c].open /\ fcgi[c].why = "done" /\ ~fcgi[c].mpx => got[c][i] # "cut"

(* Seen by the web server, the worker is a responder: see Responder.  The  *)
(* stage of a request is that of its response on fcg_bev while the client  *)
(* lives, and "ended" while its END_REQUEST is queued.                     *)
ReqStage(k, w) == IF k.live THEN (IF w = "none" THEN "active" ELSE w)
                  ELSE IF w = "end" THEN "ended" ELSE "idle"

Abstract == INSTANCE Responder
    WITH req <- [c \in Conns |-> [i \in Ids |-> ReqStage(clt[c][i], wire[c][i])]]

(* Every behaviour of the worker is one the abstract responder allows:     *)
(* requests are begun, answered and ended in order on every connection.    *)
IsResponder == Abstract!Spec

(* fcg_done leads to the connection being closed.                          *)
DoneCloses == \A c \in Conns : fcgi[c].done ~> ~fcgi[c].open

(* Every GET or POST request whose streams are complete is ended.          *)
StartedEnds ==
    \A c \in Conns, i \in Ids :
        (clt[c][i].live /\ Started(clt[c][i])) ~> ~clt[c][i].live
=============================================================================
