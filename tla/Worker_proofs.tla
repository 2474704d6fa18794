---------------------------- MODULE Worker_proofs ----------------------------
(***************************************************************************)
(* For any number of connections, request ids and hosts, and whatever      *)
(* calls fail: a request owns exactly what is held for it, one callback    *)
(* drives it, its response is written in order, and its configuration      *)
(* outlives it; none that the web server waits for is forgotten, a         *)
(* connection that is closed because it is done cuts none; and the worker  *)
(* implements Responder.                                                   *)
(***************************************************************************)
EXTENDS Worker, TLAPS

(* The response k has written so far, w of which is on fcg_bev.  Without   *)
(* headersdone nothing is written; a translated body stays in the template *)
(* or has been flushed, an untranslated one never meets a full template.   *)
ResponseOK(k, w) ==
    /\ w \in {"none", "hdr", "body"}
    /\ k.resp \in {"none", "hdr", "body"}
    /\ ~k.tpbuf => w = k.resp
    /\ ~k.headersdone => k.resp = "none" /\ ~k.tpbuf
    /\ k.headersdone => k.resp # "none"
    /\ k.headersdone /\ k.tpbuf => k.translate

(* One request: the fields k, the resources h held for it, its response w, *)
(* what the web server knows of it, g, whether its connection is open, o,  *)
(* and the proxies ps that are loaded.                                     *)
ClientOK(k, h, w, g, o, ps) ==
    /\ Owned(k, h)
    /\ Driven(k, h)
    /\ k.pc # None => k.pc \in ps
    /\ h # {} => k.pc # None
    /\ k.headersdone => "bev" \in h
    /\ k.live => ResponseOK(k, w)
    /\ ~k.live => k = NoClient /\ w \in {"none", "end"}
    /\ k.live \/ w # "none" => g = "wait" /\ o

Inv ==
    \A c \in Conns, i \in Ids :
        ClientOK(clt[c][i], loop[c][i], wire[c][i], got[c][i], fcgi[c].open, proxies)

IInv == TypeOK /\ Inv

LEMMA InitIInv == Init => IInv
<1> SUFFICES ASSUME Init PROVE IInv
  OBVIOUS
<1>1. NoClient \in Clients
  BY DEF NoClient, Clients, Resources, Stages
<1>2. Closed("none") \in Fcgis
  BY DEF Closed, Fcgis
<1>3. TypeOK
  BY <1>1, <1>2 DEF Init, TypeOK, Stages
<1>4. ASSUME NEW ps, NEW o PROVE ClientOK(NoClient, {}, "none", "idle", o, ps)
  BY DEF ClientOK, NoClient, Owned, Driven
<1>5. Inv
  BY <1>4 DEF Init, Inv
<1> QED
  BY <1>3, <1>5 DEF IInv

-----------------------------------------------------------------------------
(* The effects actions are made of.                                        *)

(* A step changes one request and the flags of its connection, which stays *)
(* open.                                                                   *)
LEMMA OneClient ==
  ASSUME IInv, NEW c \in Conns, NEW i \in Ids,
         NEW k \in Clients, NEW h \in SUBSET Resources, NEW w \in Stages,
         NEW g \in {"idle", "wait", "skipped", "answered", "cut"}, NEW f \in Fcgis,
         f.open = fcgi[c].open,
         ClientOK(k, h, w, g, f.open, proxies),
         clt' = [clt EXCEPT ![c][i] = k],
         loop' = [loop EXCEPT ![c][i] = h],
         wire' = [wire EXCEPT ![c][i] = w],
         got' = [got EXCEPT ![c][i] = g],
         fcgi' = [fcgi EXCEPT ![c] = f],
         UNCHANGED <<proxies, sock>>
  PROVE  IInv'
<1>1. TypeOK'
  BY DEF IInv, TypeOK
<1>2. ASSUME NEW d \in Conns, NEW j \in Ids
      PROVE  ClientOK(clt'[d][j], loop'[d][j], wire'[d][j], got'[d][j],
                      fcgi'[d].open, proxies')
  <2>0. ClientOK(clt[d][j], loop[d][j], wire[d][j], got[d][j], fcgi[d].open, proxies)
    BY DEF IInv, Inv
  <2>1. CASE d = c /\ j = i
    <3>1. clt'[d][j] = k /\ loop'[d][j] = h /\ wire'[d][j] = w /\ got'[d][j] = g
      BY <2>1 DEF IInv, TypeOK
    <3>2. fcgi'[d].open = f.open
      BY <2>1 DEF IInv, TypeOK
    <3> QED
      BY <3>1, <3>2
  <2>2. CASE ~(d = c /\ j = i)
    <3>1. /\ clt'[d][j] = clt[d][j] /\ loop'[d][j] = loop[d][j]
          /\ wire'[d][j] = wire[d][j] /\ got'[d][j] = got[d][j]
      BY <2>2 DEF IInv, TypeOK
    <3>2. fcgi'[d].open = fcgi[d].open
      BY DEF IInv, TypeOK
    <3> QED
      BY <2>0, <3>1, <3>2
  <2> QED
    BY <2>1, <2>2
<1> QED
  BY <1>1, <1>2 DEF IInv, Inv

LEMMA ContinueKeeps ==
  ASSUME IInv, NEW c \in Conns, NEW i \in Ids,
         NEW k \in Clients, NEW h \in SUBSET Resources, NEW w \in Stages,
         ClientOK(k, h, w, got[c][i], fcgi[c].open, proxies),
         Continue(c, i, k, h, w)
  PROVE  IInv'
<1> DEFINE f == [fcgi[c] EXCEPT !.out = fcgi[c].out \/ w # wire[c][i]]
<1>1. f \in Fcgis /\ f.open = fcgi[c].open
  <2>1. fcgi[c] \in Fcgis
    BY DEF IInv, TypeOK
  <2>2. ASSUME NEW b \in BOOLEAN
        PROVE  [fcgi[c] EXCEPT !.out = b] \in Fcgis /\ [fcgi[c] EXCEPT !.out = b].open = fcgi[c].open
    BY <2>1 DEF Fcgis
  <2>3. (fcgi[c].out \/ w # wire[c][i]) \in BOOLEAN
    OBVIOUS
  <2> QED
    BY <2>2, <2>3
<1>2. fcgi' = [fcgi EXCEPT ![c] = f]
  BY DEF Continue, IInv, TypeOK
<1>3. got' = [got EXCEPT ![c][i] = got[c][i]]
  BY DEF Continue, IInv, TypeOK
<1>4. got[c][i] \in {"idle", "wait", "skipped", "answered", "cut"}
  BY DEF IInv, TypeOK
<1> HIDE DEF f
<1>5. ClientOK(k, h, w, got[c][i], f.open, proxies)
  BY <1>1
<1>6. /\ clt' = [clt EXCEPT ![c][i] = k]
      /\ loop' = [loop EXCEPT ![c][i] = h]
      /\ wire' = [wire EXCEPT ![c][i] = w]
      /\ UNCHANGED <<proxies, sock>>
  BY DEF Continue
<1> QED
  BY <1>1, <1>2, <1>3, <1>4, <1>5, <1>6, OneClient

LEMMA EmitKeeps ==
  ASSUME IInv, NEW c \in Conns, NEW i \in Ids,
         NEW k \in Clients, NEW h \in SUBSET Resources,
         ClientOK(k, h, k.resp, got[c][i], fcgi[c].open, proxies),
         Emit(c, i, k, h)
  PROVE  IInv'
<1> DEFINE f == [fcgi[c] EXCEPT !.out = TRUE]
<1>1. f \in Fcgis /\ f.open = fcgi[c].open
  BY DEF IInv, TypeOK, Fcgis
<1>2. fcgi' = [fcgi EXCEPT ![c] = f]
  BY DEF Emit, IInv, TypeOK
<1>3. got' = [got EXCEPT ![c][i] = got[c][i]]
  BY DEF Emit, IInv, TypeOK
<1>4. got[c][i] \in {"idle", "wait", "skipped", "answered", "cut"} /\ k.resp \in Stages
  BY DEF IInv, TypeOK, Clients
<1> HIDE DEF f
<1>5. ClientOK(k, h, k.resp, got[c][i], f.open, proxies)
  BY <1>1
<1>6. /\ clt' = [clt EXCEPT ![c][i] = k]
      /\ loop' = [loop EXCEPT ![c][i] = h]
      /\ wire' = [wire EXCEPT ![c][i] = k.resp]
      /\ UNCHANGED <<proxies, sock>>
  BY DEF Emit
<1> QED
  BY <1>1, <1>2, <1>3, <1>4, <1>5, <1>6, OneClient

LEMMA NoClientOK ==
  ASSUME NEW g, NEW o, NEW ps
  PROVE  ClientOK(NoClient, {}, "none", g, o, ps)
  BY DEF ClientOK, NoClient, Owned, Driven

LEMMA NoClientType == NoClient \in Clients
  BY DEF NoClient, Clients, Resources, Stages

(* fcgi_error leaves nothing of the connection, provided every client it   *)
(* frees refers to all that is held for it.                                *)
LEMMA ErrorKeeps ==
  ASSUME IInv, NEW c \in Conns, NEW ks, NEW hs,
         NEW gs \in [Ids -> {"idle", "wait", "skipped", "answered", "cut"}],
         NEW why \in {"none", "done", "error", "reload"},
         \A j \in Ids : hs[j] \subseteq ks[j].refs,
         FcgiErrorFrom(c, ks, hs, gs, why)
  PROVE  IInv'
<1>1. [Closed(why) EXCEPT !.mpx = fcgi[c].mpx] \in Fcgis
  BY DEF IInv, TypeOK, Closed, Fcgis
<1>2. \A j \in Ids : ProxyClientFree(ks[j], hs[j]) = {}
  BY DEF ProxyClientFree
<1>3. loop' = [loop EXCEPT ![c] = [j \in Ids |-> {}]]
  BY <1>2 DEF FcgiErrorFrom
<1>4. TypeOK'
  <2>1. fcgi' \in [Conns -> Fcgis]
    BY <1>1 DEF IInv, TypeOK, FcgiErrorFrom
  <2>2. clt' \in [Conns -> [Ids -> Clients]]
    BY NoClientType DEF IInv, TypeOK, FcgiErrorFrom
  <2>3. loop' \in [Conns -> [Ids -> SUBSET Resources]]
    BY <1>3 DEF IInv, TypeOK
  <2>4. wire' \in [Conns -> [Ids -> Stages]]
    BY DEF IInv, TypeOK, FcgiErrorFrom, Stages
  <2>5. got' \in [Conns -> [Ids -> {"idle", "wait", "skipped", "answered", "cut"}]]
    BY DEF IInv, TypeOK, FcgiErrorFrom
  <2> QED
    BY <2>1, <2>2, <2>3, <2>4, <2>5 DEF IInv, TypeOK, FcgiErrorFrom
<1>5. ASSUME NEW d \in Conns, NEW j \in Ids
      PROVE  ClientOK(clt'[d][j], loop'[d][j], wire'[d][j], got'[d][j],
                      fcgi'[d].open, proxies')
  <2>1. CASE d = c
    <3>1. clt'[d][j] = NoClient /\ loop'[d][j] = {} /\ wire'[d][j] = "none"
      BY <1>3, <2>1 DEF IInv, TypeOK, FcgiErrorFrom
    <3> QED
      BY <3>1, NoClientOK
  <2>2. CASE d # c
    <3>1. /\ clt'[d][j] = clt[d][j] /\ loop'[d][j] = loop[d][j]
          /\ wire'[d][j] = wire[d][j] /\ got'[d][j] = got[d][j]
          /\ fcgi'[d] = fcgi[d] /\ proxies' = proxies
      BY <1>3, <2>2 DEF IInv, TypeOK, FcgiErrorFrom
    <3> QED
      BY <3>1 DEF IInv, Inv
  <2> QED
    BY <2>1, <2>2
<1> QED
  BY <1>4, <1>5 DEF IInv, Inv

(* A write fails while request i has become k, holding h.                  *)
LEMMA WriteFailsKeeps ==
  ASSUME IInv, NEW c \in Conns, NEW i \in Ids, NEW k, NEW h,
         h \subseteq k.refs,
         WriteFails(c, i, k, h)
  PROVE  IInv'
<1> DEFINE ks == [clt[c] EXCEPT ![i] = k]
           hs == [loop[c] EXCEPT ![i] = h]
<1>1. FcgiErrorFrom(c, ks, hs, got[c], "error")
  BY DEF WriteFails
<1>2. got[c] \in [Ids -> {"idle", "wait", "skipped", "answered", "cut"}]
  BY DEF IInv, TypeOK
<1>3. \A j \in Ids : hs[j] \subseteq ks[j].refs
  <2> TAKE j \in Ids
  <2>1. CASE j = i
    BY <2>1 DEF IInv, TypeOK
  <2>2. CASE j # i
    <3>1. hs[j] = loop[c][j] /\ ks[j] = clt[c][j]
      BY <2>2 DEF IInv, TypeOK
    <3>2. loop[c][j] \subseteq clt[c][j].refs
      BY DEF IInv, Inv, ClientOK, Owned
    <3> QED
      BY <3>1, <3>2
  <2> QED
    BY <2>1, <2>2
<1> HIDE DEF ks, hs
<1> QED
  BY <1>1, <1>2, <1>3, ErrorKeeps

(* end_request of a request whose response can be ended.                   *)
LEMMA EndKeeps ==
  ASSUME IInv, NEW c \in Conns, NEW i \in Ids, NEW k \in Clients, NEW h,
         h \subseteq k.refs,
         got[c][i] = "wait", fcgi[c].open,
         Extend(Flushed(k, wire[c][i]), "end") = "end",
         EndRequest(c, i, k, h)
  PROVE  IInv'
<1>1. CASE WriteFails(c, i, k, h)
  BY <1>1, WriteFailsKeeps
<1>2. CASE ~WriteFails(c, i, k, h)
  <2> DEFINE f == [fcgi[c] EXCEPT !.out = TRUE, !.done = fcgi[c].done \/ ~fcgi[c].keep]
  <2>1. f \in Fcgis /\ f.open = fcgi[c].open
    BY DEF IInv, TypeOK, Fcgis
  <2>2. fcgi' = [fcgi EXCEPT ![c] = f]
    BY <1>2 DEF EndRequest, IInv, TypeOK
  <2>3. got' = [got EXCEPT ![c][i] = "wait"]
    BY <1>2 DEF EndRequest, IInv, TypeOK
  <2>4. ProxyClientFree(k, h) = {}
    BY DEF ProxyClientFree
  <2>5. /\ clt' = [clt EXCEPT ![c][i] = NoClient]
        /\ loop' = [loop EXCEPT ![c][i] = {}]
        /\ wire' = [wire EXCEPT ![c][i] = "end"]
        /\ UNCHANGED <<proxies, sock>>
    BY <1>2, <2>4 DEF EndRequest
  <2> HIDE DEF f
  <2>6. ClientOK(NoClient, {}, "end", "wait", f.open, proxies)
    BY <2>1 DEF ClientOK, NoClient, Owned, Driven
  <2>7. "end" \in Stages /\ {} \in SUBSET Resources
    BY DEF Stages
  <2> QED
    BY <2>1, <2>2, <2>3, <2>5, <2>6, <2>7, NoClientType, OneClient
<1> QED
  BY <1>1, <1>2

-----------------------------------------------------------------------------
(* Responses: what is written keeps the client a client, and can be ended. *)

LEMMA TpWriteType ==
  ASSUME NEW k \in Clients, NEW x \in {"hdr", "body"}
  PROVE  /\ TpWrite(k, x) \in Clients
         /\ TpWrite(k, x).resp = Extend(k.resp, x)
         /\ TpWrite(k, x).tpbuf = TRUE
         /\ TpWrite(k, x).refs = k.refs
         /\ TpWrite(k, x).live = k.live
         /\ TpWrite(k, x).sent = k.sent
         /\ TpWrite(k, x).method = k.method
         /\ TpWrite(k, x).pc = k.pc
         /\ TpWrite(k, x).headersdone = k.headersdone
         /\ TpWrite(k, x).translate = k.translate
<1>1. Extend(k.resp, x) \in Stages
  BY DEF Extend, Stages
<1>2. TpWrite(k, x) = [k EXCEPT !.resp = Extend(k.resp, x), !.tpbuf = TRUE]
  BY DEF TpWrite
<1> QED
  BY <1>1, <1>2 DEF Clients

LEMMA PageEnds ==
  ASSUME NEW k \in Clients, k.resp = "none", NEW w
  PROVE  /\ Page(k) \in Clients
         /\ Page(k).refs = k.refs
         /\ Extend(Flushed(Page(k), w), "end") = "end"
<1> DEFINE hdr == TpWrite(k, "hdr")
<1>1. hdr \in Clients /\ hdr.refs = k.refs /\ hdr.resp = "hdr"
  BY TpWriteType DEF Extend
<1> HIDE DEF hdr
<1>2. /\ TpWrite(hdr, "body") \in Clients
      /\ TpWrite(hdr, "body").refs = k.refs
      /\ TpWrite(hdr, "body").resp = "body"
      /\ TpWrite(hdr, "body").tpbuf = TRUE
  BY <1>1, TpWriteType DEF Extend
<1>3. Page(k) = TpWrite(hdr, "body")
  BY DEF Page, hdr
<1>4. Flushed(Page(k), w) = "body"
  BY <1>2, <1>3 DEF Flushed
<1> QED
  BY <1>2, <1>3, <1>4 DEF Extend

LEMMA RedirectEnds ==
  ASSUME NEW k \in Clients, k.resp = "none", NEW w
  PROVE  /\ Redirect(k) \in Clients
         /\ Redirect(k).refs = k.refs
         /\ Extend(Flushed(Redirect(k), w), "end") = "end"
<1>1. /\ Redirect(k) \in Clients
      /\ Redirect(k).refs = k.refs
      /\ Redirect(k).resp = "hdr"
      /\ Redirect(k).tpbuf = TRUE
  BY TpWriteType DEF Redirect, Extend
<1>2. Flushed(Redirect(k), w) = "hdr"
  BY <1>1 DEF Flushed
<1> QED
  BY <1>1, <1>2 DEF Extend

LEMMA AsIsEnds ==
  ASSUME NEW k \in Clients, NEW w, ResponseOK(k, w)
  PROVE  Extend(Flushed(k, w), "end") = "end"
<1>1. Flushed(k, w) \in {"none", "hdr", "body"}
  BY DEF Flushed, ResponseOK
<1> QED
  BY <1>1 DEF Extend

-----------------------------------------------------------------------------
(* The upstream side.                                                      *)

(* Request i of c while a callback of it runs, before the response begins: *)
(* it has become k, holding h, and nothing will call it back yet.          *)
Between(c, i, k, h) ==
    /\ k \in Clients /\ h \in SUBSET Resources
    /\ k.live /\ Started(k)
    /\ ~k.headersdone /\ k.resp = "none" /\ ~k.tpbuf
    /\ Owned(k, h) /\ h \cap Drivers = {}
    /\ k.pc \in proxies
    /\ wire[c][i] = "none" /\ got[c][i] = "wait" /\ fcgi[c].open

LEMMA EndPageKeeps ==
  ASSUME IInv, NEW c \in Conns, NEW i \in Ids, NEW k \in Clients, NEW h,
         k.resp = "none", h \subseteq k.refs, got[c][i] = "wait", fcgi[c].open,
         EndRequest(c, i, Page(k), h)
  PROVE  IInv'
  BY PageEnds, EndKeeps

LEMMA EndRedirectKeeps ==
  ASSUME IInv, NEW c \in Conns, NEW i \in Ids, NEW k \in Clients, NEW h,
         k.resp = "none", h \subseteq k.refs, got[c][i] = "wait", fcgi[c].open,
         EndRequest(c, i, Redirect(k), h)
  PROVE  IInv'
  BY RedirectEnds, EndKeeps

LEMMA EndAsIsKeeps ==
  ASSUME IInv, NEW c \in Conns, NEW i \in Ids, NEW k \in Clients, NEW h,
         ResponseOK(k, wire[c][i]), h \subseteq k.refs,
         got[c][i] = "wait", fcgi[c].open,
         EndRequest(c, i, k, h)
  PROVE  IInv'
  BY AsIsEnds, EndKeeps

(* The fields that matter when only the references of a client change.     *)
LEMMA RefsType ==
  ASSUME NEW k \in Clients, NEW r \in SUBSET Resources
  PROVE  /\ [k EXCEPT !.refs = r] \in Clients
         /\ [k EXCEPT !.refs = r].refs = r
         /\ [k EXCEPT !.refs = r].live = k.live
         /\ [k EXCEPT !.refs = r].sent = k.sent
         /\ [k EXCEPT !.refs = r].method = k.method
         /\ [k EXCEPT !.refs = r].pc = k.pc
         /\ [k EXCEPT !.refs = r].headersdone = k.headersdone
         /\ [k EXCEPT !.refs = r].translate = k.translate
         /\ [k EXCEPT !.refs = r].resp = k.resp
         /\ [k EXCEPT !.refs = r].tpbuf = k.tpbuf
  BY DEF Clients

(* A request that goes on waiting for the callback d.                      *)
LEMMA WaitKeeps ==
  ASSUME IInv, NEW c \in Conns, NEW i \in Ids, NEW k, NEW h,
         Between(c, i, k, h),
         NEW d \in Drivers, NEW r \in SUBSET Resources, NEW held \in SUBSET Resources,
         Owned([k EXCEPT !.refs = r], held), held \cap Drivers = {d},
         Continue(c, i, [k EXCEPT !.refs = r], held, wire[c][i])
  PROVE  IInv'
<1> DEFINE n == [k EXCEPT !.refs = r]
<1>1. k \in Clients
  BY DEF Between
<1>2. /\ n \in Clients /\ n.live = k.live /\ n.sent = k.sent /\ n.method = k.method
      /\ n.pc = k.pc /\ n.headersdone = k.headersdone /\ n.resp = k.resp
      /\ n.tpbuf = k.tpbuf
  BY <1>1, RefsType
<1> HIDE DEF n
<1>3. n.live /\ Started(n) /\ ~n.headersdone /\ n.resp = "none" /\ ~n.tpbuf
  BY <1>2 DEF Between, Started
<1>4. n.pc \in proxies /\ n.pc # None
  BY <1>2, WorkerAssumption DEF Between, IInv, TypeOK
<1>5. ResponseOK(n, "none")
  BY <1>3 DEF ResponseOK
<1>6. Driven(n, held)
  BY <1>3 DEF Driven
<1>7. Owned(n, held)
  BY DEF n
<1>8. ClientOK(n, held, wire[c][i], got[c][i], fcgi[c].open, proxies)
  BY <1>3, <1>4, <1>5, <1>6, <1>7 DEF ClientOK, Between
<1>9. wire[c][i] \in Stages
  BY DEF IInv, TypeOK
<1>10. Continue(c, i, n, held, wire[c][i])
  BY DEF n
<1> QED
  BY <1>2, <1>8, <1>9, <1>10, ContinueKeeps

LEMMA ConnectedKeeps ==
  ASSUME IInv, NEW c \in Conns, NEW i \in Ids, NEW k0, NEW h0,
         Between(c, i, k0, h0),
         ProxyConnected(c, i, k0, h0)
  PROVE  IInv'
<1> DEFINE r == k0.refs \ {"evconn", "addrinfo"}
           k == [k0 EXCEPT !.refs = r]
           h == h0 \ {"addrinfo"}
<1>1. /\ k0 \in Clients /\ h0 \in SUBSET Resources /\ k0.refs \in SUBSET Resources
      /\ h0 \subseteq k0.refs /\ k0.refs \ {"evconn"} \subseteq h0
      /\ h0 \cap Drivers = {}
  BY DEF Between, Owned, Clients
<1>2. k \in Clients /\ k.refs = r /\ k.resp = "none"
  BY <1>1, RefsType DEF Between
<1>3. h = r
  BY <1>1 DEF Drivers
<1>4. ASSUME NEW s \in SUBSET Resources
      PROVE  [k EXCEPT !.refs = @ \cup s] = [k0 EXCEPT !.refs = r \cup s]
  BY <1>1 DEF Clients
<1>5. CASE \E tls \in SUBSET {"ctx"} :
              Continue(c, i, [k EXCEPT !.refs = @ \cup {"bev"} \cup tls],
                       h \cup {"bev"} \cup tls, wire[c][i])
  <2>1. PICK tls \in SUBSET {"ctx"} :
              Continue(c, i, [k EXCEPT !.refs = @ \cup {"bev"} \cup tls],
                       h \cup {"bev"} \cup tls, wire[c][i])
    BY <1>5
  <2> DEFINE s == {"bev"} \cup tls
  <2>2. s \in SUBSET Resources /\ r \cup s \in SUBSET Resources
    BY <1>1 DEF Resources
  <2>3. [k EXCEPT !.refs = @ \cup {"bev"} \cup tls] = [k0 EXCEPT !.refs = r \cup s]
    <3>1. [k EXCEPT !.refs = @ \cup {"bev"} \cup tls] = [k EXCEPT !.refs = @ \cup s]
      BY <1>2
    <3> QED
      BY <3>1, <2>2, <1>4
  <2>4. h \cup {"bev"} \cup tls = r \cup s
    BY <1>3
  <2>5. (r \cup s) \cap Drivers = {"bev"}
    BY <1>1, <1>3 DEF Drivers
  <2>6. Owned([k0 EXCEPT !.refs = r \cup s], r \cup s)
    BY <1>1, <2>2, RefsType DEF Owned
  <2>7. "bev" \in Drivers
    BY DEF Drivers
  <2>8. Continue(c, i, [k0 EXCEPT !.refs = r \cup s], r \cup s, wire[c][i])
    BY <2>1, <2>3, <2>4
  <2> HIDE DEF r, s, k, h
  <2> QED
    BY <2>2, <2>5, <2>6, <2>7, <2>8, WaitKeeps
<1>6. CASE \E new \in {{}, {"bev"}, {"bev", "ctx"}} :
              EndRequest(c, i, Page([k EXCEPT !.refs = @ \cup new]), h \cup new)
  <2>1. PICK new \in {{}, {"bev"}, {"bev", "ctx"}} :
              EndRequest(c, i, Page([k EXCEPT !.refs = @ \cup new]), h \cup new)
    BY <1>6
  <2> DEFINE n == [k0 EXCEPT !.refs = r \cup new]
  <2>2. new \in SUBSET Resources /\ r \cup new \in SUBSET Resources
    BY <1>1 DEF Resources
  <2>3. [k EXCEPT !.refs = @ \cup new] = n
    BY <1>4, <2>2
  <2>4. n \in Clients /\ n.refs = r \cup new /\ n.resp = "none"
    BY <1>1, <2>2, RefsType DEF Between
  <2>5. h \cup new \subseteq n.refs
    BY <1>3, <2>4
  <2>6. EndRequest(c, i, Page(n), h \cup new)
    BY <2>1, <2>3
  <2> HIDE DEF n, h
  <2> QED
    BY <2>4, <2>5, <2>6, EndPageKeeps DEF Between
<1> QED
  BY <1>5, <1>6 DEF ProxyConnected

LEMMA ConnectFirstKeeps ==
  ASSUME IInv, NEW c \in Conns, NEW i \in Ids, NEW k, NEW h,
         Between(c, i, k, h),
         ProxyConnectFirst(c, i, k, h)
  PROVE  IInv'
<1> DEFINE fd == [k EXCEPT !.refs = @ \cup {"fd"}]
<1>1. /\ k \in Clients /\ h \in SUBSET Resources /\ k.refs \in SUBSET Resources
      /\ h \subseteq k.refs /\ k.refs \ {"evconn"} \subseteq h
      /\ h \cap Drivers = {} /\ k.resp = "none"
  BY DEF Between, Owned, Clients
<1>2. CASE EndRequest(c, i, Page(k), h)
  BY <1>1, <1>2, EndPageKeeps DEF Between
<1>3. CASE ProxyConnected(c, i, fd, h \cup {"fd"})
  <2>1. k.refs \cup {"fd"} \in SUBSET Resources /\ h \cup {"fd"} \in SUBSET Resources
    BY <1>1 DEF Resources
  <2>2. /\ fd \in Clients /\ fd.refs = k.refs \cup {"fd"}
        /\ fd.live = k.live /\ fd.sent = k.sent /\ fd.method = k.method
        /\ fd.pc = k.pc /\ fd.headersdone = k.headersdone /\ fd.resp = k.resp
        /\ fd.tpbuf = k.tpbuf
    BY <1>1, <2>1, RefsType
  <2> HIDE DEF fd
  <2>3. Owned(fd, h \cup {"fd"}) /\ (h \cup {"fd"}) \cap Drivers = {}
    BY <1>1, <2>2 DEF Owned, Drivers
  <2>4. Between(c, i, fd, h \cup {"fd"})
    BY <2>1, <2>2, <2>3 DEF Between, Started
  <2> QED
    BY <1>3, <2>4, ConnectedKeeps
<1>4. CASE Continue(c, i, [fd EXCEPT !.refs = @ \cup {"evconn"}],
                    h \cup {"fd", "evconn"}, wire[c][i])
  <2> DEFINE r == k.refs \cup {"fd", "evconn"}
             held == h \cup {"fd", "evconn"}
  <2>1. [fd EXCEPT !.refs = @ \cup {"evconn"}] = [k EXCEPT !.refs = r]
    BY <1>1 DEF Clients
  <2>2. r \in SUBSET Resources /\ held \in SUBSET Resources
    BY <1>1 DEF Resources
  <2>3. held \cap Drivers = {"evconn"} /\ "evconn" \in Drivers
    BY <1>1 DEF Drivers
  <2>4. Owned([k EXCEPT !.refs = r], held)
    BY <1>1, <2>2, RefsType DEF Owned
  <2>5. Continue(c, i, [k EXCEPT !.refs = r], held, wire[c][i])
    BY <1>4, <2>1
  <2> HIDE DEF r, held
  <2> QED
    BY <2>2, <2>3, <2>4, <2>5, WaitKeeps
<1> QED
  BY <1>2, <1>3, <1>4 DEF ProxyConnectFirst

(* A callback finds its client alive, started, and driven by nothing else. *)
LEMMA CalledBack ==
  ASSUME IInv, NEW c \in Conns, NEW i \in Ids, NEW d \in Drivers, d \in loop[c][i]
  PROVE  /\ clt[c][i] \in Clients /\ clt[c][i].refs \in SUBSET Resources
         /\ loop[c][i] \in SUBSET Resources /\ wire[c][i] \in Stages
         /\ clt[c][i].live /\ Started(clt[c][i])
         /\ loop[c][i] \cap Drivers = {d}
         /\ Owned(clt[c][i], loop[c][i])
         /\ ResponseOK(clt[c][i], wire[c][i])
         /\ clt[c][i].pc \in proxies /\ clt[c][i].pc # None
         /\ clt[c][i].headersdone => d = "bev"
         /\ got[c][i] = "wait" /\ fcgi[c].open
<1>1. ClientOK(clt[c][i], loop[c][i], wire[c][i], got[c][i], fcgi[c].open, proxies)
  BY DEF IInv, Inv
<1>2. /\ clt[c][i] \in Clients /\ clt[c][i].refs \in SUBSET Resources
      /\ loop[c][i] \in SUBSET Resources /\ wire[c][i] \in Stages
  BY DEF IInv, TypeOK, Clients
<1>3. loop[c][i] # {}
  OBVIOUS
<1>4. clt[c][i].live /\ Started(clt[c][i])
  BY <1>1, <1>3 DEF ClientOK, Driven
<1>5. loop[c][i] \cap Drivers = {d}
  BY <1>1, <1>4 DEF ClientOK, Driven
<1>6. "bev" \in loop[c][i] => d = "bev"
  BY <1>5 DEF Drivers
<1> QED
  BY <1>1, <1>2, <1>3, <1>4, <1>5, <1>6 DEF ClientOK

LEMMA ResolvedKeeps ==
  ASSUME IInv, NEW c \in Conns, NEW i \in Ids, ProxyResolved(c, i)
  PROVE  IInv'
<1> DEFINE k0 == clt[c][i]
           h0 == loop[c][i]
           k == [k0 EXCEPT !.refs = @ \ {"evasr"}]
           h == h0 \ {"evasr"}
           ka == [k EXCEPT !.refs = @ \cup {"addrinfo"}]
           ha == h \cup {"addrinfo"}
           r == (k0.refs \ {"evasr"}) \cup {"addrinfo"}
<1>1. /\ k0 \in Clients /\ k0.refs \in SUBSET Resources /\ h0 \in SUBSET Resources
      /\ k0.live /\ Started(k0) /\ h0 \cap Drivers = {"evasr"} /\ Owned(k0, h0)
      /\ ResponseOK(k0, wire[c][i]) /\ k0.pc \in proxies /\ ~k0.headersdone
      /\ got[c][i] = "wait" /\ fcgi[c].open
  BY CalledBack DEF ProxyResolved, Drivers
<1>2. k0.resp = "none" /\ ~k0.tpbuf /\ wire[c][i] = "none"
  BY <1>1 DEF ResponseOK
<1>3. CASE EndRequest(c, i, Page(k), h)
  <2>1. k0.refs \ {"evasr"} \in SUBSET Resources
    BY <1>1
  <2>2. k \in Clients /\ k.refs = k0.refs \ {"evasr"} /\ k.resp = "none"
    BY <1>1, <1>2, <2>1, RefsType
  <2>3. h \subseteq k.refs
    BY <1>1, <2>2 DEF Owned
  <2> HIDE DEF k, h
  <2> QED
    BY <1>1, <1>3, <2>2, <2>3, EndPageKeeps
<1>4. CASE ProxyConnectFirst(c, i, ka, ha)
  <2>1. ka = [k0 EXCEPT !.refs = r]
    BY <1>1 DEF Clients
  <2>2. r \in SUBSET Resources /\ ha \in SUBSET Resources
    BY <1>1 DEF Resources
  <2> HIDE DEF ka, r, k0
  <2>3. /\ ka \in Clients /\ ka.refs = r /\ ka.live = k0.live
        /\ ka.sent = k0.sent /\ ka.method = k0.method /\ ka.pc = k0.pc
        /\ ka.headersdone = k0.headersdone /\ ka.resp = k0.resp /\ ka.tpbuf = k0.tpbuf
    BY <1>1, <2>1, <2>2, RefsType
  <2>4. Owned(ka, ha) /\ ha \cap Drivers = {}
    BY <1>1, <2>3 DEF Owned, Drivers, r
  <2>5. Started(ka)
    BY <1>1, <2>3 DEF Started
  <2> HIDE DEF ha
  <2>6. Between(c, i, ka, ha)
    BY <1>1, <1>2, <2>2, <2>3, <2>4, <2>5 DEF Between
  <2> QED
    BY <1>4, <2>6, ConnectFirstKeeps
<1> QED
  BY <1>3, <1>4 DEF ProxyResolved

LEMMA ConnectKeeps ==
  ASSUME IInv, NEW c \in Conns, NEW i \in Ids, ProxyConnect(c, i)
  PROVE  IInv'
<1> DEFINE k == clt[c][i]
           h == loop[c][i] \ {"evconn"}
<1>1. /\ k \in Clients /\ h \in SUBSET Resources
      /\ k.live /\ Started(k) /\ loop[c][i] \cap Drivers = {"evconn"}
      /\ Owned(k, loop[c][i])
      /\ ResponseOK(k, wire[c][i]) /\ k.pc \in proxies /\ ~k.headersdone
      /\ got[c][i] = "wait" /\ fcgi[c].open
  BY CalledBack DEF ProxyConnect, Drivers
<1>2. k.resp = "none" /\ ~k.tpbuf /\ wire[c][i] = "none"
  BY <1>1 DEF ResponseOK
<1>3. Owned(k, h) /\ h \cap Drivers = {} /\ h \subseteq k.refs
  BY <1>1 DEF Owned, Drivers
<1>4. EndRequest(c, i, Page(k), h) \/ ProxyConnected(c, i, k, h)
  BY DEF ProxyConnect
<1> HIDE DEF k, h
<1>5. Between(c, i, k, h)
  BY <1>1, <1>2, <1>3 DEF Between
<1> QED
  BY <1>1, <1>2, <1>3, <1>4, <1>5, EndPageKeeps, ConnectedKeeps

(* A request that just became complete, k0, starts: nothing is held for it *)
(* and nothing is written.                                                 *)
LEMMA StartKeeps ==
  ASSUME IInv, NEW c \in Conns, NEW i \in Ids, NEW k0 \in Clients,
         k0.live, Started(k0), ~k0.headersdone, k0.resp = "none", ~k0.tpbuf,
         Owned(k0, {}), loop[c][i] = {}, wire[c][i] = "none",
         got[c][i] = "wait", fcgi[c].open,
         ProxyStartRequest(c, i, k0)
  PROVE  IInv'
<1> DEFINE k == IF k0.path THEN [k0 EXCEPT !.pc = ProxyMatch(k0.server)] ELSE k0
           asked == [k EXCEPT !.refs = @ \cup {"evasr"}]
<1>1. ProxyMatch(k0.server) \in Hosts \cup {None}
  BY DEF ProxyMatch, IInv, TypeOK, Clients
<1>2. /\ k \in Clients /\ k.live /\ k.sent = k0.sent /\ k.method = k0.method
      /\ ~k.headersdone /\ k.resp = "none" /\ ~k.tpbuf /\ k.refs = k0.refs
  BY <1>1 DEF Clients
<1>3. k.path => k.pc = ProxyMatch(k0.server)
  BY <1>1 DEF Clients
<1>4. \/ EndRequest(c, i, Page(k), {})
      \/ EndRequest(c, i, Redirect(k), {})
      \/ EndRequest(c, i, k, {})
      \/ /\ k.path /\ k.pc # None
         /\ Continue(c, i, asked, {} \cup {"evasr"}, wire[c][i])
  BY DEF ProxyStartRequest
<1> HIDE DEF k
<1>5. {} \subseteq k.refs /\ Owned(k, {}) /\ Started(k) /\ k.refs \in SUBSET Resources
  BY <1>2 DEF Owned, Started, Clients
<1>6. ResponseOK(k, wire[c][i])
  BY <1>2 DEF ResponseOK
<1>7. CASE k.path /\ k.pc # None
           /\ Continue(c, i, asked, {} \cup {"evasr"}, wire[c][i])
  <2> DEFINE r == k.refs \cup {"evasr"}
  <2>1. k.pc \in proxies
    BY <1>3, <1>7 DEF ProxyMatch
  <2>2. Between(c, i, k, {})
    BY <1>2, <1>5, <2>1 DEF Between
  <2>3. r \in SUBSET Resources /\ {"evasr"} \in SUBSET Resources
    BY <1>5 DEF Resources
  <2>4. Owned([k EXCEPT !.refs = r], {"evasr"})
    BY <1>2, <1>5, <2>3, RefsType DEF Owned
  <2>5. {"evasr"} \cap Drivers = {"evasr"} /\ "evasr" \in Drivers
    BY DEF Drivers
  <2>6. {} \cup {"evasr"} = {"evasr"}
    OBVIOUS
  <2>7. Continue(c, i, [k EXCEPT !.refs = r], {"evasr"}, wire[c][i])
    BY <1>7, <2>6
  <2> HIDE DEF r
  <2> QED
    BY <2>2, <2>3, <2>4, <2>5, <2>7, WaitKeeps
<1> QED
  BY <1>2, <1>4, <1>5, <1>6, <1>7, EndPageKeeps, EndRedirectKeeps, EndAsIsKeeps

(* A started request in the body of its response, driven by its upstream.  *)
InBody(c, i, k, w) ==
    /\ k \in Clients /\ w \in Stages
    /\ k.live /\ Started(k) /\ k.headersdone
    /\ ResponseOK(k, w)
    /\ Owned(k, loop[c][i]) /\ loop[c][i] \cap Drivers = {"bev"}
    /\ k.pc \in proxies
    /\ got[c][i] = "wait" /\ fcgi[c].open

LEMMA InBodyOK ==
  ASSUME IInv, NEW c \in Conns, NEW i \in Ids, NEW k, NEW w, InBody(c, i, k, w)
  PROVE  /\ ClientOK(k, loop[c][i], w, got[c][i], fcgi[c].open, proxies)
         /\ k \in Clients /\ w \in Stages /\ loop[c][i] \in SUBSET Resources
<1>1. loop[c][i] \in SUBSET Resources
  BY DEF IInv, TypeOK
<1>2. Driven(k, loop[c][i])
  BY DEF Driven, InBody, Drivers
<1>3. k.pc # None
  BY WorkerAssumption DEF InBody, IInv, TypeOK
<1>4. "bev" \in loop[c][i]
  BY DEF InBody
<1> QED
  BY <1>1, <1>2, <1>3, <1>4 DEF ClientOK, InBody

LEMMA ReadBodyKeeps ==
  ASSUME IInv, NEW c \in Conns, NEW i \in Ids, NEW k, NEW w,
         InBody(c, i, k, w), ProxyReadBody(c, i, k, w)
  PROVE  IInv'
<1> DEFINE h == loop[c][i]
           raw == [k EXCEPT !.resp = DoWrite(k, w, "body")]
           lines == TpWrite(k, "body")
<1>1. k \in Clients /\ k.resp \in {"hdr", "body"} /\ h \subseteq k.refs
  BY DEF InBody, ResponseOK, Owned
<1>2. CASE Continue(c, i, k, h, w)
  BY <1>2, InBodyOK, ContinueKeeps
<1>3. CASE k.translate /\ (Continue(c, i, lines, h, w) \/ Emit(c, i, lines, h))
  <2>1. /\ lines \in Clients /\ lines.resp = "body" /\ lines.tpbuf
        /\ lines.refs = k.refs /\ lines.live = k.live /\ lines.sent = k.sent
        /\ lines.method = k.method /\ lines.pc = k.pc
        /\ lines.headersdone = k.headersdone /\ lines.translate
    BY <1>1, <1>3, TpWriteType DEF Extend
  <2> HIDE DEF lines
  <2>2. Owned(lines, loop[c][i]) /\ Started(lines)
    BY <2>1 DEF InBody, Owned, Started
  <2>3. ResponseOK(lines, w) /\ ResponseOK(lines, "body")
    BY <2>1 DEF ResponseOK, InBody
  <2>4. InBody(c, i, lines, w) /\ InBody(c, i, lines, lines.resp)
    BY <2>1, <2>2, <2>3 DEF InBody, Stages
  <2>5. CASE Continue(c, i, lines, h, w)
    BY <2>4, <2>5, InBodyOK, ContinueKeeps
  <2>6. CASE Emit(c, i, lines, h)
    BY <2>4, <2>6, InBodyOK, EmitKeeps
  <2> QED
    BY <1>3, <2>5, <2>6
<1>4. CASE ~k.translate /\ Emit(c, i, raw, h)
  <2>1. ~k.tpbuf /\ w = k.resp
    BY <1>4 DEF InBody, ResponseOK
  <2>2. DoWrite(k, w, "body") = "body"
    BY <1>1, <2>1 DEF DoWrite, Extend
  <2>3. /\ raw \in Clients /\ raw.resp = "body" /\ ~raw.tpbuf
        /\ raw.refs = k.refs /\ raw.live = k.live /\ raw.sent = k.sent
        /\ raw.method = k.method /\ raw.pc = k.pc
        /\ raw.headersdone = k.headersdone
    BY <1>1, <2>1, <2>2 DEF Clients, Stages
  <2> HIDE DEF raw
  <2>4. Owned(raw, loop[c][i]) /\ Started(raw)
    BY <2>3 DEF InBody, Owned, Started
  <2>5. ResponseOK(raw, "body")
    BY <2>3 DEF ResponseOK, InBody
  <2>6. InBody(c, i, raw, raw.resp)
    BY <2>3, <2>4, <2>5 DEF InBody, Stages
  <2> QED
    BY <1>4, <2>6, InBodyOK, EmitKeeps
<1>5. CASE WriteFails(c, i, k, h)
  BY <1>1, <1>5, WriteFailsKeeps
<1> QED
  BY <1>2, <1>3, <1>4, <1>5 DEF ProxyReadBody

LEMMA ReadHeaderKeeps ==
  ASSUME IInv, NEW c \in Conns, NEW i \in Ids, "bev" \in loop[c][i],
         ~clt[c][i].headersdone, ProxyReadHeader(c, i, clt[c][i])
  PROVE  IInv'
<1> DEFINE k == clt[c][i]
           hdr == TpWrite(k, "hdr")
           begun == [hdr EXCEPT !.headersdone = TRUE, !.translate = TRUE]
           page == TpWrite(begun, "body")
           raw == [hdr EXCEPT !.headersdone = TRUE, !.tpbuf = FALSE]
<1>1. /\ k \in Clients /\ k.live /\ Started(k) /\ k.pc \in proxies
      /\ Owned(k, loop[c][i]) /\ loop[c][i] \cap Drivers = {"bev"}
      /\ ResponseOK(k, wire[c][i]) /\ wire[c][i] \in Stages
      /\ got[c][i] = "wait" /\ fcgi[c].open
  BY CalledBack DEF Drivers
<1>2. k.resp = "none" /\ wire[c][i] = "none" /\ loop[c][i] \subseteq k.refs
  BY <1>1 DEF ResponseOK, Owned
<1>3. \/ EndRequest(c, i, Page(k), loop[c][i])
      \/ EndRequest(c, i, Redirect(k), loop[c][i])
      \/ \E w \in {wire[c][i], page.resp} : ProxyReadBody(c, i, page, w)
      \/ ProxyReadBody(c, i, raw, Flushed(hdr, wire[c][i]))
  BY DEF ProxyReadHeader
<1> HIDE DEF k
<1>4. /\ hdr \in Clients /\ hdr.resp = "hdr" /\ hdr.tpbuf = TRUE /\ hdr.refs = k.refs
      /\ hdr.live = k.live /\ hdr.sent = k.sent /\ hdr.method = k.method
      /\ hdr.pc = k.pc
  BY <1>1, <1>2, TpWriteType DEF Extend
<1> HIDE DEF hdr
<1>5. CASE \E w \in {wire[c][i], page.resp} : ProxyReadBody(c, i, page, w)
  <2>1. PICK w \in {wire[c][i], page.resp} : ProxyReadBody(c, i, page, w)
    BY <1>5
  <2>2. /\ begun \in Clients /\ begun.resp = "hdr" /\ begun.refs = k.refs
        /\ begun.live = k.live /\ begun.sent = k.sent /\ begun.method = k.method
        /\ begun.pc = k.pc /\ begun.headersdone = TRUE /\ begun.translate = TRUE
    BY <1>4 DEF Clients
  <2> HIDE DEF begun
  <2>3. /\ page \in Clients /\ page.resp = "body" /\ page.tpbuf = TRUE
        /\ page.refs = k.refs /\ page.live = k.live /\ page.sent = k.sent
        /\ page.method = k.method /\ page.pc = k.pc
        /\ page.headersdone = TRUE /\ page.translate = TRUE
    BY <2>2, TpWriteType DEF Extend
  <2> HIDE DEF page
  <2>4. w \in {"none", "body"}
    BY <1>2, <2>1, <2>3
  <2>5. ResponseOK(page, w)
    BY <2>3, <2>4 DEF ResponseOK
  <2>6. Owned(page, loop[c][i]) /\ Started(page)
    BY <1>1, <2>3 DEF Owned, Started
  <2>7. InBody(c, i, page, w)
    BY <1>1, <2>3, <2>4, <2>5, <2>6 DEF InBody, Stages
  <2> QED
    BY <2>1, <2>7, ReadBodyKeeps
<1>6. CASE ProxyReadBody(c, i, raw, Flushed(hdr, wire[c][i]))
  <2>1. Flushed(hdr, wire[c][i]) = "hdr"
    BY <1>4 DEF Flushed
  <2>2. /\ raw \in Clients /\ raw.resp = "hdr" /\ raw.tpbuf = FALSE
        /\ raw.refs = k.refs /\ raw.live = k.live /\ raw.sent = k.sent
        /\ raw.method = k.method /\ raw.pc = k.pc /\ raw.headersdone = TRUE
    BY <1>4 DEF Clients
  <2> HIDE DEF raw
  <2>3. ResponseOK(raw, "hdr")
    BY <2>2 DEF ResponseOK
  <2>4. Owned(raw, loop[c][i]) /\ Started(raw)
    BY <1>1, <2>2 DEF Owned, Started
  <2>5. InBody(c, i, raw, "hdr")
    BY <1>1, <2>2, <2>3, <2>4 DEF InBody, Stages
  <2> QED
    BY <1>6, <2>1, <2>5, ReadBodyKeeps
<1> QED
  BY <1>1, <1>2, <1>3, <1>5, <1>6, EndPageKeeps, EndRedirectKeeps

LEMMA ReadKeeps ==
  ASSUME IInv, NEW c \in Conns, NEW i \in Ids, ProxyRead(c, i)
  PROVE  IInv'
<1>1. "bev" \in loop[c][i] /\ "bev" \in Drivers
  BY DEF ProxyRead, Drivers
<1>2. CASE clt[c][i].headersdone
  <2>1. InBody(c, i, clt[c][i], wire[c][i])
    BY <1>1, <1>2, CalledBack DEF InBody
  <2> QED
    BY <1>2, <2>1, ReadBodyKeeps DEF ProxyRead
<1>3. CASE ~clt[c][i].headersdone
  BY <1>1, <1>3, ReadHeaderKeeps DEF ProxyRead
<1> QED
  BY <1>2, <1>3

LEMMA ProxyErrorKeeps ==
  ASSUME IInv, NEW c \in Conns, NEW i \in Ids, NEW eof, ProxyError(c, i, eof)
  PROVE  IInv'
<1> DEFINE k == clt[c][i]
           h == loop[c][i]
<1>1. "bev" \in loop[c][i] /\ "bev" \in Drivers
  BY DEF ProxyError, Drivers
<1>2. /\ k \in Clients /\ h \subseteq k.refs /\ ResponseOK(k, wire[c][i])
      /\ got[c][i] = "wait" /\ fcgi[c].open
  BY <1>1, CalledBack DEF Owned
<1>3. \/ ~k.headersdone /\ EndRequest(c, i, Page(k), h)
      \/ k.headersdone /\ EndRequest(c, i, TpWrite(k, "body"), h)
      \/ EndRequest(c, i, k, h)
  BY DEF ProxyError
<1> HIDE DEF k, h
<1>4. CASE ~k.headersdone /\ EndRequest(c, i, Page(k), h)
  BY <1>2, <1>4, EndPageKeeps DEF ResponseOK
<1>5. CASE k.headersdone /\ EndRequest(c, i, TpWrite(k, "body"), h)
  <2> DEFINE n == TpWrite(k, "body")
  <2>1. k.resp \in {"hdr", "body"}
    BY <1>2, <1>5 DEF ResponseOK
  <2>2. n \in Clients /\ n.refs = k.refs /\ n.resp = "body" /\ n.tpbuf = TRUE
    BY <1>2, <2>1, TpWriteType DEF Extend
  <2> HIDE DEF n
  <2>3. Extend(Flushed(n, wire[c][i]), "end") = "end"
    BY <2>2 DEF Flushed, Extend
  <2>4. EndRequest(c, i, n, h) /\ h \subseteq n.refs
    BY <1>2, <1>5, <2>2 DEF n
  <2> QED
    BY <1>2, <2>2, <2>3, <2>4, EndKeeps
<1>6. CASE EndRequest(c, i, k, h)
  BY <1>2, <1>6, EndAsIsKeeps
<1> QED
  BY <1>3, <1>4, <1>5, <1>6

-----------------------------------------------------------------------------
(* The FastCGI side.                                                       *)

LEMMA ConnectionError ==
  ASSUME IInv, NEW c \in Conns,
         NEW gs \in [Ids -> {"idle", "wait", "skipped", "answered", "cut"}],
         NEW why \in {"none", "done", "error", "reload"},
         FcgiErrorFrom(c, clt[c], loop[c], gs, why)
  PROVE  IInv'
<1>1. \A j \in Ids : loop[c][j] \subseteq clt[c][j].refs
  BY DEF IInv, Inv, ClientOK, Owned
<1> QED
  BY <1>1, ErrorKeeps

LEMMA BeginKeeps ==
  ASSUME IInv, NEW c \in Conns, NEW i \in Ids, NEW keep \in BOOLEAN,
         FcgiBeginRequest(c, i, keep)
  PROVE  IInv'
<1> DEFINE g == [got[c] EXCEPT ![i] = "wait"]
           k == clt[c][i]
           new == [NoClient EXCEPT !.live = TRUE]
           f == [fcgi[c] EXCEPT !.keep = keep,
                    !.mpx = fcgi[c].mpx \/ \E j \in Ids \ {i} : Pending(c, j)]
<1>1. g \in [Ids -> {"idle", "wait", "skipped", "answered", "cut"}]
  BY DEF IInv, TypeOK
<1>2. CASE ~fcgi[c].keep
  <2>1. FcgiErrorFrom(c, clt[c], loop[c], g, "error")
    BY <1>2 DEF FcgiBeginRequest
  <2> HIDE DEF g
  <2> QED
    BY <1>1, <2>1, ConnectionError
<1>3. CASE fcgi[c].keep
  <2>1. f \in Fcgis /\ f.open = fcgi[c].open
    BY DEF IInv, TypeOK, Fcgis
  <2>2. fcgi' = [fcgi EXCEPT ![c] = f]
    BY <1>3 DEF FcgiBeginRequest, IInv, TypeOK
  <2>3. /\ k \in Clients /\ loop[c][i] \in SUBSET Resources /\ wire[c][i] \in Stages
        /\ ClientOK(k, loop[c][i], wire[c][i], got[c][i], fcgi[c].open, proxies)
    BY DEF IInv, TypeOK, Inv
  <2>4. /\ loop' = [loop EXCEPT ![c][i] = loop[c][i]]
        /\ wire' = [wire EXCEPT ![c][i] = wire[c][i]]
        /\ UNCHANGED <<proxies, sock>>
    BY <1>3 DEF FcgiBeginRequest, IInv, TypeOK
  <2>5. fcgi[c].open /\ (got[c][i] # "wait" \/ k.live)
    BY DEF FcgiBeginRequest, Pending
  <2>6. \/ /\ k.live
           /\ clt' = [clt EXCEPT ![c][i] = k]
           /\ got' = [got EXCEPT ![c][i] = got[c][i]]
        \/ /\ ~k.live
           /\ clt' = [clt EXCEPT ![c][i] = new]
           /\ got' = [got EXCEPT ![c][i] = "wait"]
        \/ /\ ~k.live
           /\ clt' = [clt EXCEPT ![c][i] = k]
           /\ got' = [got EXCEPT ![c][i] = "skipped"]
    <3>1. /\ clt = [clt EXCEPT ![c][i] = clt[c][i]]
          /\ got = [got EXCEPT ![c][i] = got[c][i]]
      BY DEF IInv, TypeOK
    <3>2. \/ clt[c][i].live /\ clt' = clt /\ got' = got
          \/ /\ ~clt[c][i].live
             /\ clt' = [clt EXCEPT ![c][i] = new]
             /\ got' = [got EXCEPT ![c][i] = "wait"]
          \/ /\ ~clt[c][i].live
             /\ clt' = clt
             /\ got' = [got EXCEPT ![c][i] = "skipped"]
      BY <1>3 DEF FcgiBeginRequest
    <3> QED
      BY <3>1, <3>2
  <2>7. got[c][i] \in {"idle", "wait", "skipped", "answered", "cut"}
    BY DEF IInv, TypeOK
  <2> HIDE DEF f, k
  <2>8. CASE /\ k.live
             /\ clt' = [clt EXCEPT ![c][i] = k]
             /\ got' = [got EXCEPT ![c][i] = got[c][i]]
    <3>1. ClientOK(k, loop[c][i], wire[c][i], got[c][i], f.open, proxies)
      BY <2>1, <2>3, <2>5 DEF ClientOK
    <3> QED
      BY <2>1, <2>2, <2>3, <2>4, <2>7, <2>8, <3>1, OneClient
  <2>9. CASE /\ ~k.live
             /\ clt' = [clt EXCEPT ![c][i] = new]
             /\ got' = [got EXCEPT ![c][i] = "wait"]
    <3>1. loop[c][i] = {} /\ wire[c][i] = "none"
      BY <2>3, <2>5, <2>9 DEF ClientOK, Driven
    <3>2. /\ new \in Clients /\ new.live /\ new.sent = "begin" /\ new.pc = None
          /\ new.refs = {} /\ ~new.headersdone /\ ~new.tpbuf /\ new.resp = "none"
      BY DEF NoClient, Clients, Resources, Stages
    <3> HIDE DEF new
    <3>3. Owned(new, {}) /\ Driven(new, {}) /\ ResponseOK(new, "none")
      BY <3>2 DEF Owned, Driven, Started, ResponseOK
    <3>4. ClientOK(new, loop[c][i], wire[c][i], "wait", f.open, proxies)
      BY <2>1, <2>5, <3>1, <3>2, <3>3 DEF ClientOK
    <3> QED
      BY <2>1, <2>2, <2>3, <2>4, <2>9, <3>2, <3>4, OneClient
  <2>10. CASE /\ ~k.live
              /\ clt' = [clt EXCEPT ![c][i] = k]
              /\ got' = [got EXCEPT ![c][i] = "skipped"]
    <3>1. ClientOK(k, loop[c][i], wire[c][i], "skipped", f.open, proxies)
      BY <2>1, <2>3, <2>5, <2>10 DEF ClientOK
    <3> QED
      BY <2>1, <2>2, <2>3, <2>4, <2>10, <3>1, OneClient
  <2> QED
    BY <2>6, <2>8, <2>9, <2>10
<1> QED
  BY <1>2, <1>3

LEMMA UnknownRoleKeeps ==
  ASSUME IInv, NEW c \in Conns, NEW i \in Ids, FcgiUnknownRole(c, i)
  PROVE  IInv'
<1> DEFINE g == [got[c] EXCEPT ![i] = "wait"]
           f == [fcgi[c] EXCEPT !.out = TRUE]
           done == /\ wire' = [wire EXCEPT ![c][i] = Extend(wire[c][i], "end")]
                   /\ fcgi' = [fcgi EXCEPT ![c].out = TRUE]
                   /\ got' = [got EXCEPT ![c][i] = "wait"]
                   /\ UNCHANGED <<proxies, sock, clt, loop>>
<1>1. g \in [Ids -> {"idle", "wait", "skipped", "answered", "cut"}]
  BY DEF IInv, TypeOK
<1>2. CASE FcgiErrorFrom(c, clt[c], loop[c], g, "error")
  <2> HIDE DEF g
  <2> QED
    BY <1>1, <1>2, ConnectionError
<1>3. CASE done
  <2>1. f \in Fcgis /\ f.open = fcgi[c].open /\ fcgi[c].open
    BY DEF IInv, TypeOK, Fcgis, FcgiUnknownRole
  <2>2. fcgi' = [fcgi EXCEPT ![c] = f]
    BY <1>3 DEF IInv, TypeOK
  <2>3. /\ clt[c][i] \in Clients /\ loop[c][i] \in SUBSET Resources
        /\ ClientOK(clt[c][i], loop[c][i], wire[c][i], got[c][i], fcgi[c].open, proxies)
    BY DEF IInv, TypeOK, Inv
  <2>4. got[c][i] # "wait"
    BY DEF FcgiUnknownRole, Pending
  <2>5. ~clt[c][i].live /\ wire[c][i] = "none"
    BY <2>3, <2>4 DEF ClientOK
  <2>6. ClientOK(clt[c][i], loop[c][i], "end", "wait", f.open, proxies)
    BY <2>1, <2>3, <2>5 DEF ClientOK
  <2>7. "end" \in Stages /\ Extend(wire[c][i], "end") = "end"
    BY <2>5 DEF Stages, Extend
  <2>8. /\ clt' = [clt EXCEPT ![c][i] = clt[c][i]]
        /\ loop' = [loop EXCEPT ![c][i] = loop[c][i]]
        /\ wire' = [wire EXCEPT ![c][i] = "end"]
        /\ got' = [got EXCEPT ![c][i] = "wait"]
        /\ UNCHANGED <<proxies, sock>>
    BY <1>3, <2>7 DEF IInv, TypeOK
  <2> HIDE DEF f
  <2> QED
    BY <2>1, <2>2, <2>3, <2>6, <2>7, <2>8, OneClient
<1> QED
  BY <1>2, <1>3 DEF FcgiUnknownRole

(* A live request that has not started holds nothing and wrote nothing.    *)
LEMMA NotStarted ==
  ASSUME IInv, NEW c \in Conns, NEW i \in Ids,
         clt[c][i].live, ~Started(clt[c][i])
  PROVE  /\ loop[c][i] = {} /\ wire[c][i] = "none"
         /\ ~clt[c][i].headersdone /\ clt[c][i].resp = "none" /\ ~clt[c][i].tpbuf
         /\ Owned(clt[c][i], {})
         /\ clt[c][i].pc # None => clt[c][i].pc \in proxies
         /\ got[c][i] = "wait" /\ fcgi[c].open
<1>1. ClientOK(clt[c][i], loop[c][i], wire[c][i], got[c][i], fcgi[c].open, proxies)
  BY DEF IInv, Inv
<1>2. loop[c][i] = {}
  BY <1>1 DEF ClientOK, Driven
<1>3. ~clt[c][i].headersdone /\ ResponseOK(clt[c][i], wire[c][i])
  BY <1>1, <1>2 DEF ClientOK
<1> QED
  BY <1>1, <1>2, <1>3 DEF ClientOK, ResponseOK

(* It stays so while only what the web server sent changes.                *)
LEMMA SentKeeps ==
  ASSUME IInv, NEW c \in Conns, NEW i \in Ids,
         clt[c][i].live, ~Started(clt[c][i]),
         NEW k \in Clients, ~Started(k),
         k.live, k.refs = clt[c][i].refs, k.pc = clt[c][i].pc,
         k.headersdone = clt[c][i].headersdone, k.resp = clt[c][i].resp,
         k.tpbuf = clt[c][i].tpbuf,
         Continue(c, i, k, loop[c][i], wire[c][i])
  PROVE  IInv'
<1>1. /\ loop[c][i] = {} /\ wire[c][i] = "none"
      /\ ~k.headersdone /\ k.resp = "none" /\ ~k.tpbuf /\ Owned(k, {})
      /\ k.pc # None => k.pc \in proxies
      /\ got[c][i] = "wait" /\ fcgi[c].open
  BY NotStarted DEF Owned
<1>2. Driven(k, {}) /\ ResponseOK(k, "none")
  BY <1>1 DEF Driven, ResponseOK
<1>3. ClientOK(k, loop[c][i], wire[c][i], got[c][i], fcgi[c].open, proxies)
  BY <1>1, <1>2 DEF ClientOK
<1>4. wire[c][i] \in Stages /\ loop[c][i] \in SUBSET Resources
  BY DEF IInv, TypeOK
<1> QED
  BY <1>3, <1>4, ContinueKeeps

LEMMA ParamsKeeps ==
  ASSUME IInv, NEW c \in Conns, NEW i \in Ids, FcgiParams(c, i)
  PROVE  IInv'
<1> DEFINE k == clt[c][i]
<1>1. k \in Clients /\ k.live /\ k.sent = "begin"
  BY DEF FcgiParams, IInv, TypeOK
<1>2. PICK m \in {k.method, "GET", "POST"}, p \in {k.path, TRUE}, s \in {k.server} \cup Hosts :
         Continue(c, i, [k EXCEPT !.method = m, !.path = p, !.server = s],
                  loop[c][i], wire[c][i])
  BY DEF FcgiParams
<1> DEFINE n == [k EXCEPT !.method = m, !.path = p, !.server = s]
<1>3. /\ n \in Clients /\ n.live /\ n.sent = "begin" /\ n.refs = k.refs /\ n.pc = k.pc
      /\ n.headersdone = k.headersdone /\ n.resp = k.resp /\ n.tpbuf = k.tpbuf
  BY <1>1 DEF Clients
<1> HIDE DEF n
<1>4. ~Started(k) /\ ~Started(n)
  BY <1>1, <1>3 DEF Started
<1>5. Continue(c, i, n, loop[c][i], wire[c][i])
  BY <1>2 DEF n
<1> QED
  BY <1>1, <1>3, <1>4, <1>5, SentKeeps

LEMMA ParamsEndKeeps ==
  ASSUME IInv, NEW c \in Conns, NEW i \in Ids, FcgiParamsEnd(c, i)
  PROVE  IInv'
<1> DEFINE n == [clt[c][i] EXCEPT !.sent = "params"]
<1>1. clt[c][i] \in Clients
  BY DEF IInv, TypeOK
<1>2. /\ n \in Clients /\ n.live = clt[c][i].live /\ n.sent = "params"
      /\ n.method = clt[c][i].method /\ n.refs = clt[c][i].refs /\ n.pc = clt[c][i].pc
      /\ n.headersdone = clt[c][i].headersdone /\ n.resp = clt[c][i].resp
      /\ n.tpbuf = clt[c][i].tpbuf
  BY <1>1 DEF Clients
<1>3. /\ n.live /\ clt[c][i].sent = "begin"
      /\ \/ n.method = "GET" /\ ProxyStartRequest(c, i, n)
         \/ n.method # "GET" /\ Continue(c, i, n, loop[c][i], wire[c][i])
  BY DEF FcgiParamsEnd
<1> HIDE DEF n
<1>4. clt[c][i].live /\ ~Started(clt[c][i])
  BY <1>2, <1>3 DEF Started
<1>5. CASE n.method = "GET" /\ ProxyStartRequest(c, i, n)
  <2>1. Started(n) /\ Owned(n, {})
    BY <1>2, <1>4, <1>5, NotStarted DEF Started, Owned
  <2> QED
    BY <1>2, <1>3, <1>4, <1>5, <2>1, NotStarted, StartKeeps
<1>6. CASE n.method # "GET" /\ Continue(c, i, n, loop[c][i], wire[c][i])
  <2>1. ~Started(n)
    BY <1>2, <1>6 DEF Started
  <2> QED
    BY <1>2, <1>3, <1>4, <1>6, <2>1, SentKeeps
<1> QED
  BY <1>3, <1>5, <1>6

LEMMA StdinKeeps ==
  ASSUME IInv, NEW c \in Conns, NEW i \in Ids, FcgiStdin(c, i)
  PROVE  IInv'
<1> DEFINE k == clt[c][i]
<1>1. k \in Clients /\ k.live /\ k.sent = "params" /\ k.method = "POST"
  BY DEF FcgiStdin, IInv, TypeOK
<1>2. k.body \in {"none", "query", "lost"}
  BY <1>1 DEF Clients
<1>3. PICK b \in {"none", "query", "lost"} :
         Continue(c, i, [k EXCEPT !.body = b], loop[c][i], wire[c][i])
  BY <1>2 DEF FcgiStdin
<1> DEFINE n == [k EXCEPT !.body = b]
<1>4. /\ n \in Clients /\ n.live /\ n.sent = "params" /\ n.method = "POST"
      /\ n.refs = k.refs /\ n.pc = k.pc
      /\ n.headersdone = k.headersdone /\ n.resp = k.resp /\ n.tpbuf = k.tpbuf
  BY <1>1 DEF Clients
<1> HIDE DEF n
<1>5. ~Started(k) /\ ~Started(n)
  BY <1>1, <1>4 DEF Started
<1>6. Continue(c, i, n, loop[c][i], wire[c][i])
  BY <1>3 DEF n
<1> QED
  BY <1>1, <1>4, <1>5, <1>6, SentKeeps

LEMMA StdinEndKeeps ==
  ASSUME IInv, NEW c \in Conns, NEW i \in Ids, FcgiStdinEnd(c, i)
  PROVE  IInv'
<1> DEFINE k == clt[c][i]
           n == [k EXCEPT !.sent = "all"]
<1>1. /\ k \in Clients /\ wire[c][i] \in Stages /\ loop[c][i] \in SUBSET Resources
      /\ ClientOK(k, loop[c][i], wire[c][i], got[c][i], fcgi[c].open, proxies)
  BY DEF IInv, TypeOK, Inv
<1>2. /\ n \in Clients /\ n.live = k.live /\ n.sent = "all"
      /\ n.method = k.method /\ n.refs = k.refs /\ n.pc = k.pc
      /\ n.headersdone = k.headersdone /\ n.resp = k.resp /\ n.tpbuf = k.tpbuf
      /\ n.translate = k.translate
  BY <1>1 DEF Clients
<1>3. /\ n.live /\ k.sent = "params"
      /\ \/ n.method = "POST" /\ ProxyStartRequest(c, i, n)
         \/ n.method # "POST" /\ Continue(c, i, n, loop[c][i], wire[c][i])
  BY DEF FcgiStdinEnd
<1> HIDE DEF n
<1>4. CASE n.method = "POST" /\ ProxyStartRequest(c, i, n)
  <2>1. k.live /\ ~Started(k) /\ Started(n)
    BY <1>2, <1>3, <1>4 DEF Started
  <2>2. Owned(n, {})
    BY <1>2, <2>1, NotStarted DEF Owned
  <2> QED
    BY <1>2, <1>3, <1>4, <2>1, <2>2, NotStarted, StartKeeps
<1>5. CASE n.method # "POST" /\ Continue(c, i, n, loop[c][i], wire[c][i])
  <2>1. Started(n) <=> Started(k)
    BY <1>2, <1>3, <1>5 DEF Started
  <2> HIDE DEF k
  <2>2. Owned(n, loop[c][i]) /\ Driven(n, loop[c][i]) /\ ResponseOK(n, wire[c][i])
    BY <1>1, <1>2, <1>3, <2>1 DEF ClientOK, Owned, Driven, ResponseOK
  <2>3. ClientOK(n, loop[c][i], wire[c][i], got[c][i], fcgi[c].open, proxies)
    BY <1>1, <1>2, <1>3, <2>2 DEF ClientOK
  <2> QED
    BY <1>1, <1>2, <1>5, <2>3, ContinueKeeps
<1> QED
  BY <1>3, <1>4, <1>5

LEMMA AbortKeeps ==
  ASSUME IInv, NEW c \in Conns, NEW i \in Ids, FcgiAbortRequest(c, i)
  PROVE  IInv'
<1>1. /\ clt[c][i] \in Clients
      /\ ClientOK(clt[c][i], loop[c][i], wire[c][i], got[c][i], fcgi[c].open, proxies)
  BY DEF IInv, TypeOK, Inv
<1>2. clt[c][i].live /\ EndRequest(c, i, clt[c][i], loop[c][i])
  BY DEF FcgiAbortRequest
<1>3. /\ ResponseOK(clt[c][i], wire[c][i]) /\ loop[c][i] \subseteq clt[c][i].refs
      /\ got[c][i] = "wait" /\ fcgi[c].open
  BY <1>1, <1>2 DEF ClientOK, Owned
<1> QED
  BY <1>1, <1>2, <1>3, EndAsIsKeeps

LEMMA AcceptKeeps ==
  ASSUME IInv, NEW c \in Conns, FcgiAccept(c)
  PROVE  IInv'
<1>1. [Closed("none") EXCEPT !.open = TRUE, !.keep = TRUE] \in Fcgis
  BY DEF Closed, Fcgis
<1>2. TypeOK'
  BY <1>1 DEF IInv, TypeOK, FcgiAccept
<1>3. ASSUME NEW d \in Conns, NEW j \in Ids
      PROVE  ClientOK(clt'[d][j], loop'[d][j], wire'[d][j], got'[d][j],
                      fcgi'[d].open, proxies')
  <2>1. ClientOK(clt[d][j], loop[d][j], wire[d][j], got[d][j], fcgi[d].open, proxies)
    BY DEF IInv, Inv
  <2>2. /\ clt'[d][j] = clt[d][j] /\ loop'[d][j] = loop[d][j]
        /\ wire'[d][j] = wire[d][j] /\ proxies' = proxies
    BY DEF FcgiAccept
  <2>3. CASE d = c
    <3>1. ~fcgi[d].open
      BY <2>3 DEF FcgiAccept
    <3>2. ~clt[d][j].live /\ wire[d][j] = "none"
      BY <2>1, <3>1 DEF ClientOK
    <3> QED
      BY <2>1, <2>2, <3>2 DEF ClientOK
  <2>4. CASE d # c
    <3>1. got'[d][j] = got[d][j] /\ fcgi'[d] = fcgi[d]
      BY <2>4 DEF FcgiAccept, IInv, TypeOK
    <3> QED
      BY <2>1, <2>2, <3>1
  <2> QED
    BY <2>3, <2>4
<1> QED
  BY <1>2, <1>3 DEF IInv, Inv

LEMMA WriteKeeps ==
  ASSUME IInv, NEW c \in Conns, FcgiWrite(c)
  PROVE  IInv'
<1> DEFINE seen == [j \in Ids |-> IF wire[c][j] = "end" THEN "answered" ELSE got[c][j]]
           rest == [j \in Ids |-> IF wire[c][j] = "end" THEN "none" ELSE wire[c][j]]
<1>1. seen \in [Ids -> {"idle", "wait", "skipped", "answered", "cut"}] /\ rest \in [Ids -> Stages]
  BY DEF IInv, TypeOK, Stages
<1>2. CASE fcgi[c].done
  <2>1. FcgiErrorFrom(c, clt[c], loop[c], seen, "done")
    BY <1>2 DEF FcgiWrite
  <2> HIDE DEF seen
  <2> QED
    BY <1>1, <2>1, ConnectionError
<1>3. CASE ~fcgi[c].done
  <2>1. /\ fcgi' = [fcgi EXCEPT ![c].out = FALSE]
        /\ got' = [got EXCEPT ![c] = seen]
        /\ wire' = [wire EXCEPT ![c] = rest]
        /\ UNCHANGED <<proxies, sock, clt, loop>>
    BY <1>3 DEF FcgiWrite
  <2>2. [fcgi[c] EXCEPT !.out = FALSE] \in Fcgis
    BY DEF IInv, TypeOK, Fcgis
  <2>3. TypeOK'
    BY <1>1, <2>1, <2>2 DEF IInv, TypeOK
  <2>4. ASSUME NEW d \in Conns, NEW j \in Ids
        PROVE  ClientOK(clt'[d][j], loop'[d][j], wire'[d][j], got'[d][j],
                        fcgi'[d].open, proxies')
    <3>1. ClientOK(clt[d][j], loop[d][j], wire[d][j], got[d][j], fcgi[d].open, proxies)
      BY DEF IInv, Inv
    <3>2. /\ clt'[d][j] = clt[d][j] /\ loop'[d][j] = loop[d][j] /\ proxies' = proxies
          /\ fcgi'[d].open = fcgi[d].open
      BY <2>1 DEF IInv, TypeOK, Fcgis
    <3>3. CASE d = c /\ wire[d][j] = "end"
      <4>1. wire'[d][j] = "none"
        BY <2>1, <3>3 DEF IInv, TypeOK
      <4>2. ~clt[d][j].live
        BY <3>1, <3>3 DEF ClientOK, ResponseOK
      <4> QED
        BY <3>1, <3>2, <4>1, <4>2 DEF ClientOK
    <3>4. CASE ~(d = c /\ wire[d][j] = "end")
      <4>1. wire'[d][j] = wire[d][j] /\ got'[d][j] = got[d][j]
        BY <2>1, <3>4 DEF IInv, TypeOK
      <4> QED
        BY <3>1, <3>2, <4>1
    <3> QED
      BY <3>3, <3>4
  <2> QED
    BY <2>3, <2>4 DEF IInv, Inv
<1> QED
  BY <1>2, <1>3

-----------------------------------------------------------------------------
(* The configuration.                                                      *)

LEMMA GetProxyKeeps ==
  ASSUME IInv, NEW s \in Hosts, ConfigGetProxy(s)
  PROVE  IInv'
<1>1. TypeOK'
  BY DEF IInv, TypeOK, ConfigGetProxy
<1>2. ASSUME NEW c \in Conns, NEW i \in Ids
      PROVE  ClientOK(clt[c][i], loop[c][i], wire[c][i], got[c][i], fcgi[c].open, proxies')
  <2>1. ClientOK(clt[c][i], loop[c][i], wire[c][i], got[c][i], fcgi[c].open, proxies)
    BY DEF IInv, Inv
  <2>2. clt[c][i].pc \in proxies => clt[c][i].pc \in proxies'
    BY DEF ConfigGetProxy
  <2> QED
    BY <2>1, <2>2 DEF ClientOK
<1> QED
  BY <1>1, <1>2 DEF IInv, Inv, ConfigGetProxy

LEMMA PurgeKeeps ==
  ASSUME IInv, ConfigPurge
  PROVE  IInv'
<1>1. \A c \in Conns, j \in Ids : ProxyClientFree(clt[c][j], loop[c][j]) = {}
  BY DEF IInv, Inv, ClientOK, Owned, ProxyClientFree
<1>2. loop' = [c \in Conns |-> [j \in Ids |-> {}]]
  BY <1>1 DEF ConfigPurge
<1>3. Closed("reload") \in Fcgis
  BY DEF Closed, Fcgis
<1>4. TypeOK'
  <2>1. fcgi' \in [Conns -> Fcgis]
    BY <1>3 DEF IInv, TypeOK, ConfigPurge
  <2>2. clt' \in [Conns -> [Ids -> Clients]]
    BY NoClientType DEF ConfigPurge
  <2>3. loop' \in [Conns -> [Ids -> SUBSET Resources]]
    BY <1>2
  <2>4. wire' \in [Conns -> [Ids -> Stages]]
    BY DEF ConfigPurge, Stages
  <2>5. got' \in [Conns -> [Ids -> {"idle", "wait", "skipped", "answered", "cut"}]]
    BY DEF IInv, TypeOK, ConfigPurge
  <2>6. proxies' \subseteq Hosts /\ sock' \in {"closed", "set", "on"}
    BY DEF ConfigPurge
  <2> QED
    BY <2>1, <2>2, <2>3, <2>4, <2>5, <2>6 DEF TypeOK
<1>5. ASSUME NEW c \in Conns, NEW i \in Ids
      PROVE  ClientOK(clt'[c][i], loop'[c][i], wire'[c][i], got'[c][i],
                      fcgi'[c].open, proxies')
  <2>1. clt'[c][i] = NoClient /\ loop'[c][i] = {} /\ wire'[c][i] = "none"
    BY <1>2 DEF ConfigPurge
  <2> QED
    BY <2>1, NoClientOK
<1> QED
  BY <1>4, <1>5 DEF IInv, Inv

LEMMA SockKeeps == IInv /\ (ConfigGetSock \/ ConfigDone) => IInv'
  BY DEF IInv, TypeOK, Inv, ConfigGetSock, ConfigDone

LEMMA StutterKeeps == IInv /\ UNCHANGED vars => IInv'
  BY DEF IInv, TypeOK, Inv, vars

-----------------------------------------------------------------------------
LEMMA NextIInv == IInv /\ [Next]_vars => IInv'
<1> SUFFICES ASSUME IInv, [Next]_vars PROVE IInv'
  OBVIOUS
<1>1. CASE Configuration
  BY <1>1, GetProxyKeeps, SockKeeps, PurgeKeeps DEF Configuration
<1>2. ASSUME NEW c \in Conns, Connection(c) PROVE IInv'
  <2>1. CASE FcgiFailure(c)
    <3>1. got[c] \in [Ids -> {"idle", "wait", "skipped", "answered", "cut"}]
      BY DEF IInv, TypeOK
    <3> QED
      BY <2>1, <3>1, ConnectionError DEF FcgiFailure, FcgiError
  <2> QED
    BY <1>2, <2>1, AcceptKeeps, WriteKeeps DEF Connection
<1>3. ASSUME NEW c \in Conns, NEW i \in Ids, Record(c, i) PROVE IInv'
  BY <1>3, BeginKeeps, UnknownRoleKeeps, ParamsKeeps, ParamsEndKeeps,
     StdinKeeps, StdinEndKeeps, AbortKeeps DEF Record
<1>4. ASSUME NEW c \in Conns, NEW i \in Ids, Upstream(c, i) PROVE IInv'
  BY <1>4, ResolvedKeeps, ConnectKeeps, ReadKeeps, ProxyErrorKeeps DEF Upstream
<1> QED
  BY <1>1, <1>2, <1>3, <1>4, StutterKeeps DEF Next

LEMMA AlwaysIInv == Spec => []IInv
  BY InitIInv, NextIInv, PTL DEF Spec

(* The state of a proxy process keeps its type.                            *)
THEOREM TypeCorrect == Spec => []TypeOK
  BY AlwaysIInv, PTL DEF IInv

(* proxy_client_free releases all that is held for a request and nothing   *)
(* twice, whichever callback, record or error ends the request.            *)
THEOREM Ownership == Spec => []ResourcesOwned
<1>1. IInv => ResourcesOwned
  BY DEF IInv, Inv, ClientOK, ResourcesOwned
<1> QED
  BY <1>1, AlwaysIInv, PTL

(* A request that has started is called back by exactly one of the         *)
(* resolver, the connect event and the upstream bufferevent; one that has  *)
(* not started by none.                                                    *)
THEOREM SingleDriver == Spec => []OneDriver
<1>1. IInv => OneDriver
  BY DEF IInv, Inv, ClientOK, OneDriver
<1> QED
  BY <1>1, AlwaysIInv, PTL

(* Every response reaches fcg_bev as one header, the body and one end.     *)
THEOREM OrderedResponses == Spec => []ResponseInOrder
<1>1. IInv => ResponseInOrder
  BY DEF IInv, Inv, ClientOK, ResponseOK, ResponseInOrder
<1> QED
  BY <1>1, AlwaysIInv, PTL

(* A client that holds anything refers to a proxy block, and only to one   *)
(* that is loaded: a reload leaves no dangling clt_pc.                     *)
THEOREM ConfigOutlives == Spec => []ConfigAlive
<1>1. IInv => ConfigAlive
  BY DEF IInv, Inv, ClientOK, ConfigAlive
<1> QED
  BY <1>1, AlwaysIInv, PTL

-----------------------------------------------------------------------------
(***************************************************************************)
(* What becomes of the requests of a connection.  The facts about single   *)
(* requests are those above; here the flags of a connection are related to *)
(* all of its requests.                                                    *)
(***************************************************************************)

(* A connection f with the clients ks, of which the web server knows gs.   *)
(* fcg_done is set when a request ends while fcg_keep_conn is not, and     *)
(* from then on every FCGI_BEGIN_REQUEST is refused; so if there were      *)
(* never two requests at once, there is none any more.                     *)
ConnOK(f, ks, gs) ==
    /\ f.done => ~f.keep
    /\ ~f.mpx => \A i, j \in Ids : ks[i].live /\ ks[j].live => i = j
    /\ f.done /\ ~f.mpx => \A i \in Ids : ~ks[i].live
    /\ f.open => \A i \in Ids : gs[i] # "cut"

ConnsOK == \A c \in Conns : ConnOK(fcgi[c], clt[c], got[c])

AInv == NoneForgotten /\ DoneCutsNone /\ ConnsOK

LEMMA InitAInv == Init => AInv
<1> SUFFICES ASSUME Init, NEW c \in Conns
             PROVE  /\ fcgi[c] = Closed("none")
                    /\ \A i \in Ids : clt[c][i] = NoClient /\ got[c][i] = "idle"
                    /\ ConnOK(fcgi[c], clt[c], got[c])
  BY DEF AInv, NoneForgotten, DoneCutsNone, ConnsOK
<1>1. fcgi[c] = Closed("none") /\ \A i \in Ids : clt[c][i] = NoClient /\ got[c][i] = "idle"
  BY DEF Init
<1>2. ~NoClient.live
  BY DEF NoClient
<1>3. /\ ~Closed("none").open /\ ~Closed("none").keep /\ ~Closed("none").done
  BY DEF Closed
<1>4. ConnOK(fcgi[c], clt[c], got[c])
  BY <1>1, <1>2, <1>3 DEF ConnOK
<1> QED
  BY <1>1, <1>4

-----------------------------------------------------------------------------
(* The effects actions are made of.                                        *)

(* One request goes on: it stays alive, and output is only added.          *)
LEMMA GoesOn ==
  ASSUME IInv, AInv, NEW c \in Conns, NEW i \in Ids, clt[c][i].live,
         NEW k, NEW w, NEW b \in BOOLEAN, k.live, fcgi[c].out => b,
         clt' = [clt EXCEPT ![c][i] = k],
         wire' = [wire EXCEPT ![c][i] = w],
         fcgi' = [fcgi EXCEPT ![c].out = b],
         got' = got
  PROVE  AInv'
<1>1. ASSUME NEW d \in Conns
      PROVE  /\ fcgi'[d].open = fcgi[d].open /\ fcgi'[d].done = fcgi[d].done
             /\ fcgi'[d].keep = fcgi[d].keep /\ fcgi'[d].mpx = fcgi[d].mpx
             /\ fcgi'[d].why = fcgi[d].why
             /\ fcgi[d].out => fcgi'[d].out
  BY DEF IInv, TypeOK, Fcgis
<1>2. ASSUME NEW d \in Conns, NEW j \in Ids
      PROVE  clt'[d][j].live <=> clt[d][j].live
  BY DEF IInv, TypeOK
<1>3. ASSUME NEW d \in Conns, NEW j \in Ids, ~clt[d][j].live
      PROVE  wire'[d][j] = wire[d][j]
  BY <1>3 DEF IInv, TypeOK
<1>4. NoneForgotten'
  BY <1>1, <1>2, <1>3 DEF AInv, NoneForgotten
<1>5. DoneCutsNone'
  BY <1>1 DEF AInv, DoneCutsNone
<1>6. ConnsOK'
  BY <1>1, <1>2 DEF AInv, ConnsOK, ConnOK
<1> QED
  BY <1>4, <1>5, <1>6 DEF AInv

(* A request that something will call back is alive.                       *)
LEMMA HeldLives ==
  ASSUME IInv, NEW c \in Conns, NEW i \in Ids, loop[c][i] # {}
  PROVE  clt[c][i].live
  BY DEF IInv, Inv, ClientOK, Driven

LEMMA ContinueAnswers ==
  ASSUME IInv, IInv', AInv, NEW c \in Conns, NEW i \in Ids, clt[c][i].live,
         NEW k, NEW h, NEW w, k.live \/ h # {},
         Continue(c, i, k, h, w)
  PROVE  AInv'
<1> DEFINE b == fcgi[c].out \/ w # wire[c][i]
<1>1. clt'[c][i] = k /\ loop'[c][i] = h
  BY DEF Continue, IInv, TypeOK
<1>2. h # {} => k.live
  BY <1>1 DEF IInv, Inv, ClientOK, Driven
<1>3. fcgi' = [fcgi EXCEPT ![c].out = b]
  BY DEF Continue, IInv, TypeOK
<1>4. b \in BOOLEAN /\ (fcgi[c].out => b)
  BY DEF IInv, TypeOK, Fcgis
<1> HIDE DEF b
<1> QED
  BY <1>2, <1>3, <1>4, GoesOn DEF Continue

LEMMA EmitAnswers ==
  ASSUME IInv, IInv', AInv, NEW c \in Conns, NEW i \in Ids, clt[c][i].live,
         NEW k, NEW h, h # {},
         Emit(c, i, k, h)
  PROVE  AInv'
<1>1. clt'[c][i] = k /\ loop'[c][i] = h
  BY DEF Emit, IInv, TypeOK
<1>2. k.live
  BY <1>1 DEF IInv, Inv, ClientOK, Driven
<1> QED
  BY <1>2, GoesOn DEF Emit

(* fcgi_error: nobody waits any more.  If it is called because the         *)
(* connection is done, nobody may have.                                    *)
LEMMA ErrorAnswers ==
  ASSUME IInv, AInv, NEW c \in Conns, NEW ks, NEW hs, NEW gs,
         NEW why \in {"none", "done", "error", "reload"},
         why = "done" /\ ~fcgi[c].mpx => \A j \in Ids : gs[j] \notin {"wait", "cut"},
         FcgiErrorFrom(c, ks, hs, gs, why)
  PROVE  AInv'
<1>1. /\ ~fcgi'[c].open /\ ~fcgi'[c].done /\ fcgi'[c].why = why
      /\ fcgi'[c].mpx = fcgi[c].mpx
  BY DEF FcgiErrorFrom, Closed, IInv, TypeOK
<1>2. \A j \in Ids : /\ clt'[c][j] = NoClient
                     /\ got'[c][j] = IF gs[j] = "wait" THEN "cut" ELSE gs[j]
  BY DEF FcgiErrorFrom, IInv, TypeOK
<1>3. \A d \in Conns \ {c} : /\ fcgi'[d] = fcgi[d] /\ clt'[d] = clt[d]
                             /\ wire'[d] = wire[d] /\ got'[d] = got[d]
  BY DEF FcgiErrorFrom, IInv, TypeOK
<1>4. NoneForgotten'
  <2> SUFFICES ASSUME NEW d \in Conns, NEW j \in Ids, got'[d][j] = "wait"
               PROVE  /\ fcgi'[d].open
                      /\ clt'[d][j].live \/ (wire'[d][j] = "end" /\ fcgi'[d].out)
    BY DEF NoneForgotten
  <2>1. d # c
    BY <1>2
  <2>2. /\ fcgi'[d] = fcgi[d] /\ clt'[d] = clt[d] /\ wire'[d] = wire[d] /\ got'[d] = got[d]
    BY <1>3, <2>1
  <2>3. got[d][j] = "wait"
    BY <2>2
  <2> QED
    BY <2>2, <2>3 DEF AInv, NoneForgotten
<1>5. DoneCutsNone'
  BY <1>1, <1>2, <1>3 DEF AInv, DoneCutsNone
<1>6. ~NoClient.live
  BY DEF NoClient
<1>7. ConnOK(fcgi'[c], clt'[c], got'[c])
  BY <1>1, <1>2, <1>6 DEF ConnOK
<1>8. ConnsOK'
  BY <1>3, <1>7 DEF AInv, ConnsOK
<1> QED
  BY <1>4, <1>5, <1>8 DEF AInv

(* end_request of the client of request i: END_REQUEST is queued.          *)
LEMMA EndAnswers ==
  ASSUME IInv, IInv', AInv, NEW c \in Conns, NEW i \in Ids, clt[c][i].live,
         NEW k, NEW h, EndRequest(c, i, k, h)
  PROVE  AInv'
<1>1. CASE WriteFails(c, i, k, h)
  BY <1>1, ErrorAnswers DEF WriteFails
<1>2. CASE /\ wire' = [wire EXCEPT ![c][i] = Extend(Flushed(k, wire[c][i]), "end")]
           /\ clt' = [clt EXCEPT ![c][i] = NoClient]
           /\ fcgi' = [fcgi EXCEPT ![c].out = TRUE,
                                   ![c].done = fcgi[c].done \/ ~fcgi[c].keep]
           /\ got' = got
  <2>0. got' = got
    BY <1>2
  <2>1. /\ fcgi'[c].open = fcgi[c].open /\ fcgi'[c].keep = fcgi[c].keep
        /\ fcgi'[c].mpx = fcgi[c].mpx /\ fcgi'[c].why = fcgi[c].why
        /\ fcgi'[c].out /\ fcgi'[c].done = (fcgi[c].done \/ ~fcgi[c].keep)
    BY <1>2 DEF IInv, TypeOK, Fcgis
  <2>2. ~clt'[c][i].live
    BY <1>2 DEF IInv, TypeOK, NoClient
  <2>3. wire'[c][i] = "end"
    <3>1. wire'[c][i] \in {"none", "end"}
      BY <2>2 DEF IInv, Inv, ClientOK
    <3>2. wire'[c][i] \in {"end", "bad"}
      BY <1>2 DEF Extend, IInv, TypeOK
    <3> QED
      BY <3>1, <3>2
  <2>4. \A j \in Ids \ {i} : clt'[c][j] = clt[c][j] /\ wire'[c][j] = wire[c][j]
    BY <1>2 DEF IInv, TypeOK
  <2>5. \A d \in Conns \ {c} : /\ fcgi'[d] = fcgi[d] /\ clt'[d] = clt[d]
                               /\ wire'[d] = wire[d] /\ got'[d] = got[d]
    BY <1>2 DEF IInv, TypeOK
  <2>6. fcgi[c].open
    BY DEF IInv, Inv, ClientOK
  <2>7. NoneForgotten'
    <3> SUFFICES ASSUME NEW d \in Conns, NEW j \in Ids, got'[d][j] = "wait"
                 PROVE  /\ fcgi'[d].open
                        /\ clt'[d][j].live \/ (wire'[d][j] = "end" /\ fcgi'[d].out)
      BY DEF NoneForgotten
    <3>1. fcgi[d].open /\ (clt[d][j].live \/ (wire[d][j] = "end" /\ fcgi[d].out))
      BY <2>0 DEF AInv, NoneForgotten
    <3>2. CASE d = c /\ j = i
      BY <2>1, <2>3, <2>6, <3>2
    <3>3. CASE d = c /\ j # i
      BY <2>1, <2>4, <2>6, <3>1, <3>3
    <3>4. CASE d # c
      BY <2>5, <3>1, <3>4
    <3> QED
      BY <3>2, <3>3, <3>4
  <2>8. DoneCutsNone'
    BY <2>0, <2>1, <2>5, <2>6 DEF AInv, DoneCutsNone
  <2>9. ConnOK(fcgi[c], clt[c], got[c])
    BY DEF AInv, ConnsOK
  <2>10. ~fcgi[c].mpx => \A j \in Ids : ~clt'[c][j].live
    BY <2>2, <2>4, <2>9 DEF ConnOK
  <2>11. fcgi'[c].done => ~fcgi'[c].keep
    BY <2>1, <2>9 DEF ConnOK
  <2>12. ConnOK(fcgi'[c], clt'[c], got'[c])
    BY <2>0, <2>1, <2>9, <2>10, <2>11 DEF ConnOK
  <2>13. ConnsOK'
    BY <2>5, <2>12 DEF AInv, ConnsOK
  <2> QED
    BY <2>7, <2>8, <2>13 DEF AInv
<1> QED
  BY <1>1, <1>2 DEF EndRequest

-----------------------------------------------------------------------------
(* The upstream side: whatever a callback does, the request goes on with   *)
(* something held for it, or ends, or takes the connection with it.        *)

LEMMA StartAnswers ==
  ASSUME IInv, IInv', AInv, NEW c \in Conns, NEW i \in Ids, clt[c][i].live,
         NEW k, ProxyStartRequest(c, i, k)
  PROVE  AInv'
<1>1. loop[c][i] \cup {"evasr"} # {}
  OBVIOUS
<1> QED
  BY <1>1, EndAnswers, ContinueAnswers DEF ProxyStartRequest

LEMMA ConnectedAnswers ==
  ASSUME IInv, IInv', AInv, NEW c \in Conns, NEW i \in Ids, clt[c][i].live,
         NEW k, NEW h, ProxyConnected(c, i, k, h)
  PROVE  AInv'
<1>1. \A tls : (h \ {"addrinfo"}) \cup {"bev"} \cup tls # {}
  OBVIOUS
<1> QED
  BY <1>1, EndAnswers, ContinueAnswers DEF ProxyConnected

LEMMA ResolvedAnswers ==
  ASSUME IInv, IInv', AInv, NEW c \in Conns, NEW i \in Ids, ProxyResolved(c, i)
  PROVE  AInv'
<1>1. clt[c][i].live
  BY HeldLives DEF ProxyResolved
<1>2. ASSUME NEW k, NEW h, ProxyConnectFirst(c, i, k, h) PROVE AInv'
  <2>1. h \cup {"fd", "evconn"} # {}
    OBVIOUS
  <2> QED
    BY <1>1, <1>2, <2>1, EndAnswers, ConnectedAnswers, ContinueAnswers DEF ProxyConnectFirst
<1> QED
  BY <1>1, <1>2, EndAnswers DEF ProxyResolved

LEMMA ConnectAnswers ==
  ASSUME IInv, IInv', AInv, NEW c \in Conns, NEW i \in Ids, ProxyConnect(c, i)
  PROVE  AInv'
  BY HeldLives, EndAnswers, ConnectedAnswers DEF ProxyConnect

LEMMA ReadAnswers ==
  ASSUME IInv, IInv', AInv, NEW c \in Conns, NEW i \in Ids, ProxyRead(c, i)
  PROVE  AInv'
<1>1. loop[c][i] # {} /\ clt[c][i].live
  BY HeldLives DEF ProxyRead
<1>2. ASSUME NEW k, NEW w, ProxyReadBody(c, i, k, w) PROVE AInv'
  <2>1. CASE \E n : Continue(c, i, n, loop[c][i], w)
    BY <1>1, <2>1, ContinueAnswers
  <2>2. CASE \E n : Emit(c, i, n, loop[c][i])
    BY <1>1, <2>2, EmitAnswers
  <2>3. CASE WriteFails(c, i, k, loop[c][i])
    BY <2>3, ErrorAnswers DEF WriteFails
  <2> QED
    BY <1>2, <2>1, <2>2, <2>3 DEF ProxyReadBody
<1>3. ASSUME NEW k, ProxyReadHeader(c, i, k) PROVE AInv'
  BY <1>1, <1>2, <1>3, EndAnswers DEF ProxyReadHeader
<1> QED
  BY <1>2, <1>3 DEF ProxyRead

LEMMA ProxyErrorAnswers ==
  ASSUME IInv, IInv', AInv, NEW c \in Conns, NEW i \in Ids, NEW eof,
         ProxyError(c, i, eof)
  PROVE  AInv'
  BY HeldLives, EndAnswers DEF ProxyError

-----------------------------------------------------------------------------
(* The FastCGI side.                                                       *)

(* A BEGIN_REQUEST that is refused takes the connection with it.  One that *)
(* is accepted finds fcg_keep_conn set, so that the connection is not      *)
(* done, and another live request is noticed in mpx.                       *)
LEMMA BeginAnswers ==
  ASSUME IInv, AInv, NEW c \in Conns, NEW i \in Ids, NEW keep \in BOOLEAN,
         FcgiBeginRequest(c, i, keep)
  PROVE  AInv'
<1> DEFINE two == \E j \in Ids \ {i} : Pending(c, j)
<1>1. CASE ~fcgi[c].keep
  BY <1>1, ErrorAnswers DEF FcgiBeginRequest
<1>2. CASE fcgi[c].keep
  <2>1. /\ fcgi' = [fcgi EXCEPT ![c].keep = keep, ![c].mpx = fcgi[c].mpx \/ two]
        /\ wire' = wire
        /\ \/ /\ clt[c][i].live
              /\ clt' = clt /\ got' = got
           \/ /\ ~clt[c][i].live
              /\ clt' = [clt EXCEPT ![c][i] = [NoClient EXCEPT !.live = TRUE]]
              /\ got' = [got EXCEPT ![c][i] = "wait"]
           \/ /\ ~clt[c][i].live
              /\ clt' = clt
              /\ got' = [got EXCEPT ![c][i] = "skipped"]
    BY <1>2 DEF FcgiBeginRequest
  <2> HIDE DEF two
  <2>2. /\ fcgi'[c].open = fcgi[c].open /\ fcgi'[c].done = fcgi[c].done
        /\ fcgi'[c].out = fcgi[c].out /\ fcgi'[c].mpx = (fcgi[c].mpx \/ two)
    BY <2>1 DEF IInv, TypeOK, Fcgis
  <2>3. \A d \in Conns \ {c} : /\ fcgi'[d] = fcgi[d] /\ clt'[d] = clt[d]
                               /\ wire'[d] = wire[d] /\ got'[d] = got[d]
    BY <2>1 DEF IInv, TypeOK
  <2>4. /\ \A j \in Ids \ {i} : clt'[c][j] = clt[c][j] /\ got'[c][j] = got[c][j]
        /\ \A j \in Ids : wire'[c][j] = wire[c][j]
    BY <2>1 DEF IInv, TypeOK
  <2>5. /\ got'[c][i] # "cut"
        /\ got'[c][i] = "wait" => clt'[c][i].live
    <3>1. [NoClient EXCEPT !.live = TRUE].live
      BY DEF NoClient
    <3>2. clt[c][i].live => got[c][i] = "wait"
      BY DEF IInv, Inv, ClientOK
    <3>3. CASE clt[c][i].live /\ clt' = clt /\ got' = got
      BY <3>2, <3>3
    <3>4. CASE /\ clt' = [clt EXCEPT ![c][i] = [NoClient EXCEPT !.live = TRUE]]
               /\ got' = [got EXCEPT ![c][i] = "wait"]
      <4>1. clt'[c][i] = [NoClient EXCEPT !.live = TRUE] /\ got'[c][i] = "wait"
        BY <3>4 DEF IInv, TypeOK
      <4> QED
        BY <3>1, <4>1
    <3>5. CASE got' = [got EXCEPT ![c][i] = "skipped"]
      <4>1. got'[c][i] = "skipped"
        BY <3>5 DEF IInv, TypeOK
      <4> QED
        BY <4>1
    <3> QED
      BY <2>1, <3>3, <3>4, <3>5
  <2>6. fcgi[c].open
    BY DEF FcgiBeginRequest
  <2>7. ConnOK(fcgi[c], clt[c], got[c])
    BY DEF AInv, ConnsOK
  <2>8. ~fcgi'[c].done
    BY <1>2, <2>2, <2>7 DEF ConnOK
  <2>9. NoneForgotten'
    <3> SUFFICES ASSUME NEW d \in Conns, NEW j \in Ids, got'[d][j] = "wait"
                 PROVE  /\ fcgi'[d].open
                        /\ clt'[d][j].live \/ (wire'[d][j] = "end" /\ fcgi'[d].out)
      BY DEF NoneForgotten
    <3>1. CASE d = c /\ j = i
      BY <2>2, <2>5, <2>6, <3>1
    <3>2. CASE d = c /\ j # i
      BY <2>2, <2>4, <2>6, <3>2 DEF AInv, NoneForgotten
    <3>3. CASE d # c
      BY <2>3, <3>3 DEF AInv, NoneForgotten
    <3> QED
      BY <3>1, <3>2, <3>3
  <2>10. DoneCutsNone'
    <3>1. fcgi'[c].open
      BY <2>2, <2>6
    <3> QED
      BY <2>3, <3>1 DEF AInv, DoneCutsNone
  <2>11. ASSUME ~fcgi'[c].mpx, NEW j \in Ids, clt'[c][j].live PROVE j = i
    <3>1. SUFFICES ASSUME j # i PROVE FALSE
      OBVIOUS
    <3>2. clt[c][j].live
      BY <2>4, <2>11, <3>1
    <3>3. got[c][j] = "wait"
      BY <3>2 DEF IInv, Inv, ClientOK
    <3>4. two
      BY <3>1, <3>3 DEF Pending, two
    <3> QED
      BY <2>2, <2>11, <3>4
  <2>12. \A j \in Ids : got'[c][j] # "cut"
    BY <2>4, <2>5, <2>6, <2>7 DEF ConnOK
  <2>13. ConnOK(fcgi'[c], clt'[c], got'[c])
    BY <2>8, <2>11, <2>12 DEF ConnOK
  <2>14. ConnsOK'
    BY <2>3, <2>13 DEF AInv, ConnsOK
  <2> QED
    BY <2>9, <2>10, <2>14 DEF AInv
<1> QED
  BY <1>1, <1>2

LEMMA UnknownRoleAnswers ==
  ASSUME IInv, AInv, NEW c \in Conns, NEW i \in Ids, FcgiUnknownRole(c, i)
  PROVE  AInv'
<1>1. fcgi[c].open /\ got[c][i] # "wait"
  BY DEF FcgiUnknownRole, Pending
<1>2. CASE /\ wire' = [wire EXCEPT ![c][i] = Extend(wire[c][i], "end")]
           /\ fcgi' = [fcgi EXCEPT ![c].out = TRUE]
           /\ got' = [got EXCEPT ![c][i] = "wait"]
           /\ clt' = clt
  <2>1. wire[c][i] = "none"
    BY <1>1 DEF IInv, Inv, ClientOK
  <2>2. wire'[c][i] = "end" /\ \A j \in Ids \ {i} : wire'[c][j] = wire[c][j]
    BY <1>2, <2>1 DEF Extend, IInv, TypeOK
  <2>3. got'[c][i] = "wait" /\ \A j \in Ids \ {i} : got'[c][j] = got[c][j]
    BY <1>2 DEF IInv, TypeOK
  <2>4. /\ fcgi'[c].open = fcgi[c].open /\ fcgi'[c].keep = fcgi[c].keep
        /\ fcgi'[c].mpx = fcgi[c].mpx /\ fcgi'[c].done = fcgi[c].done /\ fcgi'[c].out
    BY <1>2 DEF IInv, TypeOK, Fcgis
  <2>5. \A d \in Conns \ {c} : /\ fcgi'[d] = fcgi[d]
                               /\ wire'[d] = wire[d] /\ got'[d] = got[d]
    BY <1>2 DEF IInv, TypeOK
  <2>6. clt' = clt
    BY <1>2
  <2>7. NoneForgotten'
    <3> SUFFICES ASSUME NEW d \in Conns, NEW j \in Ids, got'[d][j] = "wait"
                 PROVE  /\ fcgi'[d].open
                        /\ clt'[d][j].live \/ (wire'[d][j] = "end" /\ fcgi'[d].out)
      BY DEF NoneForgotten
    <3>1. CASE d = c /\ j = i
      BY <1>1, <2>2, <2>4, <3>1
    <3>2. CASE d = c /\ j # i
      BY <1>1, <2>2, <2>3, <2>4, <2>6, <3>2 DEF AInv, NoneForgotten
    <3>3. CASE d # c
      BY <2>5, <2>6, <3>3 DEF AInv, NoneForgotten
    <3> QED
      BY <3>1, <3>2, <3>3
  <2>8. DoneCutsNone'
    <3> SUFFICES ASSUME NEW d \in Conns, NEW j \in Ids,
                        ~fcgi'[d].open, fcgi'[d].why = "done", ~fcgi'[d].mpx
                 PROVE  got'[d][j] # "cut"
      BY DEF DoneCutsNone
    <3>1. d # c
      BY <1>1, <2>4
    <3>2. fcgi'[d] = fcgi[d] /\ got'[d] = got[d]
      BY <2>5, <3>1
    <3> QED
      BY <3>2 DEF AInv, DoneCutsNone
  <2>9. ConnOK(fcgi[c], clt[c], got[c])
    BY DEF AInv, ConnsOK
  <2>10. ConnOK(fcgi'[c], clt'[c], got'[c])
    BY <1>1, <2>3, <2>4, <2>6, <2>9 DEF ConnOK
  <2>11. ConnsOK'
    BY <2>5, <2>6, <2>10 DEF AInv, ConnsOK
  <2> QED
    BY <2>7, <2>8, <2>11 DEF AInv
<1> QED
  BY <1>2, ErrorAnswers DEF FcgiUnknownRole

(* A record that only changes what the web server has sent.                *)
LEMMA SentAnswers ==
  ASSUME IInv, IInv', AInv, NEW c \in Conns, NEW i \in Ids,
         \/ FcgiParams(c, i) \/ FcgiParamsEnd(c, i)
         \/ FcgiStdin(c, i) \/ FcgiStdinEnd(c, i)
  PROVE  AInv'
<1>1. clt[c][i] \in Clients
  BY DEF IInv, TypeOK
<1>2. CASE FcgiParams(c, i)
  <2>1. PICK m, p, s : Continue(c, i, [clt[c][i] EXCEPT !.method = m, !.path = p, !.server = s],
                                loop[c][i], wire[c][i])
    BY <1>2 DEF FcgiParams
  <2>2. clt[c][i].live
    BY <1>2 DEF FcgiParams
  <2>3. [clt[c][i] EXCEPT !.method = m, !.path = p, !.server = s].live
    BY <1>1, <2>2 DEF Clients
  <2> QED
    BY <2>1, <2>2, <2>3, ContinueAnswers
<1>3. CASE FcgiParamsEnd(c, i)
  <2> DEFINE k == [clt[c][i] EXCEPT !.sent = "params"]
  <2>1. k.live /\ (ProxyStartRequest(c, i, k) \/ Continue(c, i, k, loop[c][i], wire[c][i]))
    BY <1>3 DEF FcgiParamsEnd
  <2>2. clt[c][i].live
    BY <1>1, <2>1 DEF Clients
  <2> HIDE DEF k
  <2> QED
    BY <2>1, <2>2, StartAnswers, ContinueAnswers
<1>4. CASE FcgiStdin(c, i)
  <2>1. PICK b : Continue(c, i, [clt[c][i] EXCEPT !.body = b], loop[c][i], wire[c][i])
    BY <1>4 DEF FcgiStdin
  <2>2. clt[c][i].live
    BY <1>4 DEF FcgiStdin
  <2>3. [clt[c][i] EXCEPT !.body = b].live
    BY <1>1, <2>2 DEF Clients
  <2> QED
    BY <2>1, <2>2, <2>3, ContinueAnswers
<1>5. CASE FcgiStdinEnd(c, i)
  <2> DEFINE k == [clt[c][i] EXCEPT !.sent = "all"]
  <2>1. k.live /\ (ProxyStartRequest(c, i, k) \/ Continue(c, i, k, loop[c][i], wire[c][i]))
    BY <1>5 DEF FcgiStdinEnd
  <2>2. clt[c][i].live
    BY <1>1, <2>1 DEF Clients
  <2> HIDE DEF k
  <2> QED
    BY <2>1, <2>2, StartAnswers, ContinueAnswers
<1> QED
  BY <1>2, <1>3, <1>4, <1>5

LEMMA AcceptAnswers ==
  ASSUME IInv, AInv, NEW c \in Conns, FcgiAccept(c)
  PROVE  AInv'
<1>1. /\ fcgi'[c].open /\ ~fcgi'[c].done
      /\ \A j \in Ids : got'[c][j] = "idle"
  BY DEF FcgiAccept, Closed, IInv, TypeOK
<1>2. \A d \in Conns \ {c} : fcgi'[d] = fcgi[d] /\ got'[d] = got[d]
  BY DEF FcgiAccept, IInv, TypeOK
<1>3. clt' = clt /\ wire' = wire
  BY DEF FcgiAccept
<1>4. \A j \in Ids : ~clt[c][j].live
  BY DEF FcgiAccept, IInv, Inv, ClientOK
<1>5. NoneForgotten'
  BY <1>1, <1>2, <1>3 DEF AInv, NoneForgotten
<1>6. DoneCutsNone'
  BY <1>1, <1>2 DEF AInv, DoneCutsNone
<1>7. ConnOK(fcgi'[c], clt'[c], got'[c])
  BY <1>1, <1>3, <1>4 DEF ConnOK
<1>8. ConnsOK'
  BY <1>2, <1>3, <1>7 DEF AInv, ConnsOK
<1> QED
  BY <1>5, <1>6, <1>8 DEF AInv

(* fcgi_write: a connection that is done and never had two requests has    *)
(* none left, and so whoever still waits has its END_REQUEST written.      *)
LEMMA WriteAnswers ==
  ASSUME IInv, AInv, NEW c \in Conns, FcgiWrite(c)
  PROVE  AInv'
<1> DEFINE seen == [j \in Ids |-> IF wire[c][j] = "end" THEN "answered" ELSE got[c][j]]
<1>1. ConnOK(fcgi[c], clt[c], got[c]) /\ fcgi[c].open
  BY DEF AInv, ConnsOK, FcgiWrite
<1>2. ASSUME NEW j \in Ids
      PROVE  /\ seen[j] # "cut"
             /\ seen[j] = "wait" => got[c][j] = "wait" /\ wire[c][j] # "end" /\ clt[c][j].live
  BY <1>1 DEF ConnOK, AInv, NoneForgotten
<1>3. CASE fcgi[c].done
  <2>1. FcgiErrorFrom(c, clt[c], loop[c], seen, "done")
    BY <1>3 DEF FcgiWrite
  <2>2. ~fcgi[c].mpx => \A j \in Ids : seen[j] \notin {"wait", "cut"}
    BY <1>1, <1>2, <1>3 DEF ConnOK
  <2> HIDE DEF seen
  <2> QED
    BY <2>1, <2>2, ErrorAnswers
<1>4. CASE ~fcgi[c].done
  <2>1. /\ fcgi' = [fcgi EXCEPT ![c].out = FALSE]
        /\ got' = [got EXCEPT ![c] = seen]
        /\ clt' = clt
        /\ wire' = [wire EXCEPT ![c] =
              [j \in Ids |-> IF wire[c][j] = "end" THEN "none" ELSE wire[c][j]]]
    BY <1>4 DEF FcgiWrite
  <2> HIDE DEF seen
  <2>2. /\ fcgi'[c].open = fcgi[c].open /\ fcgi'[c].mpx = fcgi[c].mpx
        /\ ~fcgi'[c].done /\ got'[c] = seen
    BY <1>4, <2>1 DEF IInv, TypeOK, Fcgis
  <2>3. \A d \in Conns \ {c} : fcgi'[d] = fcgi[d] /\ got'[d] = got[d] /\ wire'[d] = wire[d]
    BY <2>1 DEF IInv, TypeOK
  <2>4. NoneForgotten'
    BY <1>1, <1>2, <2>1, <2>2, <2>3 DEF AInv, NoneForgotten
  <2>5. DoneCutsNone'
    BY <1>1, <2>2, <2>3 DEF AInv, DoneCutsNone
  <2>6. ConnOK(fcgi'[c], clt'[c], got'[c])
    BY <1>1, <1>2, <2>1, <2>2 DEF ConnOK
  <2>7. ConnsOK'
    BY <2>1, <2>3, <2>6 DEF AInv, ConnsOK
  <2> QED
    BY <2>4, <2>5, <2>7 DEF AInv
<1> QED
  BY <1>3, <1>4

LEMMA PurgeAnswers ==
  ASSUME IInv, AInv, ConfigPurge
  PROVE  AInv'
<1>1. ASSUME NEW c \in Conns
      PROVE  /\ ~fcgi'[c].open
             /\ fcgi'[c].why = "done" => fcgi'[c] = fcgi[c] /\ ~fcgi[c].open
             /\ fcgi'[c].done => fcgi'[c] = fcgi[c]
  BY DEF ConfigPurge, Closed, IInv, TypeOK
<1>2. ASSUME NEW c \in Conns, NEW j \in Ids
      PROVE  /\ ~clt'[c][j].live
             /\ got'[c][j] = IF got[c][j] = "wait" THEN "cut" ELSE got[c][j]
  BY DEF ConfigPurge, NoClient
<1>3. NoneForgotten'
  BY <1>2 DEF NoneForgotten
<1>4. DoneCutsNone'
  <2> SUFFICES ASSUME NEW c \in Conns, NEW j \in Ids, fcgi'[c].why = "done", ~fcgi'[c].mpx
               PROVE  got'[c][j] # "cut"
    BY DEF DoneCutsNone
  <2>1. fcgi'[c] = fcgi[c] /\ ~fcgi[c].open
    BY <1>1
  <2>2. got[c][j] # "wait" /\ got[c][j] # "cut"
    BY <2>1 DEF AInv, NoneForgotten, DoneCutsNone
  <2> QED
    BY <1>2, <2>2
<1>5. ConnsOK'
  BY <1>1, <1>2 DEF AInv, ConnsOK, ConnOK
<1> QED
  BY <1>3, <1>4, <1>5 DEF AInv

-----------------------------------------------------------------------------
LEMMA NextAInv == IInv /\ IInv' /\ AInv /\ [Next]_vars => AInv'
<1> SUFFICES ASSUME IInv, IInv', AInv, [Next]_vars PROVE AInv'
  OBVIOUS
<1>1. CASE \/ \E s \in Hosts : ConfigGetProxy(s)
           \/ ConfigGetSock \/ ConfigDone \/ UNCHANGED vars
  <2>1. UNCHANGED <<fcgi, clt, wire, got>>
    BY <1>1 DEF ConfigGetProxy, ConfigGetSock, ConfigDone, vars
  <2> QED
    BY <2>1 DEF AInv, NoneForgotten, DoneCutsNone, ConnsOK
<1>2. ASSUME NEW c \in Conns, Connection(c) PROVE AInv'
  <2>1. CASE FcgiFailure(c)
    BY <2>1, ErrorAnswers DEF FcgiFailure, FcgiError
  <2> QED
    BY <1>2, <2>1, AcceptAnswers, WriteAnswers DEF Connection
<1>3. ASSUME NEW c \in Conns, NEW i \in Ids, Record(c, i) PROVE AInv'
  <2>1. CASE FcgiAbortRequest(c, i)
    BY <2>1, EndAnswers DEF FcgiAbortRequest
  <2> QED
    BY <1>3, <2>1, BeginAnswers, UnknownRoleAnswers, SentAnswers DEF Record
<1>4. ASSUME NEW c \in Conns, NEW i \in Ids, Upstream(c, i) PROVE AInv'
  BY <1>4, ResolvedAnswers, ConnectAnswers, ReadAnswers, ProxyErrorAnswers DEF Upstream
<1> QED
  BY <1>1, <1>2, <1>3, <1>4, PurgeAnswers DEF Next, Configuration

LEMMA AlwaysAInv == Spec => []AInv
<1>1. Init => AInv
  BY InitAInv
<1>2. IInv /\ IInv' /\ AInv /\ [Next]_vars => AInv'
  BY NextAInv
<1> QED
  BY <1>1, <1>2, AlwaysIInv, PTL DEF Spec

(* Whatever calls fail and whichever order records and callbacks come in,  *)
(* a request the web server waits for is alive or its END_REQUEST is       *)
(* queued on an open connection.                                           *)
THEOREM NoRequestForgotten == Spec => []NoneForgotten
  BY AlwaysAInv, PTL DEF AInv

(* fcgi_write, closing a connection for fcg_done, leaves no request        *)
(* unanswered, unless two were outstanding on it.                          *)
THEOREM DoneAnsweredAll == Spec => []DoneCutsNone
  BY AlwaysAInv, PTL DEF AInv

-----------------------------------------------------------------------------
(***************************************************************************)
(* The worker implements Responder.  Every effect an action is made of is  *)
(* a step of the abstract responder or leaves its state alone.             *)
(***************************************************************************)

(* The abstract state.                                                     *)
Stage == [c \in Conns |-> [i \in Ids |-> ReqStage(clt[c][i], wire[c][i])]]

Implements == Abstract!Next \/ UNCHANGED Stage

(* The stage of one request becomes s.                                     *)
LEMMA OneStage ==
  ASSUME IInv, NEW c \in Conns, NEW i \in Ids, NEW k, NEW w,
         clt' = [clt EXCEPT ![c][i] = k],
         wire' = [wire EXCEPT ![c][i] = w]
  PROVE  Stage' = [Stage EXCEPT ![c][i] = ReqStage(k, w)]
<1>1. clt'[c][i] = k /\ wire'[c][i] = w
  BY DEF IInv, TypeOK
<1>2. \A d \in Conns, j \in Ids : d # c \/ j # i =>
         clt'[d][j] = clt[d][j] /\ wire'[d][j] = wire[d][j]
  BY DEF IInv, TypeOK
<1>3. \A d \in Conns, j \in Ids :
         Stage'[d][j] = IF d = c /\ j = i THEN ReqStage(k, w) ELSE Stage[d][j]
  BY <1>1, <1>2 DEF Stage
<1>4. \A d \in Conns, j \in Ids :
         [Stage EXCEPT ![c][i] = ReqStage(k, w)][d][j] =
             IF d = c /\ j = i THEN ReqStage(k, w) ELSE Stage[d][j]
  BY DEF Stage
<1>5. Stage' = [d \in Conns |-> [j \in Ids |-> Stage'[d][j]]]
  BY DEF Stage
<1>6. [Stage EXCEPT ![c][i] = ReqStage(k, w)] =
         [d \in Conns |-> [j \in Ids |-> [Stage EXCEPT ![c][i] = ReqStage(k, w)][d][j]]]
  BY DEF Stage
<1> QED
  BY <1>3, <1>4, <1>5, <1>6

(* A live request goes on: nothing of its response is taken back.          *)
LEMMA RepliesStep ==
  ASSUME IInv, IInv', NEW c \in Conns, NEW i \in Ids, clt[c][i].live,
         NEW k, NEW w, k.live,
         clt' = [clt EXCEPT ![c][i] = k],
         wire' = [wire EXCEPT ![c][i] = w],
         \/ w = wire[c][i]
         \/ wire[c][i] = "none" /\ w = "hdr"
         \/ w = "body"
  PROVE  Implements
<1>1. Stage' = [Stage EXCEPT ![c][i] = ReqStage(k, w)]
  BY OneStage
<1>2. wire[c][i] \in {"none", "hdr", "body"}
  BY DEF IInv, Inv, ClientOK, ResponseOK
<1>3. Stage[c][i] = IF wire[c][i] = "none" THEN "active" ELSE wire[c][i]
  BY DEF Stage, ReqStage
<1>4. ReqStage(k, w) = IF w = "none" THEN "active" ELSE w
  BY DEF ReqStage
<1>5. CASE w = wire[c][i]
  <2>1. ReqStage(k, w) = Stage[c][i]
    BY <1>3, <1>4, <1>5
  <2>2. Stage' = Stage
    BY <1>1, <2>1 DEF Stage
  <2> QED
    BY <2>2 DEF Implements
<1>6. CASE w # wire[c][i]
  <2>1. Abstract!Reply(c, i)
    BY <1>1, <1>2, <1>3, <1>4, <1>6 DEF Abstract!Reply, Abstract!Becomes, Stage
  <2> QED
    BY <2>1 DEF Implements, Abstract!Next
<1> QED
  BY <1>5, <1>6

(* fcgi_error and config_purge drop connections with all their requests.   *)
LEMMA DropStep ==
  ASSUME NEW S \in SUBSET Conns, IInv,
         \A c \in Conns, j \in Ids :
            IF c \in S THEN ~clt'[c][j].live /\ wire'[c][j] = "none"
            ELSE clt'[c][j] = clt[c][j] /\ wire'[c][j] = wire[c][j]
  PROVE  Implements
<1>1. \A c \in Conns, j \in Ids :
         Stage'[c][j] = IF c \in S THEN "idle" ELSE Stage[c][j]
  BY DEF Stage, ReqStage
<1>2. Stage' = [c \in Conns |-> IF c \in S THEN [j \in Ids |-> "idle"] ELSE Stage[c]]
  BY <1>1 DEF Stage
<1>3. Abstract!Drop(S)
  BY <1>2 DEF Abstract!Drop, Stage
<1> QED
  BY <1>3 DEF Implements, Abstract!Next

LEMMA ErrorStep ==
  ASSUME IInv, NEW c \in Conns, NEW ks, NEW hs, NEW gs, NEW why,
         FcgiErrorFrom(c, ks, hs, gs, why)
  PROVE  Implements
<1>1. \A j \in Ids : ~clt'[c][j].live /\ wire'[c][j] = "none"
  BY DEF FcgiErrorFrom, IInv, TypeOK, NoClient
<1>2. \A d \in Conns \ {c} : clt'[d] = clt[d] /\ wire'[d] = wire[d]
  BY DEF FcgiErrorFrom, IInv, TypeOK
<1>3. {c} \in SUBSET Conns
  OBVIOUS
<1>4. \A d \in Conns, j \in Ids :
         IF d \in {c} THEN ~clt'[d][j].live /\ wire'[d][j] = "none"
         ELSE clt'[d][j] = clt[d][j] /\ wire'[d][j] = wire[d][j]
  BY <1>1, <1>2
<1> QED
  BY <1>3, <1>4, DropStep

LEMMA ContinueStep ==
  ASSUME IInv, IInv', NEW c \in Conns, NEW i \in Ids, clt[c][i].live,
         NEW k, NEW h, NEW w, k.live \/ h # {},
         Continue(c, i, k, h, w),
         \/ w = wire[c][i]
         \/ wire[c][i] = "none" /\ w = "hdr"
         \/ w = "body"
  PROVE  Implements
<1>1. clt'[c][i] = k /\ loop'[c][i] = h
  BY DEF Continue, IInv, TypeOK
<1>2. k.live
  BY <1>1 DEF IInv, Inv, ClientOK, Driven
<1> QED
  BY <1>2, RepliesStep DEF Continue

LEMMA EmitStep ==
  ASSUME IInv, IInv', NEW c \in Conns, NEW i \in Ids, clt[c][i].live,
         NEW k, NEW h, h # {}, k.resp \in {"body", "bad"},
         Emit(c, i, k, h)
  PROVE  Implements
<1>1. clt'[c][i] = k /\ loop'[c][i] = h /\ wire'[c][i] = k.resp
  BY DEF Emit, IInv, TypeOK
<1>2. k.live
  BY <1>1 DEF IInv, Inv, ClientOK, Driven
<1>3. k.resp = "body"
  BY <1>1, <1>2 DEF IInv, Inv, ClientOK, ResponseOK
<1> QED
  BY <1>2, <1>3, RepliesStep DEF Emit

(* end_request: END_REQUEST is queued once, and the client is gone.        *)
LEMMA EndStep ==
  ASSUME IInv, IInv', NEW c \in Conns, NEW i \in Ids, clt[c][i].live,
         NEW k, NEW h, EndRequest(c, i, k, h)
  PROVE  Implements
<1> DEFINE w == Extend(Flushed(k, wire[c][i]), "end")
<1>1. CASE WriteFails(c, i, k, h)
  BY <1>1, ErrorStep DEF WriteFails
<1>2. CASE /\ wire' = [wire EXCEPT ![c][i] = w]
           /\ clt' = [clt EXCEPT ![c][i] = NoClient]
  <2>1. ~NoClient.live
    BY DEF NoClient
  <2>2. w = "end"
    <3>1. w \in {"end", "bad"}
      BY DEF Extend
    <3> HIDE DEF w
    <3>2. clt'[c][i] = NoClient /\ wire'[c][i] = w
      BY <1>2 DEF IInv, TypeOK
    <3>3. w \in {"none", "end"}
      BY <2>1, <3>2 DEF IInv, Inv, ClientOK
    <3> QED
      BY <3>1, <3>3
  <2> HIDE DEF w
  <2>3. Stage' = [Stage EXCEPT ![c][i] = ReqStage(NoClient, w)]
    BY <1>2, OneStage
  <2>4. ReqStage(NoClient, w) = "ended"
    BY <2>1, <2>2 DEF ReqStage
  <2>5. wire[c][i] \in {"none", "hdr", "body"}
    BY DEF IInv, Inv, ClientOK, ResponseOK
  <2>6. Stage[c][i] \in {"active", "hdr", "body"}
    BY <2>5 DEF Stage, ReqStage
  <2>7. Abstract!End(c, i)
    BY <2>3, <2>4, <2>6 DEF Abstract!End, Abstract!Becomes, Stage
  <2> QED
    BY <2>7 DEF Implements, Abstract!Next
<1> QED
  BY <1>1, <1>2 DEF EndRequest

-----------------------------------------------------------------------------
(* Which step of the responder each callback and each record is.           *)

LEMMA StartStep ==
  ASSUME IInv, IInv', NEW c \in Conns, NEW i \in Ids, clt[c][i].live,
         NEW k, ProxyStartRequest(c, i, k)
  PROVE  Implements
<1>1. loop[c][i] \cup {"evasr"} # {}
  OBVIOUS
<1> QED
  BY <1>1, EndStep, ContinueStep DEF ProxyStartRequest

LEMMA ConnectedStep ==
  ASSUME IInv, IInv', NEW c \in Conns, NEW i \in Ids, clt[c][i].live,
         NEW k, NEW h, ProxyConnected(c, i, k, h)
  PROVE  Implements
<1>1. \A tls : (h \ {"addrinfo"}) \cup {"bev"} \cup tls # {}
  OBVIOUS
<1> QED
  BY <1>1, EndStep, ContinueStep DEF ProxyConnected

LEMMA ResolvedStep ==
  ASSUME IInv, IInv', NEW c \in Conns, NEW i \in Ids, ProxyResolved(c, i)
  PROVE  Implements
<1>1. clt[c][i].live
  BY HeldLives DEF ProxyResolved
<1>2. ASSUME NEW k, NEW h, ProxyConnectFirst(c, i, k, h) PROVE Implements
  <2>1. h \cup {"fd", "evconn"} # {}
    OBVIOUS
  <2> QED
    BY <1>1, <1>2, <2>1, EndStep, ConnectedStep, ContinueStep DEF ProxyConnectFirst
<1> QED
  BY <1>1, <1>2, EndStep DEF ProxyResolved

(* proxy_read appends to the body: lines through the template, or bytes    *)
(* past it.                                                                *)
LEMMA ReadBodyStep ==
  ASSUME IInv, IInv', NEW c \in Conns, NEW i \in Ids, clt[c][i].live, loop[c][i] # {},
         NEW k \in Clients, NEW w,
         \/ w = wire[c][i]
         \/ wire[c][i] = "none" /\ w = "hdr"
         \/ w = "body",
         ProxyReadBody(c, i, k, w)
  PROVE  Implements
<1> DEFINE raw == [k EXCEPT !.resp = DoWrite(k, w, "body")]
           lines == TpWrite(k, "body")
<1>1. lines.resp \in {"body", "bad"}
  BY TpWriteType DEF Extend
<1>2. raw.resp \in {"body", "bad"}
  BY DEF Clients, DoWrite, Extend
<1>3. \/ \E n : Continue(c, i, n, loop[c][i], w)
      \/ Emit(c, i, lines, loop[c][i]) \/ Emit(c, i, raw, loop[c][i])
      \/ WriteFails(c, i, k, loop[c][i])
  BY DEF ProxyReadBody
<1> HIDE DEF raw, lines
<1>4. CASE \E n : Continue(c, i, n, loop[c][i], w)
  BY <1>4, ContinueStep
<1>5. CASE Emit(c, i, lines, loop[c][i]) \/ Emit(c, i, raw, loop[c][i])
  BY <1>1, <1>2, <1>5, EmitStep
<1>6. CASE WriteFails(c, i, k, loop[c][i])
  BY <1>6, ErrorStep DEF WriteFails
<1> QED
  BY <1>3, <1>4, <1>5, <1>6

(* The header of a 2x reply is the first output of its request.            *)
LEMMA ReadHeaderStep ==
  ASSUME IInv, IInv', NEW c \in Conns, NEW i \in Ids, clt[c][i].live, loop[c][i] # {},
         ~clt[c][i].headersdone, ProxyReadHeader(c, i, clt[c][i])
  PROVE  Implements
<1> DEFINE hdr == TpWrite(clt[c][i], "hdr")
           begun == [hdr EXCEPT !.headersdone = TRUE, !.translate = TRUE]
           page == TpWrite(begun, "body")
           raw == [hdr EXCEPT !.headersdone = TRUE, !.tpbuf = FALSE]
<1>1. clt[c][i] \in Clients /\ clt[c][i].resp = "none" /\ wire[c][i] = "none"
  <2>1. clt[c][i] \in Clients
    BY DEF IInv, TypeOK
  <2>2. ResponseOK(clt[c][i], wire[c][i])
    BY DEF IInv, Inv, ClientOK
  <2> QED
    BY <2>1, <2>2 DEF ResponseOK
<1>2. \/ \E k : EndRequest(c, i, k, loop[c][i])
      \/ \E w \in {wire[c][i], page.resp} : ProxyReadBody(c, i, page, w)
      \/ ProxyReadBody(c, i, raw, Flushed(hdr, wire[c][i]))
  BY DEF ProxyReadHeader
<1>3. hdr \in Clients /\ hdr.resp = "hdr" /\ hdr.tpbuf = TRUE
  BY <1>1, TpWriteType DEF Extend
<1> HIDE DEF hdr
<1>4. begun \in Clients /\ begun.resp = "hdr"
  BY <1>3 DEF Clients
<1>5. raw \in Clients /\ Flushed(hdr, wire[c][i]) = "hdr"
  BY <1>3 DEF Clients, Flushed
<1> HIDE DEF begun, raw
<1>6. page \in Clients /\ page.resp = "body"
  BY <1>4, TpWriteType DEF Extend
<1> HIDE DEF page
<1> QED
  BY <1>1, <1>2, <1>5, <1>6, EndStep, ReadBodyStep

LEMMA UpstreamStep ==
  ASSUME IInv, IInv', NEW c \in Conns, NEW i \in Ids, Upstream(c, i)
  PROVE  Implements
<1>1. CASE ProxyConnect(c, i)
  BY <1>1, HeldLives, EndStep, ConnectedStep DEF ProxyConnect
<1>2. CASE ProxyRead(c, i)
  <2>1. loop[c][i] # {} /\ clt[c][i].live
    BY <1>2, HeldLives DEF ProxyRead
  <2>2. clt[c][i] \in Clients
    BY DEF IInv, TypeOK
  <2> QED
    BY <1>2, <2>1, <2>2, ReadBodyStep, ReadHeaderStep DEF ProxyRead
<1>3. CASE \E eof \in BOOLEAN : ProxyError(c, i, eof)
  BY <1>3, HeldLives, EndStep DEF ProxyError
<1> QED
  BY <1>1, <1>2, <1>3, ResolvedStep DEF Upstream

(* A BEGIN_REQUEST of a free id begins a request, unless the client cannot *)
(* be allocated; one that is refused drops the connection.                 *)
LEMMA BeginStep ==
  ASSUME IInv, IInv', NEW c \in Conns, NEW i \in Ids, NEW keep \in BOOLEAN,
         FcgiBeginRequest(c, i, keep)
  PROVE  Implements
<1> DEFINE new == [NoClient EXCEPT !.live = TRUE]
<1>1. \/ \E gs : FcgiErrorFrom(c, clt[c], loop[c], gs, "error")
      \/ clt' = clt /\ wire' = wire
      \/ ~clt[c][i].live /\ ~Pending(c, i) /\ wire' = wire /\ clt' = [clt EXCEPT ![c][i] = new]
  BY DEF FcgiBeginRequest
<1>2. new.live
  BY DEF NoClient
<1> HIDE DEF new
<1>3. CASE \E gs : FcgiErrorFrom(c, clt[c], loop[c], gs, "error")
  BY <1>3, ErrorStep
<1>4. CASE clt' = clt /\ wire' = wire
  BY <1>4 DEF Implements, Stage
<1>5. CASE /\ ~clt[c][i].live /\ ~Pending(c, i) /\ wire' = wire
           /\ clt' = [clt EXCEPT ![c][i] = new]
  <2>1. wire[c][i] = "none"
    <3>1. got[c][i] # "wait"
      BY <1>5 DEF Pending
    <3> QED
      BY <3>1 DEF IInv, Inv, ClientOK
  <2>2. clt' = [clt EXCEPT ![c][i] = new] /\ wire' = [wire EXCEPT ![c][i] = "none"]
    <3>1. wire \in [Conns -> [Ids -> Stages]]
      BY DEF IInv, TypeOK
    <3>2. wire = [wire EXCEPT ![c][i] = "none"]
      BY <2>1, <3>1
    <3> QED
      BY <1>5, <3>2
  <2>3. Stage' = [Stage EXCEPT ![c][i] = ReqStage(new, "none")]
    BY <2>2, OneStage
  <2>4. ReqStage(new, "none") = "active" /\ Stage[c][i] = "idle"
    BY <1>2, <1>5, <2>1 DEF ReqStage, Stage
  <2>5. Abstract!Begin(c, i)
    BY <2>3, <2>4 DEF Abstract!Begin, Abstract!Becomes, Stage
  <2> QED
    BY <2>5 DEF Implements, Abstract!Next
<1> QED
  BY <1>1, <1>3, <1>4, <1>5

LEMMA UnknownRoleStep ==
  ASSUME IInv, NEW c \in Conns, NEW i \in Ids, FcgiUnknownRole(c, i)
  PROVE  Implements
<1>1. CASE \E gs : FcgiErrorFrom(c, clt[c], loop[c], gs, "error")
  BY <1>1, ErrorStep
<1>2. CASE wire' = [wire EXCEPT ![c][i] = Extend(wire[c][i], "end")] /\ clt' = clt
  <2>1. wire[c][i] = "none" /\ ~clt[c][i].live
    <3>1. got[c][i] # "wait"
      BY DEF FcgiUnknownRole, Pending
    <3> QED
      BY <3>1 DEF IInv, Inv, ClientOK
  <2>2. Extend(wire[c][i], "end") = "end"
    BY <2>1 DEF Extend
  <2>3. /\ clt' = [clt EXCEPT ![c][i] = clt[c][i]]
        /\ wire' = [wire EXCEPT ![c][i] = "end"]
    BY <1>2, <2>2 DEF IInv, TypeOK
  <2>4. Stage' = [Stage EXCEPT ![c][i] = ReqStage(clt[c][i], "end")]
    BY <2>3, OneStage
  <2>5. ReqStage(clt[c][i], "end") = "ended" /\ Stage[c][i] = "idle"
    BY <2>1 DEF ReqStage, Stage
  <2>6. Abstract!Refuse(c, i)
    BY <2>4, <2>5 DEF Abstract!Refuse, Abstract!Becomes, Stage
  <2> QED
    BY <2>6 DEF Implements, Abstract!Next
<1> QED
  BY <1>1, <1>2 DEF FcgiUnknownRole

(* Records that only complete what the web server sends, or start the      *)
(* request with it.                                                        *)
LEMMA SentStep ==
  ASSUME IInv, IInv', NEW c \in Conns, NEW i \in Ids,
         \/ FcgiParams(c, i) \/ FcgiParamsEnd(c, i)
         \/ FcgiStdin(c, i) \/ FcgiStdinEnd(c, i)
  PROVE  Implements
<1>1. clt[c][i] \in Clients
  BY DEF IInv, TypeOK
<1>2. CASE FcgiParams(c, i)
  <2>1. PICK m, p, s : Continue(c, i, [clt[c][i] EXCEPT !.method = m, !.path = p, !.server = s],
                                loop[c][i], wire[c][i])
    BY <1>2 DEF FcgiParams
  <2>2. clt[c][i].live
    BY <1>2 DEF FcgiParams
  <2>3. [clt[c][i] EXCEPT !.method = m, !.path = p, !.server = s].live
    BY <1>1, <2>2 DEF Clients
  <2> QED
    BY <2>1, <2>2, <2>3, ContinueStep
<1>3. CASE FcgiStdin(c, i)
  <2>1. PICK b : Continue(c, i, [clt[c][i] EXCEPT !.body = b], loop[c][i], wire[c][i])
    BY <1>3 DEF FcgiStdin
  <2>2. clt[c][i].live
    BY <1>3 DEF FcgiStdin
  <2>3. [clt[c][i] EXCEPT !.body = b].live
    BY <1>1, <2>2 DEF Clients
  <2> QED
    BY <2>1, <2>2, <2>3, ContinueStep
<1>4. ASSUME NEW s, LET k == [clt[c][i] EXCEPT !.sent = s]
                    IN  k.live /\ (ProxyStartRequest(c, i, k)
                                     \/ Continue(c, i, k, loop[c][i], wire[c][i]))
      PROVE  Implements
  <2> DEFINE k == [clt[c][i] EXCEPT !.sent = s]
  <2>1. k.live /\ (ProxyStartRequest(c, i, k) \/ Continue(c, i, k, loop[c][i], wire[c][i]))
    BY <1>4
  <2>2. clt[c][i].live
    BY <1>1, <2>1 DEF Clients
  <2> HIDE DEF k
  <2> QED
    BY <2>1, <2>2, StartStep, ContinueStep
<1>5. CASE FcgiParamsEnd(c, i)
  BY <1>4, <1>5 DEF FcgiParamsEnd
<1>6. CASE FcgiStdinEnd(c, i)
  BY <1>4, <1>6 DEF FcgiStdinEnd
<1> QED
  BY <1>2, <1>3, <1>5, <1>6

(* fcgi_write: the web server has what is queued, and finished ids are     *)
(* free again; a connection that is done is dropped.                       *)
LEMMA WriteStep ==
  ASSUME IInv, NEW c \in Conns, FcgiWrite(c)
  PROVE  Implements
<1>1. CASE fcgi[c].done
  BY <1>1, ErrorStep DEF FcgiWrite
<1>2. CASE ~fcgi[c].done
  <2> DEFINE sent == [j \in Ids |-> IF wire[c][j] = "end" THEN "none" ELSE wire[c][j]]
  <2>1. clt' = clt /\ wire' = [wire EXCEPT ![c] = sent]
    BY <1>2 DEF FcgiWrite
  <2>2. \A d \in Conns \ {c} : wire'[d] = wire[d]
    BY <2>1 DEF IInv, TypeOK
  <2>3. \A j \in Ids : wire'[c][j] = IF wire[c][j] = "end" THEN "none" ELSE wire[c][j]
    BY <2>1 DEF IInv, TypeOK
  <2>4. ASSUME NEW j \in Ids
        PROVE  Stage'[c][j] = IF Stage[c][j] = "ended" THEN "idle" ELSE Stage[c][j]
    <3>1. clt'[c][j] = clt[c][j]
      BY <2>1
    <3>2. CASE clt[c][j].live
      <4>1. wire[c][j] \in {"none", "hdr", "body"}
        BY <3>2 DEF IInv, Inv, ClientOK, ResponseOK
      <4> QED
        BY <2>3, <3>1, <3>2, <4>1 DEF Stage, ReqStage
    <3>3. CASE ~clt[c][j].live
      BY <2>3, <3>1, <3>3 DEF Stage, ReqStage
    <3> QED
      BY <3>2, <3>3
  <2>5. \A d \in Conns \ {c} : Stage'[d] = Stage[d]
    BY <2>1, <2>2 DEF Stage
  <2>6. Stage'[c] = [j \in Ids |-> IF Stage[c][j] = "ended" THEN "idle" ELSE Stage[c][j]]
    BY <2>4 DEF Stage
  <2>7. Stage' = [Stage EXCEPT ![c] =
                     [j \in Ids |-> IF Stage[c][j] = "ended" THEN "idle" ELSE Stage[c][j]]]
    BY <2>5, <2>6 DEF Stage
  <2>8. Abstract!Deliver(c)
    BY <2>7 DEF Abstract!Deliver, Stage
  <2> QED
    BY <2>8 DEF Implements, Abstract!Next
<1> QED
  BY <1>1, <1>2

LEMMA PurgeStep ==
  ASSUME IInv, ConfigPurge
  PROVE  Implements
<1>1. \A c \in Conns, j \in Ids : ~clt'[c][j].live /\ wire'[c][j] = "none"
  BY DEF ConfigPurge, NoClient
<1> QED
  BY <1>1, DropStep

LEMMA NextStep ==
  ASSUME IInv, IInv', [Next]_vars
  PROVE  Implements
<1>1. CASE \/ \E s \in Hosts : ConfigGetProxy(s)
           \/ ConfigGetSock \/ ConfigDone \/ UNCHANGED vars
  <2>1. UNCHANGED <<clt, wire>>
    BY <1>1 DEF ConfigGetProxy, ConfigGetSock, ConfigDone, vars
  <2> QED
    BY <2>1 DEF Implements, Stage
<1>2. ASSUME NEW c \in Conns, Connection(c) PROVE Implements
  <2>1. CASE FcgiFailure(c)
    BY <2>1, ErrorStep DEF FcgiFailure, FcgiError
  <2>2. CASE FcgiAccept(c)
    BY <2>2 DEF FcgiAccept, Implements, Stage
  <2> QED
    BY <1>2, <2>1, <2>2, WriteStep DEF Connection
<1>3. ASSUME NEW c \in Conns, NEW i \in Ids, Record(c, i) PROVE Implements
  <2>1. CASE FcgiAbortRequest(c, i)
    BY <2>1, EndStep DEF FcgiAbortRequest
  <2> QED
    BY <1>3, <2>1, BeginStep, UnknownRoleStep, SentStep DEF Record
<1> QED
  BY <1>1, <1>2, <1>3, UpstreamStep, PurgeStep DEF Next, Configuration

(* Seen by the web server the worker is the responder of Responder: every  *)
(* request id goes through begin, header, body and end in this order, and  *)
(* is reused only after its END_REQUEST was read; every other step of the  *)
(* worker leaves what the web server sees alone.                           *)
THEOREM ImplementsResponder == Spec => IsResponder
<1>1. Init => Abstract!Init
  BY DEF Init, Abstract!Init, ReqStage, NoClient
<1>2. IInv /\ IInv' /\ [Next]_vars => [Abstract!Next]_Stage
  BY NextStep DEF Implements
<1> QED
  BY <1>1, <1>2, AlwaysIInv, PTL DEF Spec, IsResponder, Abstract!Spec, Stage
=============================================================================
