------------------------------ MODULE Gemtext -------------------------------
(***************************************************************************)
(* From a Gemini reply to a page: how proxy_read understands the header of *)
(* a reply (parse_mime, redirects), how gemtext_translate_line turns the   *)
(* lines of text/gemini into HTML elements with the TR_* flags of the      *)
(* client, how the page is closed by proxy_error, and how links are        *)
(* resolved (proxy_resurl, portok).  What else these handlers do to the    *)
(* request is in Worker.                                                   *)
(*                                                                         *)
(* Text is abstracted away: a line is its kind, a page is the elements     *)
(* that are open, innermost first, as pairs of a name and what is around.  *)
(***************************************************************************)
EXTENDS Naturals, Sequences

CONSTANTS
    Pieces,     \* the pieces that names, ports and paths are made of
    Proxies,    \* the proxies of the configuration
    Urls,       \* the links and redirections of the capsule
    Mimes,      \* the media types of its replies
    Script,     \* clt_script_name
    BufSize,    \* sizeof(buf) in gemtext_translate_line and proxy_read
    Beyond      \* what may lie in memory behind the end of a URL

(* A string is a sequence of pieces, delimiters and colons.  A URL is its  *)
(* scheme ("" when it is relative, one symbol otherwise) and the string    *)
(* after it.                                                               *)
Delimiters == {"/", "?", "#"}

Symbols == Pieces \cup {":"} \cup Delimiters

NameSet == Seq(Symbols \ Delimiters)

Ref(scheme, rest) == [scheme |-> scheme, rest |-> rest]

Rooted(s) == s # <<>> /\ s[1] = "/"

UrlSet ==
    {u \in [scheme : {"", "//", "gemini://", "other://"}, rest : Seq(Symbols)] :
        u.scheme = "" /\ Rooted(u.rest) /\ Len(u.rest) > 1 => u.rest[2] # "/"}

(* host is the name the proxy has on the web; proxy_name and proxy_port    *)
(* are the name and the port of the capsule.                               *)
ProxySet == [host : NameSet, proxy_name : NameSet, proxy_port : NameSet, noimgprv : BOOLEAN]

ASSUME GemtextAssumption ==
    /\ Proxies \subseteq ProxySet
    /\ Urls \subseteq UrlSet
    /\ Script \in Seq(Symbols) /\ Rooted(Script)
    /\ BufSize \in Nat
    /\ Beyond \subseteq Seq(Symbols)

VARIABLES
    pc,         \* clt_pc: proxy_match found its host to be clt_server_name
    phase,      \* "header", "body", "ended", "failed" (connection lost)
    page,       \* what the client gets: "none", "html", "raw", "error", "other"
    cur,        \* clt_translate without TR_ENABLED, and the open elements
    pending,    \* "yes" when the input ends with an incomplete line
    href        \* the last link or redirection and what it was resolved to

vars == <<pc, phase, page, cur, pending, href>>

None == Ref("", <<"#">>)

-----------------------------------------------------------------------------
(* Links.                                                                  *)

Ends(s) == s = <<>> \/ s[1] \in Delimiters

Skip(s, n) == SubSeq(s, n + 1, Len(s))

(* strncmp over the length of a.                                           *)
IsPrefix(a, s) == Len(a) <= Len(s) /\ SubSeq(s, 1, Len(a)) = a

(* Mutant: what follows the port is not looked at.                         *)
PortokPrefix(s) == Ends(s) \/ (s[1] = ":" /\ IsPrefix(pc.proxy_port, Tail(s)))

(* portok: the authority ends here, or behind the port of the proxy.       *)
Portok(s) ==
    \/ Ends(s)
    \/ /\ s[1] = ":"
       /\ IsPrefix(pc.proxy_port, Tail(s))
       /\ Ends(Skip(s, 1 + Len(pc.proxy_port)))

(* Where portok leaves the caller's pointer.                               *)
BehindPort(s) == IF Ends(s) THEN s ELSE Skip(s, 1 + Len(pc.proxy_port))

(* What proxy_resurl writes.  When nothing is left of the URL, "url + 1"   *)
(* is past its end.                                                        *)
Rewritten(url, beyond) ==
    LET tmp == Skip(url.rest, Len(pc.host))
        ours == /\ url.scheme \in {"//", "gemini://"}
                /\ IsPrefix(pc.host, url.rest)
                /\ Portok(tmp)
        left == IF url.scheme = "" THEN url.rest ELSE BehindPort(tmp)
    IN  IF url.scheme # "" /\ ~ours THEN url
        ELSE IF left = <<>> THEN Ref("", Script \o beyond)
        ELSE IF Rooted(left) THEN Ref("", Script \o Tail(left))
        ELSE Ref("", left)

(* proxy_resurl returns -1: that does not fit the buffer.                  *)
ResurlFails(url, beyond) ==
    LET r == Rewritten(url, beyond)
    IN  Len(r.rest) + (IF r.scheme = "" THEN 0 ELSE 1) >= BufSize

(* proxy_resurl, or the URL as it is when it fails.                        *)
ProxyResurl(url, beyond) == IF ResurlFails(url, beyond) THEN url ELSE Rewritten(url, beyond)

(* match_image_heur, on the resolved URL; "i" stands for ".png" and such.  *)
MatchImageHeur(t) == t.rest # <<>> /\ t.rest[Len(t.rest)] = "i"

-----------------------------------------------------------------------------
(* Elements.                                                               *)

Empty == <<"empty", "empty">>
Bad == <<"bad", "bad">>

Open(d, e) == IF d = Bad THEN Bad ELSE <<e, d>>
Close(d, e) == IF d[1] = e THEN d[2] ELSE Bad

(* An element written as a whole, which belongs into element e.            *)
Within(s, e) == IF s.doc[1] = e THEN s ELSE [tr |-> s.tr, doc |-> Bad]

(* tp_head and tp_foot                                                     *)
Head0 == [tr |-> {}, doc |-> Open(Open(Empty, "html"), "body")]
Foot(s) == [tr |-> s.tr, doc |-> Close(Close(s.doc, "body"), "html")]

OpenList(s) == IF "LIST" \in s.tr THEN s
               ELSE [tr |-> s.tr \cup {"LIST"}, doc |-> Open(s.doc, "ul")]
CloseList(s) == IF "LIST" \notin s.tr THEN s
                ELSE [tr |-> s.tr \ {"LIST"}, doc |-> Close(s.doc, "ul")]
OpenNav(s) == IF "NAV" \in s.tr THEN s
              ELSE [tr |-> s.tr \cup {"NAV"}, doc |-> Open(Open(s.doc, "nav"), "ul")]
CloseNav(s) == IF "NAV" \notin s.tr THEN s
               ELSE [tr |-> s.tr \ {"NAV"}, doc |-> Close(Close(s.doc, "ul"), "nav")]
OpenPre(s) == [tr |-> s.tr \cup {"PRE"}, doc |-> Open(Open(s.doc, "figure"), "pre")]
ClosePre(s) == IF "PRE" \notin s.tr THEN s
               ELSE [tr |-> s.tr \ {"PRE"}, doc |-> Close(Close(s.doc, "pre"), "figure")]

Kinds == {"pre", "bullet", "link", "quote", "heading", "empty", "text"}

Lines == [kind : Kinds \ {"link"}, url : {None}, beyond : {<<>>}]
         \cup [kind : {"link"}, url : Urls, beyond : Beyond]

(* The link of a line.                                                     *)
LinkLine(line, s) ==
    IF ~pc.noimgprv /\ MatchImageHeur(ProxyResurl(line.url, line.beyond))
    THEN Within(CloseNav(s), "body")
    ELSE Within(OpenNav(s), "ul")

(* Mutant: a preformatted block opens inside the navigation.               *)
PreInsideNav(line, s) ==
    IF "PRE" \in s.tr THEN (IF line.kind = "pre" THEN ClosePre(s) ELSE Within(s, "pre"))
    ELSE IF line.kind = "bullet" THEN Within(OpenList(CloseNav(s)), "ul")
    ELSE IF line.kind = "link" THEN LinkLine(line, CloseList(s))
    ELSE IF line.kind = "pre" THEN OpenPre(CloseList(s))
    ELSE CloseNav(CloseList(s))

(* gemtext_translate_line                                                  *)
TranslateLine(line, s) ==
    IF "PRE" \in s.tr THEN (IF line.kind = "pre" THEN ClosePre(s) ELSE Within(s, "pre"))
    ELSE IF line.kind = "bullet" THEN Within(OpenList(CloseNav(s)), "ul")
    ELSE IF line.kind = "link" THEN LinkLine(line, CloseList(s))
    ELSE IF line.kind = "pre" THEN OpenPre(CloseNav(CloseList(s)))
    ELSE IF line.kind = "empty" THEN CloseNav(CloseList(s))
    ELSE Within(CloseNav(CloseList(s)), "body")

(* Mutant: the navigation is left open.                                    *)
FinishKeepsNav(s) == Foot(CloseList(ClosePre(s)))

(* proxy_error at the end of a page.                                       *)
Finish(s) == Foot(CloseNav(CloseList(ClosePre(s))))

-----------------------------------------------------------------------------
(* The reply.                                                              *)

(* The parameters of a media type are its parts between semicolons.  A     *)
(* part that starts with a space is not recognised.                        *)
Recognised(mime, name) == {p \in mime.params : p.name = name /\ p.space = "no"}

(* parse_mime: whether the reply is refused, and whether it is translated. *)
ParseMime(mime) ==
    [ok |-> mime.type = "text/gemini" => \A p \in Recognised(mime, "charset") :
                                             p.value \notin {"utf-8", "ascii"},
     translate |-> mime.type = "text/gemini"]

Ended(kind) ==
    /\ phase' = "ended"
    /\ page' = kind
    /\ UNCHANGED <<cur, pending>>

(* proxy_read of the header: a page that asks for input, a redirection, an *)
(* error page, or the beginning of the body.                               *)
ReadHeader(r) ==
    /\ phase = "header"
    /\ href' = IF r.code = "3" /\ ~ResurlFails(r.url, r.beyond)
               THEN [url |-> r.url, to |-> ProxyResurl(r.url, r.beyond)] ELSE href
    /\ UNCHANGED pc
    /\ LET m == ParseMime(r.mime)
       IN  \/ r.code = "1" /\ Ended("other")
           \/ r.code = "3" /\ Ended(IF ResurlFails(r.url, r.beyond) THEN "error" ELSE "other")
           \/ r.code \in {"4", "invalid", "long"} /\ Ended("error")
           \/ r.code = "2" /\ ~m.ok /\ Ended("error")
           \/ /\ r.code = "2" /\ m.ok
              /\ phase' = "body"
              /\ page' = IF m.translate THEN "html" ELSE "raw"
              /\ cur' = IF m.translate THEN Head0 ELSE cur
              /\ UNCHANGED pending

(* proxy_translate_gemtext gets one more complete line.                    *)
ReadLine(line) ==
    /\ phase = "body"
    /\ page = "html"
    /\ cur' = TranslateLine(line, cur)
    /\ href' = IF line.kind = "link" /\ "PRE" \notin cur.tr
               THEN [url |-> line.url, to |-> ProxyResurl(line.url, line.beyond)] ELSE href
    /\ pending' = "no"
    /\ UNCHANGED <<pc, phase, page>>

(* The beginning of a line: evbuffer_readln leaves it in the buffer.       *)
ReadPartial ==
    /\ phase = "body"
    /\ page = "html"
    /\ pending' = "yes"
    /\ UNCHANGED <<pc, phase, page, cur, href>>

(* proxy_error: the upstream closed the connection, or it broke.  Only in  *)
(* the first case is the page completed.                                   *)
ProxyError(eof) ==
    /\ phase \in {"header", "body"}
    /\ phase' = "ended"
    /\ page' = IF phase = "header" THEN "error" ELSE IF eof THEN page ELSE "cut"
    /\ cur' = IF page = "html" /\ eof THEN Finish(cur) ELSE cur
    /\ UNCHANGED <<pc, pending, href>>

(* A write to the web server fails, wherever it happens.                   *)
WriteFails ==
    /\ phase \in {"header", "body"}
    /\ phase' = "failed"
    /\ UNCHANGED <<pc, page, cur, pending, href>>

NoMime == [type |-> "none", params |-> {}]

Replies == [code : {"1", "4", "invalid", "long"}, mime : {NoMime}, url : {None}, beyond : {<<>>}]
           \cup [code : {"2"}, mime : Mimes, url : {None}, beyond : {<<>>}]
           \cup [code : {"3"}, mime : {NoMime}, url : Urls, beyond : Beyond]

Init ==
    /\ pc \in Proxies
    /\ phase = "header"
    /\ page = "none"
    /\ cur = [tr |-> {}, doc |-> Empty]
    /\ pending = "no"
    /\ href = [url |-> None, to |-> None]

Next ==
    \/ \E r \in Replies : ReadHeader(r)
    \/ \E line \in Lines : ReadLine(line)
    \/ ReadPartial
    \/ \E eof \in BOOLEAN : ProxyError(eof)
    \/ WriteFails

Spec == Init /\ [][Next]_vars

-----------------------------------------------------------------------------
(* Properties.                                                             *)

(* The elements that are open when the flags are tr: the flags exclude one *)
(* another, and each stands for exactly the elements it will close.        *)
OpenFor(tr) ==
    IF tr = {"LIST"} THEN Open(Head0.doc, "ul")
    ELSE IF tr = {"NAV"} THEN Open(Open(Head0.doc, "nav"), "ul")
    ELSE IF tr = {"PRE"} THEN Open(Open(Head0.doc, "figure"), "pre")
    ELSE Head0.doc

(* Whatever lines a capsule sends, in whatever order, and wherever they    *)
(* are cut by the network: the TR_* flags never say two things at once,    *)
(* the elements they stand for are open, every element is closed inside    *)
(* the one that contains it, items are in lists and blocks in the body.    *)
WellNested ==
    phase = "body" /\ page = "html" =>
        /\ cur.tr \in {{}, {"LIST"}, {"NAV"}, {"PRE"}}
        /\ cur.doc = OpenFor(cur.tr)

(* A page that ends because the capsule closed the connection is complete: *)
(* nothing the translation opened is still open.                           *)
PageClosed == phase = "ended" /\ page = "html" => cur.tr = {} /\ cur.doc = Empty

(* How a URL is read: the authority is all before the first delimiter.     *)
Marks(s) == {i \in 1..Len(s) : s[i] \in Delimiters}

AuthorityLen(s) ==
    IF Marks(s) = {} THEN Len(s)
    ELSE (CHOOSE i \in Marks(s) : \A j \in Marks(s) : i <= j) - 1

Authority(s) == SubSeq(s, 1, AuthorityLen(s))
PathOf(s) == Skip(s, AuthorityLen(s))

WithPort(name) == name \o <<":">> \o pc.proxy_port

(* The capsule: without a port a Gemini URL has the standard one.          *)
StandardPort == <<"1965">>

IsCapsule(a) == \/ a = WithPort(pc.proxy_name)
                \/ a = pc.proxy_name /\ pc.proxy_port = StandardPort

InCapsule(path) == <<"capsule", path>>

OnGemini(s) == IF IsCapsule(Authority(s)) THEN InCapsule(PathOf(s)) ELSE <<"gemini", s>>

(* Where a link of a page of the capsule leads, in the capsule.            *)
Meant(u) ==
    IF u.scheme \in {"//", "gemini://"} THEN OnGemini(u.rest)
    ELSE IF u.scheme = "other://" THEN <<"other", u.rest>>
    ELSE IF Rooted(u.rest) THEN InCapsule(u.rest) ELSE <<"page", u.rest>>

(* Where a link of the page that the proxy made of it leads, on the web:   *)
(* what is below the script name is the proxy, which is the capsule.       *)
Followed(u) ==
    IF u.scheme = "gemini://" THEN OnGemini(u.rest)
    ELSE IF u.scheme = "//" THEN <<"web", u.rest>>
    ELSE IF u.scheme = "other://" THEN <<"other", u.rest>>
    ELSE IF IsPrefix(Script, u.rest)
         THEN InCapsule(<<"/">> \o Skip(u.rest, Len(Script)))
    ELSE IF Rooted(u.rest) THEN <<"web", u.rest>> ELSE <<"page", u.rest>>

(* The authority is the name of the proxy on the web.                      *)
WebName(u) ==
    /\ u.scheme \in {"//", "gemini://"}
    /\ Authority(u.rest) \in {pc.host, WithPort(pc.host)}

(* The link, rewritten, would fit the buffer and has a path, which is not  *)
(* read as an authority behind a script name that is only a slash.         *)
Rewritable(path) ==
    /\ Rooted(path) /\ (Len(path) > 1 => path[2] # "/")
    /\ Len(Script) + Len(path) - 1 < BufSize

(* Links lead where the capsule's do.  proxy_resurl takes SERVER_NAME, the *)
(* name of the proxy on the web, with no port or with that of the source,  *)
(* for the capsule, whatever the capsule's own name and port are: such     *)
(* links stay in the proxy and keep their path.  All others are left       *)
(* alone, also those whose authority only starts like that, and those that *)
(* give the capsule its own name where it differs: they lead to the        *)
(* capsule, but not through the proxy.  Nothing is said of links that are  *)
(* left as "//", which a browser takes for the web's, of those with the    *)
(* name of the proxy but no path, which proxy_resurl reads past the end of *)
(* or reduces to their query, and of those that do not fit the buffer.     *)
LinkRight ==
    LET u == href.url
        t == href.to
        path == IF u.scheme = "" THEN u.rest ELSE PathOf(u.rest)
        local == u.scheme = "" /\ (u.rest = <<>> \/ Rooted(u.rest))
    IN  /\ WebName(u) /\ Rewritable(path) => t.scheme = "" /\ Followed(t) = InCapsule(path)
        /\ u.scheme \in {"//", "gemini://", "other://"} /\ ~WebName(u) => t = u
        /\ ~WebName(u) /\ u.scheme # "//" /\ (local => Rewritable(path)) => Followed(t) = Meant(u)
=============================================================================
