------------------------------ MODULE Template ------------------------------
(***************************************************************************)
(* How a page becomes FastCGI records: the template functions fill a small *)
(* buffer of the client (tp_write, tp_htmlescape, tp_urlescape), which is  *)
(* flushed to clt_write whenever it is full, and clt_write cuts what it is *)
(* given into STDOUT records.  What the web server gets, put together and  *)
(* read as a browser reads it, must be what was meant.                     *)
(*                                                                         *)
(* A character of a text or of an URL is "a" (any that needs no care), or *)
(* one that an escape is about; "H", "M" and "B" are written as they are:  *)
(* headers, the markup of the templates, a body that is not translated.    *)
(* An entity is an "&", one letter and ";".                                *)
(***************************************************************************)
EXTENDS Naturals, Sequences

CONSTANTS
    Cap,        \* tp_cap: the size of clt_buf
    MaxContent, \* FCGI_MAX_CONTENT_SIZE
    MaxWritten, \* bound on the characters of a page
    TextChars,  \* the characters of texts
    UrlChars    \* the characters of URLs

(* The characters stand for all there are: "%" has no meaning in a text,   *)
(* where it is one that needs no care.  An URL has no "&" or "%" of its    *)
(* own, and no character that UrlChar gets wrong (see there).              *)
ASSUME TemplateAssumption ==
    /\ {Cap, MaxContent, MaxWritten} \subseteq Nat \ {0}
    /\ "%" \notin TextChars
    /\ UrlChars \cap {"&", "%", "tab"} = {}

VARIABLES
    buf,        \* tp_buf up to tp_len
    wire,       \* the contents of the STDOUT records sent
    meant,      \* what the callers wanted the browser to see
    stage       \* "new", "page" (through the template functions),
                \* "copy" (headersdone, not translated), "ended", "failed"

tpVars == <<buf, wire, meant, stage>>

Least(a, b) == IF a < b THEN a ELSE b

(* The sequences of ss one after the other.                                *)
Joining(ss) ==
    LET j[i \in 0..Len(ss)] == IF i = 0 THEN <<>> ELSE j[i - 1] \o ss[i]
    IN  j

Joined(ss) == Joining(ss)[Len(ss)]

(* Mutant: a record is sent before the rest is looked at.                  *)
CutEmptyToo(w) ==
    LET avail == Least(Len(w.rest), MaxContent)
    IN  [out |-> Append(w.out, SubSeq(w.rest, 1, avail)),
         rest |-> SubSeq(w.rest, avail + 1, Len(w.rest))]

(* The loop body of clt_write, with dowrite: nothing once all is written.  *)
CutRecord(w) ==
    LET avail == Least(Len(w.rest), MaxContent)
    IN  IF w.rest = <<>> THEN w
        ELSE [out |-> Append(w.out, SubSeq(w.rest, 1, avail)),
              rest |-> SubSeq(w.rest, avail + 1, Len(w.rest))]

(* clt_write after at most i times round its loop, and all of it.          *)
Cutting(data) ==
    LET w[i \in 0..Len(data)] ==
            IF i = 0 THEN [out |-> <<>>, rest |-> data] ELSE CutRecord(w[i - 1])
    IN  w

Records(data) == Cutting(data)[Len(data)].out

(* The loop body of tp_write, with the template_flush of a full buffer.    *)
FillBuffer(w) ==
    LET full == Len(w.buf) = Cap
        b == IF full THEN <<>> ELSE w.buf
        avail == Least(Len(w.rest), Cap - Len(b))
    IN  IF w.rest = <<>> THEN w
        ELSE [buf |-> b \o SubSeq(w.rest, 1, avail),
              out |-> IF full THEN w.out \o Records(w.buf) ELSE w.out,
              rest |-> SubSeq(w.rest, avail + 1, Len(w.rest))]

(* tp_write to the buffer b after at most i times round its loop, and all  *)
(* of it.                                                                  *)
Filling(b, str) ==
    LET w[i \in 0..Len(str)] ==
            IF i = 0 THEN [buf |-> b, out |-> <<>>, rest |-> str] ELSE FillBuffer(w[i - 1])
    IN  w

TpWrite(b, str) == Filling(b, str)[Len(str)]

(* tp_htmlescape of a character                                            *)
HtmlChar(c) ==
    CASE c = "<" -> <<"&", "l", ";">>
      [] c = "&" -> <<"&", "m", ";">>
      [] c = "'" -> <<"&", "p", ";">>
      [] OTHER -> <<c>>

(* tp_urlescape of a character.  The format "%%%2X" pads the number of a   *)
(* control character below 16 with a space, not with a zero.  A char that  *)
(* is negative has a number too long for tmp, and the rest of the URL is   *)
(* dropped: this needs a locale in which a byte above 127 is a control     *)
(* character or a space, and is left out.                                  *)
UrlChar(c) ==
    CASE c = "tab" -> <<"%", " ", "9">>
      [] c = " " -> <<"%", "2", "0">>
      [] c = "'" -> <<"%", "2", "7">>
      [] OTHER -> <<c>>

Plain(c, n) == [i \in 1..n |-> c]

(* Text that is written as chars, for the browser to see as means.         *)
Emit(chars, means) ==
    LET s == TpWrite(buf, chars)
    IN  /\ Len(meant) + Len(means) <= MaxWritten
        /\ buf' = s.buf
        /\ wire' = wire \o s.out
        /\ meant' = meant \o means

(* proxy_start_reply or the header of a page that is translated: n         *)
(* characters that are not escaped.                                        *)
StartPage(n) ==
    /\ stage = "new"
    /\ stage' = "page"
    /\ Emit(Plain("H", n), Plain("H", n))

(* Mutant: the header stays in the buffer.                                 *)
StartCopyUnflushed(n) ==
    /\ stage = "new"
    /\ stage' = "copy"
    /\ Emit(Plain("H", n), Plain("H", n))

(* proxy_read of the header of a reply that is served as it is: the header *)
(* is flushed, as the body goes round the buffer.                          *)
StartCopy(n) ==
    LET s == TpWrite(buf, Plain("H", n))
    IN  /\ stage = "new"
        /\ stage' = "copy"
        /\ Len(meant) + n <= MaxWritten
        /\ buf' = <<>>
        /\ wire' = wire \o s.out \o Records(s.buf)
        /\ meant' = meant \o Plain("H", n)

TpWrites(n) == stage = "page" /\ Emit(Plain("M", n), Plain("M", n)) /\ UNCHANGED stage

TpHtmlescape(c) == stage = "page" /\ Emit(HtmlChar(c), <<c>>) /\ UNCHANGED stage

TpUrlescape(c) == stage = "page" /\ Emit(UrlChar(c), <<c>>) /\ UNCHANGED stage

(* clt_write_bufferevent with n bytes, none when proxy_read calls itself   *)
(* after a header that came alone.                                         *)
CltWriteBufferevent(n) ==
    /\ stage = "copy"
    /\ Len(meant) + n <= MaxWritten
    /\ wire' = wire \o Records(Plain("B", n))
    /\ meant' = meant \o Plain("B", n)
    /\ UNCHANGED <<buf, stage>>

(* end_request: clt_flush, and template_flush sends nothing if there is    *)
(* nothing; then the end of the request.                                   *)
EndRequest ==
    /\ stage \in {"page", "copy"}
    /\ stage' = "ended"
    /\ wire' = wire \o Records(buf)
    /\ buf' = <<>>
    /\ UNCHANGED meant

(* A write of dowrite fails: fcgi_error drops the connection, so that what *)
(* was sent is not taken for a page.                                       *)
DowriteFails ==
    /\ stage \in {"page", "copy"}
    /\ stage' = "failed"
    /\ UNCHANGED <<buf, wire, meant>>

TpInit == buf = <<>> /\ wire = <<>> /\ meant = <<>> /\ stage = "new"

TpNext ==
    \/ \E n \in 1..MaxWritten : StartPage(n) \/ StartCopy(n) \/ TpWrites(n)
    \/ \E n \in 0..MaxWritten : CltWriteBufferevent(n)
    \/ \E c \in TextChars : TpHtmlescape(c)
    \/ \E c \in UrlChars : TpUrlescape(c)
    \/ EndRequest
    \/ DowriteFails

TpSpec == TpInit /\ [][TpNext]_tpVars

-----------------------------------------------------------------------------
(* Properties.                                                             *)

(* What an entity or a percent code stands for; the browser shows others  *)
(* as they are.                                                            *)
Decoded(code) ==
    CASE code = <<"&", "l", ";">> -> <<"<">>
      [] code = <<"&", "m", ";">> -> <<"&">>
      [] code \in {<<"&", "p", ";">>, <<"%", "2", "7">>} -> <<"'">>
      [] code = <<"%", "2", "0">> -> <<" ">>
      [] code = <<"%", "0", "9">> -> <<"tab">>
      [] OTHER -> code

(* The browser reads one more character: r.code is the part of an entity   *)
(* or of a percent code that it has read.                                  *)
ReadChar(r, c) ==
    IF r.code = <<>> /\ c \notin {"&", "%"} THEN [seen |-> Append(r.seen, c), code |-> <<>>]
    ELSE IF Len(r.code) < 2 THEN [seen |-> r.seen, code |-> Append(r.code, c)]
    ELSE [seen |-> r.seen \o Decoded(Append(r.code, c)), code |-> <<>>]

Reading(s) ==
    LET r[i \in 0..Len(s)] ==
            IF i = 0 THEN [seen |-> <<>>, code |-> <<>>] ELSE ReadChar(r[i - 1], s[i])
    IN  r

Shown(s) == Reading(s)[Len(s)].seen \o Reading(s)[Len(s)].code

(* However tp_write and clt_write cut a page, also in the middle of an     *)
(* entity, and whichever of its parts go round the buffer, at every moment *)
(* what was sent and what waits in the buffer are, in this order, what the *)
(* callers wrote: nothing is lost, doubled or out of place, and text that  *)
(* looks like an entity or like markup is seen as the text it is.  When a  *)
(* request is ended all of its page was sent before the end.               *)
ShownAsMeant ==
    /\ Shown(Joined(wire) \o buf) = meant
    /\ stage = "ended" => buf = <<>>

(* dowrite never sends an empty STDOUT record, which tells the web server  *)
(* that the output is at its end, nor one longer than its length field can *)
(* say, whatever the sizes of the writes and of the buffer.                *)
RecordsRight == \A n \in 1..Len(wire) : Len(wire[n]) \in 1..MaxContent
=============================================================================
