------------------------------ MODULE Framing -------------------------------
(***************************************************************************)
(* How fcgi_read turns the bytes of a FastCGI connection into records, and *)
(* the records of a request into the fields of its client: the automaton   *)
(* of fcg_want and fcg_toread over input that arrives in arbitrary pieces, *)
(* parse_len, fcgi_parse_params and fcgi_parse_form.  What a record does   *)
(* to the request once it is understood is in Worker.                      *)
(*                                                                         *)
(* Bytes are counted in units, tagged with what the web server meant by    *)
(* them; the code never looks at the tag, but when it takes a unit for     *)
(* something else it is lost: what it reads then depends on bytes the      *)
(* model does not have.  The records of one request are followed.          *)
(***************************************************************************)
EXTENDS Integers, Sequences

CONSTANTS
    Streams,        \* what the web server may send: sequences of records
    HdrSize,        \* sizeof(struct fcgi_header)
    BeginSize,      \* sizeof(struct fcgi_begin_req)
    PnameSize,      \* sizeof(pname) in fcgi_parse_params
    Room,           \* the size of the buffer for the value of each parameter
    TmpSize,        \* sizeof(tmp) in fcgi_parse_form
    MaxLen          \* GEMINI_MAXLEN

VARIABLES
    sent,       \* the records the web server sends, and
    net,        \* the units of them that have not arrived
    src,        \* the input buffer of fcg_bev
    fcgi,       \* fcg_want, fcg_toread, fcg_padding and fcg_type
    clt,        \* the client of the request
    handled,    \* how many records have been dispatched
    state,      \* "open", "closed" (fcgi_error) or "lost"
    late        \* history: a record was done before all its padding arrived

vars == <<sent, net, src, fcgi, clt, handled, state, late>>

Null == <<"NULL">>

-----------------------------------------------------------------------------
(* What the web server puts on the wire.                                   *)

(* The sequences of ss one after the other.                                *)
Joining(ss) ==
    LET j[i \in 0..Len(ss)] == IF i = 0 THEN <<>> ELSE j[i - 1] \o ss[i]
    IN  j

Joined(ss) == Joining(ss)[Len(ss)]

(* A length: one unit, or four with the high bit set in the first.         *)
EncodeLen(n, long) ==
    IF long THEN << <<"len4", n>>, <<"x">>, <<"x">>, <<"x">> >> ELSE << <<"len", n>> >>

(* A parameter has a name of nlen units, a value, and the form of lengths. *)
EncodeParam(p) ==
    EncodeLen(p.nlen, p.long) \o EncodeLen(Len(p.value), p.long)
        \o [i \in 1..p.nlen |-> <<"name", p.name>>]
        \o [i \in 1..Len(p.value) |-> <<"value", p.value[i]>>]

EncodeParams(data) == Joined([i \in 1..Len(data) |-> EncodeParam(data[i])])

(* A parameter may not end in the record it starts in: the last rec.over   *)
(* units of the last one are then in the next record.                      *)
Content(rec) ==
    IF rec.type = "PARAMS"
    THEN SubSeq(EncodeParams(rec.data), 1, Len(EncodeParams(rec.data)) - rec.over)
    ELSE [i \in 1..Len(rec.data) |-> <<"data", rec.data[i]>>]

Padding(rec) == [i \in 1..rec.pad |-> <<"pad">>]

Encode(rec, j) == [i \in 1..HdrSize |-> <<"header", j, i>>] \o Content(rec) \o Padding(rec)

(* The units of the records of s from the j-th on.                         *)
WireFrom(s) ==
    LET w[j \in 1..Len(s) + 1] == IF j = Len(s) + 1 THEN <<>> ELSE Encode(s[j], j) \o w[j + 1]
    IN  w

Wire(s, j) == WireFrom(s)[j]

(* The parameters that fcgi_parse_params knows.                            *)
Known == {"SERVER_NAME", "SCRIPT_NAME", "PATH_INFO", "QUERY_STRING", "REQUEST_METHOD"}

(* A character is any string but the one in Null.                          *)
Char == STRING \ {"NULL"}

(* The names that are known fit in pname, and none of them is empty.  The  *)
(* sum of the two lengths is an int in fcgi_parse_params.                  *)
IntMax == 2147483647

ParamSet ==
    {p \in [name : STRING, nlen : Nat, value : Seq(Char), long : BOOLEAN] :
        /\ p.name \in Known => p.nlen \in 1..(PnameSize - 1)
        /\ p.nlen + Len(p.value) <= IntMax}

RecordSet ==
    [type : {"BEGIN", "STDIN", "ABORT", "OTHER"}, data : Seq(Char), pad : Nat, over : {0}]
    \cup {r \in [type : {"PARAMS"}, data : Seq(ParamSet), pad : Nat, over : Nat] :
             r.over # 0 => /\ r.data # <<>>
                           /\ r.over < Len(EncodeParam(r.data[Len(r.data)]))}

ASSUME FramingAssumption ==
    /\ {HdrSize, BeginSize, PnameSize, TmpSize, MaxLen} \subseteq Nat \ {0}
    /\ Room \in [Known -> Nat]
    /\ Streams # {} /\ Streams \subseteq Seq(RecordSet)

-----------------------------------------------------------------------------
(* The parsers.                                                            *)

(* evbuffer_drain: as much as there is.                                    *)
Drain(s, n) == SubSeq(s, n + 1, Len(s))

Tagged(s, n, tag) == Len(s) >= n /\ \A i \in 1..n : s[i][1] = tag

(* parse_len; -1 is its failure, -2 the unknown value of some other unit.  *)
ParseLen(s, toread) ==
    CASE Tagged(s, 1, "len") -> [n |-> s[1][2], src |-> Tail(s), toread |-> toread - 1]
      [] Tagged(s, 1, "len4") ->
            IF toread - 1 < 3 THEN [n |-> -1, src |-> Tail(s), toread |-> toread - 1]
            ELSE [n |-> s[1][2], src |-> Drain(s, 4), toread |-> toread - 4]
      [] OTHER -> [n |-> -2, src |-> Drain(s, 1), toread |-> toread - 1]

(* A directory always ends, a path always starts with a slash.             *)
ScriptName(v) == IF v = <<>> \/ v[Len(v)] # "/" THEN Append(v, "/") ELSE v

(* Mutant: an empty path stays empty.                                      *)
PathInfoEmpty(v) == IF v # <<>> /\ v[1] # "/" THEN <<"/">> \o v ELSE v

PathInfo(v) == IF v = <<>> \/ v[1] # "/" THEN <<"/">> \o v ELSE v

(* A method that is neither GET nor POST leaves clt_method as it is.       *)
Method(old, v) == IF v \in {<<"GET">>, <<"POST">>} THEN v[1] ELSE old

(* What fcgi_parse_params does with a value: parameters it does not know,  *)
(* and values that do not fit, are skipped.                                *)
Store(k, name, v) ==
    IF name \notin Known \/ Len(v) >= Room[name] THEN k
    ELSE CASE name = "SERVER_NAME" -> [k EXCEPT !.server = v]
           [] name = "SCRIPT_NAME" -> [k EXCEPT !.script = ScriptName(v)]
           [] name = "PATH_INFO" -> [k EXCEPT !.path = PathInfo(v)]
           [] name = "QUERY_STRING" -> [k EXCEPT !.query = IF v = <<>> THEN @ ELSE v]
           [] name = "REQUEST_METHOD" -> [k EXCEPT !.method = Method(@, v)]

(* The loop body of fcgi_parse_params: a parameter, from the input buffer  *)
(* p.src with p.toread units to go, unless it is over.                     *)
ParseParam(p) ==
    LET n == ParseLen(p.src, p.toread)
        v == ParseLen(n.src, n.toread)
        name == IF n.n = 0 THEN "" ELSE v.src[1][2]
        value == [i \in 1..v.n |-> v.src[n.n + i][2]]
    IN  IF p.res # "more" THEN p
        ELSE IF p.toread <= 0 THEN [p EXCEPT !.res = "ok"]
        ELSE IF n.n = -1 \/ (n.n >= 0 /\ v.n = -1) THEN [p EXCEPT !.res = "fail"]
        ELSE IF n.n >= 0 /\ v.toread < (IF v.n = -2 THEN 0 ELSE n.n + v.n)
        THEN [p EXCEPT !.res = "fail"]
        ELSE IF n.n = -2 \/ v.n = -2 THEN [p EXCEPT !.res = "lost"]
        ELSE IF n.n > PnameSize - 1      \* ignore this parameter
        THEN [p EXCEPT !.src = Drain(v.src, n.n + v.n), !.toread = v.toread - (n.n - v.n)]
        ELSE IF ~Tagged(v.src, n.n, "name") \/ ~Tagged(Drain(v.src, n.n), v.n, "value")
        THEN [p EXCEPT !.res = "lost"]
        ELSE [p EXCEPT !.src = Drain(v.src, n.n + v.n), !.toread = v.toread - n.n - v.n,
                       !.clt = Store(@, name, value)]

(* fcgi_parse_params after at most i times round its loop, and all of it:  *)
(* whenever it goes on it has taken something from the content.            *)
Parsing(s, toread, k) ==
    LET p[i \in 0..toread + 1] ==
            IF i = 0 THEN [res |-> "more", src |-> s, toread |-> toread, clt |-> k]
            ELSE ParseParam(p[i - 1])
    IN  p

ParseParams(s, toread, k) == Parsing(s, toread, k)[toread + 1]

(* Where the first of some characters is in s, 0 if nowhere.               *)
FirstOf(s, chars) ==
    LET at == {i \in 1..Len(s) : s[i] \in chars}
    IN  IF at = {} THEN 0 ELSE CHOOSE i \in at : \A j \in at : i <= j

(* Mutant: only "&" ends a value.                                          *)
CutAtAmpOnly(s) == FirstOf(s, {"&"})

(* The part of s before its first "&" or, if it has none, its first "\r".  *)
CutAt(s) == IF FirstOf(s, {"&"}) # 0 THEN FirstOf(s, {"&"}) ELSE FirstOf(s, {"\r"})
Cut(s) == IF CutAt(s) = 0 THEN s ELSE SubSeq(s, 1, CutAt(s) - 1)

(* Where "q=" starts in s, 0 if nowhere.                                   *)
FindQ(s) ==
    LET at == {i \in 1..Len(s) - 1 : s[i] = "q" /\ s[i + 1] = "="}
    IN  IF at = {} THEN 0 ELSE CHOOSE i \in at : \A j \in at : i <= j

(* fcgi_parse_form of one chunk.  (Allocations that fail are in Worker.)   *)
ParseForm(k, tmp) ==
    LET s == Drain(tmp, FindQ(tmp) + 1)
    IN  IF k.bodydone THEN k
        ELSE IF k.bodylen > MaxLen THEN [k EXCEPT !.body = Null]
        ELSE IF k.body # Null
        THEN [k EXCEPT !.body = @ \o Cut(tmp), !.bodylen = @ + Len(Cut(tmp)),
                       !.bodydone = CutAt(tmp) # 0]
        ELSE IF k.bodylen # 0 \/ FindQ(tmp) = 0 THEN k
        ELSE [k EXCEPT !.body = Cut(s), !.bodylen = Len(Cut(s)), !.bodydone = CutAt(s) # 0]

-----------------------------------------------------------------------------
(* fcgi_read.                                                              *)

NoClient == [live |-> FALSE, method |-> "UNKNOWN", server |-> Null, script |-> Null,
             path |-> Null, query |-> Null, body |-> Null, bodylen |-> 0,
             bodydone |-> FALSE, started |-> FALSE]

NextRecord == [want |-> "HEADER", toread |-> HdrSize, padding |-> 0, type |-> "NONE"]

(* More input arrives after fcgi_read has returned for lack of it.         *)
Arrive ==
    /\ state = "open"
    /\ Len(src) < fcgi.toread
    /\ \E n \in 1..Len(net) :
          /\ src' = src \o SubSeq(net, 1, n)
          /\ net' = Drain(net, n)
    /\ UNCHANGED <<sent, fcgi, clt, handled, state, late>>

(* Mutant: a record without content waits for more input.                  *)
ReadyStrict(want) == state = "open" /\ fcgi.want = want /\ Len(src) > fcgi.toread

Ready(want) == state = "open" /\ fcgi.want = want /\ Len(src) >= fcgi.toread

(* A record header, if that is what the first units are.                   *)
ReadHeader ==
    /\ Ready("HEADER")
    /\ src' = Drain(src, HdrSize)
    /\ IF \E j \in 1..Len(sent) : \A i \in 1..HdrSize : src[i] = <<"header", j, i>>
       THEN LET rec == sent[src[1][2]]
            IN  /\ fcgi' = [want |-> "BODY", toread |-> Len(Content(rec)),
                            padding |-> rec.pad, type |-> rec.type]
                /\ UNCHANGED state
       ELSE state' = "lost" /\ UNCHANGED fcgi
    /\ UNCHANGED <<sent, net, clt, handled, late>>

(* Mutant: the padding stays in the buffer.                                *)
PrepareKeepsPadding(s, k) ==
    /\ src' = s
    /\ fcgi' = NextRecord
    /\ clt' = k
    /\ handled' = handled + 1
    /\ late' = (late \/ Len(s) < fcgi.padding)
    /\ UNCHANGED <<sent, net, state>>

(* The record is done: s is left of the input and the client is k.         *)
Prepare(s, k) ==
    /\ src' = Drain(s, fcgi.padding)
    /\ fcgi' = NextRecord
    /\ clt' = k
    /\ handled' = handled + 1
    /\ late' = (late \/ Len(s) < fcgi.padding)
    /\ UNCHANGED <<sent, net, state>>

FcgiError(how) == state' = how /\ UNCHANGED <<sent, net, src, fcgi, clt, handled, late>>

Body(type) == Ready("BODY") /\ fcgi.type = type

ReadBegin ==
    /\ Body("BEGIN")
    /\ IF fcgi.toread # BeginSize THEN FcgiError("closed")
       ELSE Prepare(Drain(src, BeginSize), IF clt.live THEN clt ELSE [NoClient EXCEPT !.live = TRUE])

ReadParams ==
    /\ Body("PARAMS")
    /\ LET parsed == ParseParams(src, fcgi.toread, clt)
       IN  IF ~clt.live THEN Prepare(Drain(src, fcgi.toread), clt)
           ELSE IF fcgi.toread = 0
           THEN Prepare(src, [clt EXCEPT !.started = @ \/ clt.method = "GET"])
           ELSE IF parsed.res = "ok" THEN Prepare(parsed.src, parsed.clt)
           ELSE FcgiError(IF parsed.res = "lost" THEN "lost" ELSE "closed")

(* A copy of a parameter cannot be allocated.                              *)
ParamsNoMemory ==
    /\ Body("PARAMS")
    /\ clt.live /\ fcgi.toread > 0
    /\ FcgiError("closed")

(* fcgi_parse_form takes TmpSize - 1 units of a record at most.            *)
ReadStdin ==
    /\ Body("STDIN")
    /\ LET len == IF TmpSize - 1 < fcgi.toread THEN TmpSize - 1 ELSE fcgi.toread
       IN  IF ~clt.live \/ clt.method # "POST" THEN Prepare(Drain(src, fcgi.toread), clt)
           ELSE IF fcgi.toread = 0
           THEN Prepare(src, [clt EXCEPT !.bodydone = TRUE, !.started = TRUE])
           ELSE Prepare(Drain(src, len), ParseForm(clt, [i \in 1..len |-> src[i][2]]))

ReadAbort ==
    /\ Body("ABORT")
    /\ Prepare(IF clt.live THEN src ELSE Drain(src, fcgi.toread), NoClient)

ReadOther ==
    /\ Body("OTHER")
    /\ Prepare(Drain(src, fcgi.toread), clt)

FcgiRead ==
    \/ ReadHeader
    \/ ReadBegin
    \/ ReadParams
    \/ ParamsNoMemory
    \/ ReadStdin
    \/ ReadAbort
    \/ ReadOther

(* fcgi_accept sets up the automaton.                                      *)
Init ==
    /\ sent \in Streams
    /\ net = Wire(sent, 1)
    /\ src = <<>>
    /\ fcgi = NextRecord
    /\ clt = NoClient
    /\ handled = 0
    /\ state = "open"
    /\ late = FALSE

Next == Arrive \/ FcgiRead

Spec == Init /\ [][Next]_vars

(* The web server sends what it started to send; libevent reports it.  The *)
(* last conjunct is the weak fairness of FcgiRead, which is enabled just   *)
(* when a header or a body is complete.                                    *)
FairSpec ==
    /\ Spec
    /\ WF_vars(Arrive)
    /\ []<>~(Ready("HEADER") \/ Ready("BODY")) \/ []<><<FcgiRead>>_vars

-----------------------------------------------------------------------------
(* Properties.                                                             *)

(* The records up to the one in hand that fcgi_read does not consume       *)
(* whole: a parameter that is ignored for its name but has a value (the    *)
(* lengths are subtracted from each other), more of a form than tmp can    *)
(* take, and an abort with a content.                                      *)
Leftover ==
    \E j \in 1..Len(sent) :
        /\ j <= handled + 1
        /\ \/ /\ sent[j].type = "PARAMS"
              /\ \E i \in 1..Len(sent[j].data) :
                    sent[j].data[i].nlen >= PnameSize /\ sent[j].data[i].value # <<>>
           \/ sent[j].type = "STDIN" /\ Len(sent[j].data) >= TmpSize
           \/ sent[j].type = "ABORT" /\ sent[j].data # <<>>

(* "Prepare for the next record" (fcgi.c) does so: whenever fcgi_read      *)
(* expects a header, the unread input starts with the header of the next   *)
(* record, however the input was cut into pieces; unless a record was done *)
(* before all of its padding had arrived, or was not consumed whole.       *)
InSync ==
    ~late /\ ~Leftover =>
        /\ state # "lost"
        /\ state = "open" /\ fcgi.want = "HEADER" => src \o net = Wire(sent, handled + 1)

(* The records handled that belong to the present client: it began after   *)
(* the last abort.                                                         *)
Current(j) ==
    \E b \in 1..j - 1 : sent[b].type = "BEGIN" /\ \A a \in b..handled : sent[a].type # "ABORT"

(* What its records of some type say, all together.                        *)
Given(type) ==
    Joined([j \in 1..handled |->
               IF sent[j].type = type /\ Current(j) THEN sent[j].data ELSE <<>>])

(* The last value of a parameter that fits its buffer.                     *)
LastValue(ps, name) ==
    LET at == {i \in 1..Len(ps) : ps[i].name = name /\ Len(ps[i].value) < Room[name]}
    IN  IF at = {} THEN Null ELSE ps[CHOOSE i \in at : \A j \in at : j <= i].value

(* The fields of client k are those of the parameters ps.                  *)
FieldsOf(k, ps) ==
    /\ k.server = LastValue(ps, "SERVER_NAME")
    /\ LET v == LastValue(ps, "SCRIPT_NAME") IN
       IF v = Null THEN k.script = Null
       ELSE /\ k.script \in {v, Append(v, "/")}
            /\ k.script # <<>> /\ k.script[Len(k.script)] = "/"
    /\ LET v == LastValue(ps, "PATH_INFO") IN
       IF v = Null THEN k.path = Null
       ELSE k.path # <<>> /\ k.path[1] = "/" /\ k.path \in {v, <<"/">> \o v}
    /\ LET v == LastValue(ps, "QUERY_STRING") IN
       /\ v \notin {Null, <<>>} => k.query = v
       /\ v = Null => k.query = Null

(* The fields of a client are those of its parameters, however these are   *)
(* distributed over records and pieces of input and whatever else is among *)
(* them: the last value that fits, the script name made to end and the     *)
(* path to begin with a slash, since the two are put together later.       *)
FieldsRight == clt.live /\ ~Leftover => \E ps \in {Given("PARAMS")} : FieldsOf(clt, ps)

(* The records of the client are in the order of the protocol: its         *)
(* parameters, then a form up to an empty record.                          *)
Orderly ==
    \A j, k \in 1..handled : j < k /\ sent[j].type = "STDIN" /\ Current(j) =>
        /\ sent[k].type # "PARAMS"
        /\ sent[j].data = <<>> => sent[k].type # "STDIN"

(* A record of the form ends between "q" and "=".                          *)
MarkerSplit ==
    \E j \in 1..handled : /\ sent[j].type = "STDIN" /\ Current(j) /\ sent[j].data # <<>>
                          /\ sent[j].data[Len(sent[j].data)] = "q"

(* The value of field "q": what follows the first "q=", to "&" or "\r".    *)
FieldQ(form) ==
    LET s == Drain(form, FindQ(form) + 1)
        stop == FirstOf(s, {"&", "\r"})
    IN  IF FindQ(form) = 0 THEN Null
        ELSE IF stop = 0 THEN s
        ELSE SubSeq(s, 1, stop - 1)

(* No field comes after a "\r".                                            *)
ReturnsLast(form) ==
    \A i, j \in 1..Len(form) : i < j /\ form[i] = "\r" => form[j] # "&"

(* A POST has the query of the form so far, in however many records that   *)
(* came: what it starts with is that of the whole form.  No record may end *)
(* inside the "q=" that marks it, and no "\r" come before a "&" (which of  *)
(* them ends the value then depends on the records); a value that is too   *)
(* long may be refused, but is never cut.                                  *)
FormRight ==
    clt.live /\ clt.method = "POST" /\ Orderly /\ ~MarkerSplit /\ ~Leftover =>
        \E form \in {Given("STDIN")} :
            \/ ~ReturnsLast(form)
            \/ clt.body = FieldQ(form)
            \/ clt.body = Null /\ clt.bodylen > MaxLen

(* Everything the web server sends gets handled: fcgi_read never waits for *)
(* input that is not coming.                                               *)
AllHandled == <>(handled = Len(sent) \/ state # "open")
=============================================================================
