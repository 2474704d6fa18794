----------------------------- MODULE MCFraming ------------------------------
(***************************************************************************)
(* Streams of records for Framing.                                         *)
(***************************************************************************)
EXTENDS Framing

RoomOf == [SERVER_NAME |-> 3, SCRIPT_NAME |-> 3, PATH_INFO |-> 3,
           QUERY_STRING |-> 2, REQUEST_METHOD |-> 2]

Rec(t, d, p) == [type |-> t, data |-> d, pad |-> p, over |-> 0]

Param(name, v) == [name |-> name, nlen |-> 1, value |-> v, long |-> FALSE]
LongLens(p) == [p EXCEPT !.long = TRUE]

Begin(p) == Rec("BEGIN", <<"role">>, p)
End(t) == Rec(t, <<>>, 0)

RequestMethod(m) == Param("REQUEST_METHOD", <<m>>)

(* Lists of parameters: repeated, empty, too long, unknown, with lengths   *)
(* in the long form, and with a name too long for pname but no value.      *)
Lists == {
    <<Param("SERVER_NAME", <<"a">>), Param("SERVER_NAME", <<"b", "b", "b">>)>>,
    <<LongLens(Param("SERVER_NAME", <<"a">>)), Param("SCRIPT_NAME", <<>>)>>,
    <<Param("SCRIPT_NAME", <<"/">>), Param("PATH_INFO", <<>>)>>,
    <<Param("SCRIPT_NAME", <<"/", "a">>), LongLens(Param("PATH_INFO", <<"/", "a">>))>>,
    <<Param("PATH_INFO", <<"a">>), Param("QUERY_STRING", <<"a">>)>>,
    <<Param("QUERY_STRING", <<"a">>), Param("QUERY_STRING", <<>>)>>,
    <<Param("HTTP_HOST", <<"a">>), Param("QUERY_STRING", <<"a", "a">>)>>,
    <<[Param("HTTP_LONG", <<>>) EXCEPT !.nlen = 2], Param("SERVER_NAME", <<"a">>)>> }

(* The forms, whole or cut in two at any place.                            *)
Forms == {<<"q", "=", "a">>, <<"q", "=", "a", "&", "b">>, <<"b", "&", "q", "=">>,
          <<"q", "=", "a", "\r">>, <<"q", "=", "\r", "a", "&">>, <<"a", "q", "=", "&", "q", "=">>, <<"a", "b">>}

Chunks(f) == {<<f>>} \cup {<<SubSeq(f, 1, i), SubSeq(f, i + 1, Len(f))>> : i \in 1..Len(f) - 1}
Stdin(fs, p) == [i \in 1..Len(fs) |-> Rec("STDIN", fs[i], p)]

Request(m, lists, fs, p) ==
    <<Begin(p), Rec("PARAMS", <<RequestMethod(m)>>, p)>>
        \o [i \in 1..Len(lists) |-> Rec("PARAMS", lists[i], p)]
        \o <<End("PARAMS")>> \o Stdin(fs, p) \o <<End("STDIN")>>

Gets == {Request("GET", <<l>>, <<>>, p) : l \in Lists, p \in 0..1}
        \cup {Request("GET", <<l1, l2>>, <<<<"a">>>>, 1) : l1, l2 \in Lists}

Posts == {Request("POST", <<>>, c, p) : c \in UNION {Chunks(f) : f \in Forms}, p \in 0..1}
         \cup {Request("POST", <<>>, <<<<"q", "=">>, <<"a", "b">>, <<"c", "d">>, <<"e">>>>, 0)}

(* Parameters that are continued in the next record: the connection is     *)
(* closed.                                                                 *)
Straddling == {<<Begin(0), [Rec("PARAMS", <<p>>, 0) EXCEPT !.over = n], End("PARAMS")>> :
                  p \in {LongLens(RequestMethod("GET"))}, n \in 1..9}

(* An abort, records for a request that is not active, unknown types, and  *)
(* a request that follows on one that was aborted.                         *)
Odd == {<<Begin(0), Rec("PARAMS", <<RequestMethod("GET")>>, 0), End("ABORT"), End("PARAMS"), End("ABORT")>>,
        <<Rec("PARAMS", <<RequestMethod("GET")>>, 1), Rec("STDIN", <<"a">>, 1), Begin(1), Begin(1)>>,
        <<Rec("BEGIN", <<"role", "role">>, 0), End("PARAMS")>>,
        Request("PUT", <<>>, <<<<"a">>>>, 1),
        <<Begin(0), Rec("OTHER", <<"a", "b">>, 1), End("OTHER"), End("PARAMS")>>}
       \cup {<<Begin(0), Rec("PARAMS", l, 0), End("ABORT"), Begin(0), Rec("PARAMS", <<RequestMethod("POST")>>, 1),
              End("PARAMS"), Rec("STDIN", <<"q", "=", "b">>, 1), End("STDIN")>> : l \in Lists}

(* A parameter with a name too long for pname and a value, a record with   *)
(* more of a form than fits in tmp, and an abort with a content.           *)
Big == {Request("GET", <<<<[Param("HTTP_LONG", <<"a">>) EXCEPT !.nlen = 2]>>>>, <<>>, 0),
        Request("POST", <<>>, <<<<"q", "=", "a", "a", "a", "a", "a">>>>, 0),
        <<Begin(0), Rec("ABORT", <<"a">>, 0), End("PARAMS")>>}

AllStreams == Gets \cup Posts \cup Odd \cup Straddling \cup Big
=============================================================================
