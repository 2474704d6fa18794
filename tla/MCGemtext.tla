----------------------------- MODULE MCGemtext ------------------------------
(***************************************************************************)
(* Proxies, links and media types for Gemtext.  The proxy is <<"www">> on  *)
(* the web; the capsule has the same name or another, and the standard     *)
(* port or another.                                                        *)
(***************************************************************************)
EXTENDS Gemtext

AllPieces == {"www", ".net", "gemini", "1965", "10965", "0", "s", "p", "q", "i"}

Www == <<"www">>
Capsule == <<"gemini">>

Proxy(name, port, noimgprv) ==
    [host |-> Www, proxy_name |-> name, proxy_port |-> port, noimgprv |-> noimgprv]

AllProxies == {Proxy(Capsule, StandardPort, FALSE), Proxy(Capsule, <<"10965">>, FALSE),
               Proxy(Www, StandardPort, TRUE), Proxy(Www, <<"10965">>, FALSE)}

(* Hosts and ports that are those of a proxy, or only start like them.     *)
Hosts == {Www, Www \o <<".net">>, Capsule}
Ports == {<<>>, <<":">>, <<":", "1965">>, <<":", "1965", "0">>, <<":", "10965">>}

LongPath == <<"/", "p", "p", "p", "p">>
Paths == {<<>>, <<"?", "q">>, <<"/", "p">>, <<"/", "i">>, <<"/", "/", "p">>, LongPath}

Absolute == [scheme : {"//", "gemini://", "other://"},
             rest : {h \o p \o x : h \in Hosts, p \in Ports, x \in Paths}]

Relative == [scheme : {""}, rest : {<<>>, <<"/">>, <<"/", "p">>, <<"/", "i">>, LongPath,
                                    <<"?", "q">>, <<"p">>, <<"i">>, <<"p", "/", "p">>}]

AllUrls == Absolute \cup Relative

AllBeyond == {<<>>, <<"p">>, <<"i">>}

ScriptName == <<"/", "s", "/">>

Par(name, value, space) == [name |-> name, value |-> value, space |-> space]

AllMimes == [type : {"text/gemini", "image/png"},
             params : SUBSET {Par("charset", "latin1", "no"), Par("charset", "utf-8", "no"),
                              Par("charset", "utf-8", "yes"), Par("lang", "en", "no")}]
=============================================================================
