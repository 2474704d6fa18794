------------------------------- MODULE Accept -------------------------------
(***************************************************************************)
(* The admission of connections by one proxy process: accept_reserve, the  *)
(* fcgi_inflight counter it is given, the pause when descriptors run out,  *)
(* and what a reload does to all of them.  Connections and the descriptors *)
(* of their requests are counted; what happens on them is in Worker.  A    *)
(* web server uses a connection for one request at a time, so a connection *)
(* needs at most one descriptor besides its own: the resolver's socket,    *)
(* then the upstream one.                                                  *)
(***************************************************************************)
EXTENDS Naturals

CONSTANTS
    DtableSize,   \* getdtablesize()
    Base,         \* descriptors the process always has open
    FdReserve,    \* FD_RESERVE
    MaxBacklog    \* bound on the connections waiting in the listen queue

ASSUME AcceptAssumption ==
    /\ DtableSize \in Nat
    /\ Base \in Nat
    /\ FdReserve \in Nat \ {0}
    /\ MaxBacklog \in Nat

VARIABLES
    lis,        \* sc_sock_fd and sc_evsock: "closed", "set", "on" or "paused"
    evpause,    \* the sc_evpause timer: "off" or "added"
    backlog,    \* connections waiting to be accepted
    conns,      \* open connections, the size of sc_fcgi_socks
    ups,        \* descriptors used by their requests
    inflight,   \* fcgi_inflight
    purged      \* history: connections a reload freed without fcgi_error

acceptVars == <<lis, evpause, backlog, conns, ups, inflight, purged>>

(* getdtablecount()                                                        *)
Dtablecount == Base + (IF lis = "closed" THEN 0 ELSE 1) + conns + ups

(* Mutant: the descriptors not yet opened for accepted connections are not *)
(* taken into account.                                                     *)
RoomIgnoresInflight == Dtablecount + FdReserve < DtableSize

(* The test of accept_reserve.                                             *)
Room == Dtablecount + FdReserve + inflight < DtableSize

-----------------------------------------------------------------------------
(* fcgi_accept called by sc_evsock.                                        *)
FcgiAccept ==
    /\ lis = "on" /\ backlog > 0
    /\ Room
    /\ backlog' = backlog - 1
    /\ conns' = conns + 1
    /\ inflight' = inflight + 1
    /\ UNCHANGED <<lis, evpause, ups, purged>>

(* Mutant: the error path of fcgi_accept does not decrement the counter.   *)
AcceptFailsCounted ==
    /\ lis = "on" /\ backlog > 0
    /\ Room
    /\ backlog' = backlog - 1
    /\ inflight' = inflight + 1
    /\ UNCHANGED <<lis, evpause, conns, ups, purged>>

(* The connection was accepted, but no struct fcgi or bufferevent could be *)
(* allocated: it is closed again.                                          *)
FcgiAcceptFails ==
    /\ lis = "on" /\ backlog > 0
    /\ Room
    /\ backlog' = backlog - 1
    /\ UNCHANGED <<lis, evpause, conns, ups, inflight, purged>>

(* ENFILE or EMFILE, from accept_reserve or from the system: stop watching *)
(* the socket and start the timer.                                         *)
FcgiAcceptPause ==
    /\ lis = "on" /\ backlog > 0
    /\ lis' = "paused"
    /\ evpause' = "added"
    /\ UNCHANGED <<backlog, conns, ups, inflight, purged>>

(* fcgi_accept called by sc_evpause: it returns after an event_add of the  *)
(* same timer without a timeout, which schedules nothing.                  *)
FcgiAcceptTimeout ==
    /\ evpause = "added"
    /\ evpause' = "off"
    /\ UNCHANGED <<lis, backlog, conns, ups, inflight, purged>>

(* The web server connects; another proxy process accepts.                 *)
Arrive ==
    /\ lis # "closed" /\ backlog < MaxBacklog
    /\ backlog' = backlog + 1
    /\ UNCHANGED <<lis, evpause, conns, ups, inflight, purged>>

TakenByOther ==
    /\ backlog > 0
    /\ backlog' = backlog - 1
    /\ UNCHANGED <<lis, evpause, conns, ups, inflight, purged>>

-----------------------------------------------------------------------------
(* A request opens a descriptor (resolver, then proxy_connect) and closes  *)
(* it (proxy_client_free).                                                 *)
OpenUpstream ==
    /\ ups < conns
    /\ Dtablecount < DtableSize
    /\ ups' = ups + 1
    /\ UNCHANGED <<lis, evpause, backlog, conns, inflight, purged>>

CloseUpstream ==
    /\ ups > 0
    /\ ups' = ups - 1
    /\ UNCHANGED <<lis, evpause, backlog, conns, inflight, purged>>

(* fcgi_error closes a connection, with the descriptor of its request if   *)
(* it has one.                                                             *)
FcgiError ==
    /\ conns > 0
    /\ conns' = conns - 1
    /\ inflight' = inflight - 1
    /\ \/ ups > 0 /\ ups' = ups - 1
       \/ ups < conns /\ ups' = ups
    /\ UNCHANGED <<lis, evpause, backlog, purged>>

(* config_purge: connections are freed directly, except the n whose abort  *)
(* could not be written and went through fcgi_error.                       *)
ConfigPurge ==
    /\ \E n \in 0..conns :
          /\ inflight' = inflight - n
          /\ purged' = purged + (conns - n)
    /\ conns' = 0 /\ ups' = 0
    /\ lis' = "closed" /\ evpause' = "off" /\ backlog' = 0

(* IMSG_CFG_SOCK and IMSG_CFG_DONE.                                        *)
ConfigGetSock ==
    /\ lis = "closed"
    /\ lis' = "set"
    /\ UNCHANGED <<evpause, backlog, conns, ups, inflight, purged>>

ProxyLaunch ==
    /\ lis = "set"
    /\ lis' = "on"
    /\ UNCHANGED <<evpause, backlog, conns, ups, inflight, purged>>

-----------------------------------------------------------------------------
AcceptInit ==
    /\ lis = "closed" /\ evpause = "off" /\ backlog = 0
    /\ conns = 0 /\ ups = 0 /\ inflight = 0 /\ purged = 0

AcceptNext ==
    \/ FcgiAccept \/ FcgiAcceptFails \/ FcgiAcceptPause \/ FcgiAcceptTimeout
    \/ Arrive \/ TakenByOther
    \/ OpenUpstream \/ CloseUpstream \/ FcgiError
    \/ ConfigPurge \/ ConfigGetSock \/ ProxyLaunch

AcceptSpec == AcceptInit /\ [][AcceptNext]_acceptVars

(* The event loop runs the timer and the callbacks that are ready; requests *)
(* and connections come to an end.                                         *)
AcceptFairSpec == /\ AcceptSpec
            /\ WF_acceptVars(FcgiAcceptTimeout) /\ WF_acceptVars(FcgiAccept)
            /\ WF_acceptVars(CloseUpstream) /\ WF_acceptVars(FcgiError) /\ WF_acceptVars(ProxyLaunch)

-----------------------------------------------------------------------------
AcceptTypeOK ==
    /\ lis \in {"closed", "set", "on", "paused"}
    /\ evpause \in {"off", "added"}
    /\ backlog \in Nat /\ conns \in Nat /\ ups \in Nat
    /\ inflight \in Nat /\ purged \in Nat

(* fcgi_inflight counts the open connections and, forever, those a reload  *)
(* closed: config_purge frees them without fcgi_inflight_dec.  The counter *)
(* never falls short of the connections it stands for.                     *)
InflightExact == inflight = conns + purged

(* What FD_RESERVE and the counter are for: a connection that was accepted *)
(* finds a descriptor when its request needs one.  The test made when each *)
(* connection was accepted covers all those accepted before it too.        *)
UpstreamHasFd == ups < conns => Dtablecount < DtableSize

(* A pause is temporary: "deferring connections" (fcgi.c:235) ends.        *)
PauseEnds == lis = "paused" ~> lis # "paused"
=============================================================================
