# A TLA+ model of galileo

galileo is a FastCGI server that proxies Gemini capsules to the web. A web
server such as httpd(8) sends it FastCGI requests; galileo looks up the proxy
the request is for, fetches the page from the Gemini server over TLS and
answers with the bytes as they are or, for `text/gemini`, with HTML.

This directory holds TLA+ modules that model it, TLC configurations that check
them on small instances and TLAPS proofs for instances of any size. File names
and line numbers refer to the repository; `PROJECT.json` maps every definition
that models code to its lines, and lists the components, runs, mutants,
findings, hazards and theorems.

## The system

| part | operations | talks to | module |
|---|---|---|---|
| parent (`galileo.c`, `config.c`) | start, reload on SIGHUP, count acknowledgements, shut down | workers, over imsg pipes | Reload |
| proxy process, "worker" (`proxy.c`, `fcgi.c`, `config.c`) | load configuration, accept, serve | parent, web server, Gemini servers | Worker, Responder |
| connection and request (`struct fcgi`, `struct client`) | records in, output drained, start, resolve, connect, read, fail, end, abort | each other, resolver, upstream | Worker |
| record framing and parsers (`fcgi.c:286-653`) | cut input into records, read parameters and forms | connection | Framing |
| resolver glue and TLS callbacks (`compat/event_asr_run.c`, `proxy.c`) | drive a query, read and write through TLS | event loop, request | Upstream |
| gemtext, links, media types (`proxy.c`) | translate a line, resolve a link, close the page | template | Gemtext |
| template (`template/tmpl.c`, `clt_write`, `dowrite`) | write, escape, flush, cut into records | connection | Template |
| admission (`accept_reserve`, `fcgi_inflight`) | accept, pause, resume | the descriptor table | Accept |
| trees of connections and requests (`compat/sys/tree.h`) | insert, remove, find, first | connection, worker | Splay, IdSet |
| imsg (`compat/imsg`, `proc.c`) | compose, write, flush, read, get, close | parent and workers | Imsg, Channel |
| privilege separation (`proc.c`, `galileo.c`) | socket pairs, fork, exec, daemon(3), going down | all processes | Privsep |
| pid file (`galileo.c:75-104`) | open, lock, write, remove | other instances | Pidfile |

Every process is one libevent loop, so callbacks are atomic with respect to
each other. What is hard is which callback runs next. A request can be ended by
its upstream, by an ABORT record, by a failed write, by the loss of its
connection and by a reload, while a resolver query, a connect event or a
bufferevent still holds a pointer to it. Input arrives in pieces of any size,
output takes two paths to the connection, and events that fire once must be
added again. Between processes, reloads overtake each other, sockets take parts
of messages, and any process may die at any point. The hazards in
`PROJECT.json` have each of these at its line.

## Modules

**Worker** models one proxy process. `proxies` and `sock` are its
configuration, `fcgi` and `clt` the structures of `galileo.h`, `loop` the
resources the process holds for each request whether or not a field still names
them, `wire` the stage the response has reached on the connection and `got`
what the web server knows. Actions keep the names of the functions they model:
`ProxyResolved`, `ProxyConnect`, `ProxyRead` and `ProxyError` are the callbacks of
a request; `FcgiBeginRequest`, `FcgiParams`, `FcgiStdin`, `FcgiAbortRequest` are
the cases of `fcgi_read`; `FcgiAccept`, `FcgiWrite` and `FcgiFailure` the events of
a connection; `ConfigGetProxy`, `ConfigGetSock`, `ConfigDone`, `ConfigPurge` the
messages of the parent. `EndRequest` (`end_request`) and `FcgiErrorFrom`
(`fcgi_error`) are the operators through which all of them end. A payload is
only the kind of output it is; `Extend` says which order a web server accepts.
`Faults` says which calls may fail: allocations, writes to the connection.

**Responder** is the abstract specification of a worker as its web server sees
it: begun, answered and ended, per id. `Worker!IsResponder` is the refinement.

**Framing** models the bytes below Worker's records. `net` and `src` are the units
that have not arrived and those in the input buffer; `Arrive` moves any number of
them, `FcgiRead` is one turn of the loop of `fcgi_read`, with `parse_len`,
`fcgi_parse_params` and `fcgi_parse_form` as operators. A unit carries what the
web server meant by it, which the code never sees: taking it for something else
makes the state "lost".

**Upstream** models what drives a request: the `event_asr`, its event and its
query (`EventAsrRun`, `Dispatch`, `RequestEnds` for every way a request is ended),
then TLS over a non-blocking socket (`ProxyTlsReadcb`, `ProxyTlsWritecb`), with the
capsule at the other end (`Receive`, `SendReply`, `ServerCloses`). libasr and
libtls are external: modelled by what their callers rely on.

**Gemtext** models `parse_mime` and the replies in `ReadHeader`, one line of
`gemtext_translate_line` in `ReadLine`, the end in `ProxyError`. The page is the
stack of open elements. A URL is a scheme and a string, a sequence of symbols: pieces
of names, `:` and the delimiters `/`, `?`, `#`. `Portok` and `ProxyResurl` compare and
cut such strings as the code does, by prefixes, and know nothing of authorities; `pc`
is the proxy of the request, with its name on the web (`host`, which `proxy_match` found
to be SERVER_NAME) and the name and port of its capsule (`proxy_name`, `proxy_port`),
which need not agree. `Authority`, `Meant` and `Followed` are the reference: how a URL is
read, and where a link leads in the capsule and on the web.

**Template** models `tp_write` with its flushes, the two escapes and the cutting
into records, over pages of a few characters; `Shown` reads the records back as a
browser does.

**Accept** models admission in one process with counters: descriptors in use,
`fcgi_inflight`, the listening socket and the pause timer. `purged` is a history
variable that counts the connections reloads freed.

**Splay** models the nodes and pointers of `SPLAY_GENERATE`, with the comparison
functions of `fcgi.c` on ids that wrap. **IdSet** is the set it implements.

**Imsg** models one direction of a pipe: the sender's queue and write event, the
socket with its descriptors, the receiver's buffer. `Iov` is what `msgbuf_write`
gathers and `MsgbufDrain` what it leaves queued; `DispatchRead` is the `imsg_read` of
`proc_dispatch`, each `ImsgGet` one turn of its loop, and `DispatchDone` the end of
it. **Channel** is the FIFO of whole messages it implements.

**Reload** models the parent and all its workers, with a FIFO in each
direction. `ParentReload`, `ParentConfigureDone`, `ParentShutdown`,
`ParentExit` and `ParentFatal` are the parent; `WorkerReceive` dispatches one
message with `ProxyDispatchParent`; `WorkerEof` and `WorkerDies` end a worker.
`Files` is the sequence of contents the configuration file goes through; `mode`
is chosen initially, foreground (`-d`) or daemon. In the second, daemon(3) forks
after the workers were started, so the parent has no children: SIGCHLD never
comes and waitpid returns at once.

**Privsep** models who holds which descriptor from the first socket pair on:
`StartParent` is a step of `proc_init`, `proc_exec` and daemon(3), `WorkerStep` one
of a worker between fork and its event loop, and `Dies` ends any process anywhere.

**Pidfile** models several instances started with the same `-P` path, each a
sequence of system calls (`Open`, `Lock`, `Truncate`, `Daemonise`, `WritePid`,
`Unlink`, `End`).

`*_proofs` hold the theorems: Worker_proofs, Upstream_proofs, Privsep_proofs and
Imsg_proofs those of one module each, Daemon_proofs those of Reload, Accept and
Pidfile, Page_proofs those of Gemtext and Template, and Framing_proofs those of
Framing, on the lemmas of FramingCodec_proofs. **MCFraming**, **MCGemtext**, **MCReload**,
**MCUpstream** and **MCWorker** give TLC its streams, links, files and replies.

Each module assumes what another one shows:

* Reload's FIFOs are Imsg's pipes, by `Imsg!IsChannel`; that a dead process is
  noticed over them is `EofSeen` and, for the descriptors, `Privsep!NoStrayHolder`.
* Worker's sets of connections and requests are Splay's trees, by `IsSet`.
* Worker's records are those Framing recognises, by `InSync` and `FieldsRight`.
* Worker treats output as pieces in order; Template shows that buffers and records
  keep them so (`ShownAsMeant`). What it calls the body, Gemtext details.
* Worker's `ProxyResolved`, `ProxyRead` and `ProxyError` are what Upstream's
  callbacks call, and Upstream shows that they are called (`Answered`).
* The configuration actions of Worker and Accept are the messages Reload delivers.

## Runs

| run | bounds | distinct states | properties |
|---|---|---|---|
| `worker` | 1 connection, 2 ids, 2 hosts, allocations and writes fail | 97 776 | `ResourcesOwned`, `OneDriver`, `ResponseInOrder`, `ConfigAlive`, `NoneForgotten`, `DoneCutsNone`, `IsResponder`, `DoneCloses`, `StartedEnds` |
| `framing` | 164 streams of up to 8 records, cut anywhere | 58 182 | `InSync`, `FieldsRight`, `FormRight`, `AllHandled` |
| `upstream` | 3 rounds of a query, 5 replies, send buffer 2, reads of 3 | 3 215 | `ResolverSafe`, `NoLostWakeup`, `WholeReply`, `Answered` |
| `gemtext` | all kinds of lines, 4 proxies, 279 URLs, 32 media types | 29 912 | `WellNested`, `PageClosed`, `LinkRight` |
| `template` | buffer 3, records of 4, pages of 6 characters | 224 380 | `ShownAsMeant`, `RecordsRight` |
| `splay` | ids of 4 bits, 4 elements | 36 754 | `IsSet` |
| `accept` | table of 18, 3 used, reserve 5, backlog 2 | 850 | `InflightExact`, `UpstreamHasFd` |
| `accept_pause` | the same | | **violated**: `PauseEnds` |
| `imsg` | 3 messages of 2 to 4 units, socket of 5, reads of 5, 2 iovecs | 84 474 | `WriteEventExact`, `NoFalseEof`, `IsChannel`, `AllDelivered`, `EofSeen` |
| `reload` | 2 workers, 3 files, foreground and daemon | 403 837 | `WholeConfig`, `AckedServes`, `ReloadCompletes`, `ReloadFinishes`, `AllGoDown` |
| `privsep` | 4 workers | 12 509 | `NoStrayHolder`, `GoDownTogether` |
| `pidfile` | 4 instances, 2 of them in the foreground | 547 856 | `PidShown`, `LocksApart`, `StaleFileHarmless` |

The comment above each property says what it means for the code. In short:

* `worker`: nothing a request holds outlives it or is released twice, one
  callback drives it, its response is in order, its configuration is alive, none
  is forgotten, a regular close cuts none, and all of it ends.
* `framing`: input stays aligned with the records sent however it is cut, the
  fields and the form are those sent, nothing waits for bytes that do not come.
* `upstream`: no event or query outlives its request, no wake-up is lost, the whole
  reply is read before its end is reported.
* `gemtext`: elements nest, pages are closed, links lead where they are meant to, or
  into the capsule when they have the web name of the proxy.
* `template`: a browser sees what the templates wrote, and no record is empty.
* `splay`, `imsg`: the tree is a set, the pipe a FIFO; what is queued arrives.
* `accept`: the counter is exact, an accepted connection finds a descriptor.
* `reload`: a worker serves whole configurations only, the last one loaded gets
  served, the program goes down as a whole.
* `privsep`: each end of a pipe has one holder, wherever a process dies all go.
* `pidfile`: what the lock protects, and that a stale file is no obstacle.

### Bounds

Requests interact through `fcg_keep_conn`, `fcg_done` and the fate of their
connection: two ids on a connection show every pair. Connections share only the
configuration, and the theorems cover any number. Two hosts tell a request that
matches a proxy from one that does not. The streams of `framing` hold repeated,
empty, too long and unknown parameters, both forms of lengths, a parameter
continued in the next record, forms cut at every place, aborts and records
for inactive requests; sizes are shrunk so that each limit is met within a few
units. In `gemtext` the capsule has the
name of the proxy or another, as in the examples of `galileo.conf.5`, and the standard
port or another; hosts and ports of links are those of the proxy, those of the capsule,
start like them, or are others, and some links do not fit the buffer.
The buffer of `template` is no larger than an entity, so that every escape
is cut at every place. In `upstream` replies are longer than a read and the request
longer than the send buffer. Four elements in `splay` allow the zig-zig and zig-zag
cases on both sides, and 16 ids let the window of live ids go round (`Window`: live
ids lie within half of the range). `imsg` has messages larger than the rest
of the socket and of the read, and more messages than one `sendmsg` takes.
Three files let acknowledgements of three generations be under way together. Four
workers in `privsep` have siblings forked before and after them, and
`PROC_PARENT_SOCK_FILENO` is initially in use, by the pid file, or free. Four
instances of `pidfile` give two of
each kind.

Deadlock is checked in `worker`, `splay` and `accept`. In the others the program or
the thing modelled may end.

### Finding

`accept_pause`. When descriptors run out `fcgi_accept` stops watching the socket
and starts a timer. When the timer fires it returns at once (`fcgi.c:219-221`), so
`sc_evsock` is not added again until a reload, although the comment and the log
speak of a pause and of deferring.

### Other behaviour the models record

These are what the code does, are modelled as such, and are conditions or
exceptions in a property where one touches them.

* Padding that has not arrived with its record is not drained later
  (`fcgi.c:644`); `late` in Framing. A parameter ignored for its long name, with a
  value, a form larger than `tmp` and an ABORT with a content are not consumed
  whole; `Leftover`.
* A form's `q=` that is split between two records is not found; `MarkerSplit`. The
  value ends at the first `&` of a record, at `\r` only if the record has none
  (`fcgi.c:442-446`): with a `&` after a `\r`, which one it is depends on how the form
  is cut into records; `ReturnsLast`.
* The test of `charset=` in `parse_mime` is inverted: known charsets are refused
  (`proxy.c:692-699`). A last line without a newline is dropped.
* `proxy_resurl` compares links with SERVER_NAME (`proxy.c:205`, `214`), the name the
  proxy has on the web, and not with `proxy_name`, the name the capsule has
  (`proxy.c:625`, `647`; `parse.y:222-236`); and it accepts a link without a port whatever
  `proxy_port` is (`proxy.c:172`), although that means 1965. With `proxy "www.example.com"
  { source "gemini.example.com" }`, the example of `galileo.conf.5`, a link to
  `gemini://gemini.example.com/p` is not rewritten and leaves the proxy, and one to
  `gemini://www.example.com/p` is taken for the capsule's. `WebName` in `LinkRight`.
* A link with the web name but without a path is read past its end; with a query or a
  fragment only it loses its host; with a path that begins with two slashes, behind a
  script name that is a slash, it becomes one with another host. A link that starts with
  `//` and is not rewritten is one to the web for a browser. A local link that does not fit
  the buffer stays as it is, and so leads out of the script name. All are outside `LinkRight`.
* `tp_urlescape` pads with a space (`%2X`, `template/tmpl.c:86`), so
  characters below 0x10 are not among the `UrlChars` of the run. In a locale where a byte
  above 127 is a control character or a space, its number does not fit `tmp` and the rest
  of the URL is dropped without an error (`template/tmpl.c:87-88`); not modelled.
* A BEGIN_REQUEST whose client cannot be allocated, and methods other than GET and
  POST, are never answered; `skipped` in Worker and `Started`.
* Connections that a reload closes stay in `fcgi_inflight`; `purged` in Accept, so that
  `InflightExact` excludes any other drift of the counter.
* Overlapping reloads count each other's acknowledgements, which is harmless as
  IMSG_CTL_START is ignored by workers. `prefork` is not changed by a reload, and a
  file with a larger one leaves `sc_reload` above zero: `ReloadFinishes` is checked
  with files that ask for no more processes than run.
* A daemon loses the lock on its pid file, which belongs to the process that
  daemon(3) ends, and `rmpidfile` removes the path whoever's file it names. Hence
  `PidShown` and `LocksApart` speak of instances in the foreground, and of the file they
  have open, not of the path. A removal between the open and the lock of another instance
  lets both run with one path.

## Fairness

* Worker: libevent calls back what is ready (`FcgiWrite`, `ProxyResolved`,
  `ProxyConnect`); the resolver has its own timeouts and the connect event one of
  five seconds. There is no timeout on the upstream exchange (the call is commented
  out at `proxy.c:641`), so `WF(ProxyError(c, i, TRUE))` assumes a Gemini server
  that closes its connection, as the protocol demands.
* Upstream: the event of a query always has a timeout and `MaxRounds` ends the
  query; callbacks that are ready run; the capsule reads and answers.
* Framing: what the web server began to send arrives, and `FcgiRead` runs when a
  header or a body is complete. The second conjunct is written out as
  `[]<>~Ready \/ []<><<FcgiRead>>_vars`, which is the weak fairness of the action.
* Imsg: events are level-triggered, so a handler whose descriptor stays ready is
  called; the loop of `proc_flush_imsg` goes on.
* Reload and Privsep: each process handles the messages, signals and ends of file
  it has. No process has to die and no signal has to be sent.
* Accept (`accept_pause` only): timers fire, ready sockets are served and
  connections end, so that nothing but the code keeps the pause from ending.

## Proofs

The theorems assume only the named assumptions on the constants:
`WorkerAssumption` (NULL is not a host, faults are those named),
`AcceptAssumption` (sizes are natural numbers, the reserve is not zero),
`GemtextAssumption` (names and ports have no `/`, `?` or `#`, the script name begins with a
slash, and a URL that begins with `//` is not a relative one), `PidfileAssumption` (0 is not an
instance), `ReloadAssumption` (at least one file, its numbers are natural),
`FramingAssumption` (sizes are positive; a stream is any sequence of well-formed
records, in any order; the names that `fcgi_parse_params` knows fit in `pname`, and the
lengths of a name and its value add up to an int),
`TemplateAssumption` (sizes are positive; a `%` in a text is one of the characters that
need no care, and URLs have no `&` or `%` of their own and no control characters, which
`tp_urlescape` does not encode as a browser reads them),
`UpstreamAssumption` (sizes are positive, and no TLS record is larger than what
`proxy_tls_readcb` asks for), `PrivsepAssumption` (there are workers) and
`ImsgAssumption` (sizes are positive; a header fits a message, and a message the
read buffer with room to spare and 16 bits).

*Worker_proofs* (`TypeCorrect`, `Ownership`, `SingleDriver`, `OrderedResponses`,
`ConfigOutlives`). None of these is inductive alone. The invariant `IInv`
conjoins `TypeOK` and `ClientOK` for every request, which ties them together: a
callback can rely on being the only driver because the request has started; a
page can be sent because without `headersdone` nothing was written; `headersdone`
implies an upstream bufferevent, so neither the resolver nor the connect event
can find it set; a client that is not alive is blank, and one that is alive has
an open connection and a web server waiting. The effects all actions are made of
have a lemma each (`OneClient`, `ContinueKeeps`, `EmitKeeps`, `ErrorKeeps`,
`EndKeeps`); every action has a lemma on top of them; `NextIInv` collects them.

Its second part (`NoRequestForgotten`, `DoneAnsweredAll`) adds `ConnOK`, which relates
the flags of a connection to all of its requests: `fcg_done` excludes
`fcg_keep_conn`; without multiplexing at most one client is alive, and none once
the connection is done; on an open connection nothing has been cut. The structure
is the same, one lemma per effect and one per action. The third part is the
refinement (`ImplementsResponder`): under `IInv` each action is a step of Responder or
changes nothing a web server sees, again from one lemma per effect.

*Daemon_proofs*, Accept (`AcceptTypes`, `CounterExact`, `AcceptedHasFd`). The last rests on
`Admitted`: at the last successful `accept_reserve` the table had room for two
descriptors for every connection, because those without an upstream were counted
in `fcgi_inflight`.

*Page_proofs*, Gemtext (`PagesWellNested`, `PagesClosed`, `LinksRight`). The translation is
always in one of four situations (`Shapes`: plain, list, navigation, preformatted);
every kind of line leads from one to another, and `proxy_error` empties each. For links,
`Named` says that a string has the authority `a` exactly if it starts with `a` and ends or
has a delimiter there, and `ComparesAuthority` that therefore the two comparisons of
`proxy_resurl` and `portok` together ask whether the authority is SERVER_NAME, alone or
with the port, and leave the path; `BelowScript`, that a browser finds what is put behind
the script name as that path.

*Page_proofs*, Template (`RecordsAreRight`, `PageIsShownAsMeant`). The loops of
`clt_write` and `tp_write` are recursive functions of the number of rounds. By
induction on it, what `clt_write` has sent and what is left are together what it
was given, in records of the right size (`CutOf`), and the same for `tp_write` with
the buffer in between (`FillOf`); each round takes something, so as many rounds as there
are characters are enough (`RecordsFacts`, `TpWriteFacts`). The invariant `TpInv`
is stronger than `ShownAsMeant` in two ways: what was written is read by the browser
with no entity left half-read (`Shows`), without which the next character could change
the meaning of what is before it, and the buffer is empty while a body goes round
it. `HtmlShown`, `UrlShown` and `PlainShown` say that each kind of text keeps the first.

*Framing_proofs* (`RecordsInSync`, `FieldsAreRight`, `FormIsRight`). `FInv` has two
halves that need each other. `Place` says that the input, arrived or not, is the wire from
the next header on (`AtHeader`), or from the content of the record in hand on (`AtBody`);
or that padding was late, and the input starts with the rest of it. `ClientRight`
says what the client has in terms of the records handled: it is alive if one began
it after the last abort, its fields are those of the parameters given, and its body
is that of the form so far (`FormState`, which also says what `clt_bodylen` and
`clt_bodydone` are in each of its three cases; `FormRight` alone is not inductive without
them). A parser does the right thing only if the input is at the content of the
record, and the input is at the next record only if the parser took all of it. All of it is
claimed as long as every record so far is one that is consumed whole (`WholeTo`).

*FramingCodec_proofs* has the lemmas. `ParseParamsFacts`: given the encoding of any
list of parameters, the loop of `fcgi_parse_params` gives up only if the last one is not
whole, and otherwise consumes the content and no more, and leaves in each field the
last value that fits. It is proved by induction on the rounds (`ParseStep`), from where
each parameter lies in the content (`EncodeParamsAt`). `Splice` says how input and wire
move on when a header or a content is taken. `ParseFormKeeps`: `fcgi_parse_form` of
one more part keeps `FormState`, from what `FindQ` and `FirstOf` give for a concatenation
(`FindQConcat`, `FirstOfConcat`).

*Daemon_proofs*, Pidfile (`PidsShown`, `FilesApart`, `RefusalsJustified`). From
F_SETLK to its end an instance in the foreground holds the lock on the file it
opened, and a daemon does up to daemon(3); only holders truncate, and only holders and daemons write. A lock that is refused is
held by an instance that is alive, which is the action property.

*Daemon_proofs*, Reload (`TypesHold`, `ConfigsWhole`, `AckedServe`). The messages to a worker
are configurations one after the other, each begun by a reset: which message may
follow which is a relation between neighbours (`Follows`), the next one always fits
what the worker has loaded (`Accepts`), and the stream leaves the worker with the
file loaded last (`EndsWith`).

*Upstream_proofs* (`ResolverReleasedOnce`, `WakeupsKept`, `RepliesWhole`). `Phase` lists
the states of the resolver's structures in the life of a request. For TLS,
`InStep` says how far the handshake is from what the socket carries both ways, and
that the records read and those in the socket are together what the capsule has
sent (`ReplySoFar`); `Fits`, that one read empties any record, so that nothing
stays decrypted inside the library. It is there that the assumption on the size of
records is needed.

*Privsep_proofs* (`EndsHeldByTheirOwners`). `Table` describes the parent's descriptors
by the pairs it has made and those whose worker's end it has closed, `Dense` that
`proc_init` gets them without a gap, so that no end lands on a number another has;
`WorkerOK` follows the descriptor of a worker through dup and exec.

*Imsg_proofs* (`AlwaysIInv`, `WriteEventKept`, `EofIsTrue`, `ImplementsChannel`). Take the
units of all messages one after the other: the units in the read buffer and in
the kernel are one run of them (`InFlight`), from the first unit of the first message
that was not handled to the first unit of the sender's queue. `Descriptors`
says that `ibuf.fds` has, in order, those of the messages whose first unit is in the
read buffer, so that each message finds its own at the head. `Handled` describes what was
delivered, and `Loops` the handlers: `proc_dispatch` is back in the event loop only
with less than a message in the buffer, so `imsg_read` always has room and 0 from
it is the end of the sender. What the sums over buffers compute (`LeftSums`, `IovUnit`,
`Drained`) is proved by induction. In the refinement, composing is a send, `ImsgGet` a
receive and `ProcClose` the loss of what was not sent whole; the other steps leave
the channel as it is.

Induction over data, in Imsg_proofs, Page_proofs and FramingCodec_proofs: the library's induction
theorems take an operator, which the provers cannot instantiate, but `WFMin` takes a
set; `LeastNat` and `AllNat` derive induction on natural numbers from it.

Only model-checked:

* liveness and whatever needs fairness or ENABLED, which the prover does not handle:
  `DoneCloses`, `StartedEnds`, `AllHandled`, `Answered`, `AllDelivered`, `EofSeen`,
  `ReloadCompletes`, `ReloadFinishes`, `AllGoDown`, `GoDownTogether`;
* the refinement `IsSet` of Splay: rotations along a path of any length are
  RECURSIVE operators, in whose module the SMT backend cannot be used.

## Assumptions and what is not modelled

* Worker and Framing assume a web server that closes each stream of a request once,
  and uses an id again only after the END_REQUEST of its last use or while it is
  active. A second empty PARAMS would start a request twice, and a BEGIN_REQUEST of an
  unknown role for an active id is answered with an END_REQUEST while the request goes
  on (`fcgi.c:549-558`); `FcgiUnknownRole` is for other ids. The two lengths of a parameter
  are ints whose sum is not checked (`fcgi.c:303`): Framing's parameters are smaller than
  2^31. Accept assumes one request at a time per connection, as httpd(8) does.
* When a write fails in `clt_write_bufferevent`, the input of the bufferevent is drained
  after `fcgi_error` has freed it (`fcgi.c:746-747`). Worker ends the request there and does
  not model what the access does.
* A `tp_writef` that cannot allocate fails without closing the connection, unlike
  every other failed write; the faults of Worker and Template do not include it.
* EINTR, EAGAIN and a descriptor table that is nearly full make the calls of Imsg
  return without effect: stuttering.
* Configuration parser (`parse.y`): a grammar and lexer without concurrency or
  protocol. What a file declares is the constant `Files` of Reload.
* Logging and allocation wrappers (`log.c`, `xmalloc.c`): no state that anything else
  reads. That they end the process is `Dies` in Privsep.
* Template compiler (`template/template.c`, `template/parse.y`): a build-time tool.
* Portability layer (the rest of `compat/`): replacements of library functions.
* Dropping privileges and the wording of pages and logs.
