# Formal models of Grott

Grott sits between Growatt data loggers and the Growatt cloud. In proxy mode it
relays each logger's TCP connection, decodes a copy of the records that pass and
publishes them (MQTT, PVOutput, InfluxDB, an extension such as Home Assistant
discovery). `grottserver.py` can take the place of the cloud.

This directory models the program in TLA+, checks the models with TLC on small
instances, and proves their main safety properties with TLAPS for every value of
the constants.

    tlasany M.tla                     parse a module
    tlc -config MCX.cfg MCX           model-check a run
    tlapm XProofs.tla                 check the proofs of a module

`PROJECT.json` lists the components, the runs, a mutant of the code for every
property (the run must notice it), the source lines each definition stands for,
the hazards and the theorems.

## Inventory

| Component | Source | State | Operations | Status |
|---|---|---|---|---|
| Record framing | `grottprotocol.py` | `_buffer`, limits | `feed` | modelled, proved |
| Proxy connections | `grottproxy.py` | `input_list`, `channel`, `framers`, `frame_started_at`, `_pending_connections`, `_connector_shutdown`, futures, sockets | `main`, `on_accept`, `_drain_pending_connections`, `_expire_incomplete_frames`, `_read_socket`, `_close_socket`, `_shutdown_connector`, `Forward.start` | modelled, proved |
| Proxy relaying, record filter | `grottproxy.py` | a frame in hand, the clock of the partial frame | `_read_socket`, `on_recv`, `validate_record`, `send_all` | modelled, proved |
| Device server | `grottserver.py` | `inputs`, `outputs`, `peers`, `send_queuereg`, `loggerreg`, `commandresponse` | `handle_*`, `close_connection`, `process_data` | modelled, proved |
| HTTP command API | `grottserver.py` | the same registries, shared with the device thread without a lock | `do_GET`, `do_PUT` | commands modelled, proved |
| Telemetry pipeline | `grottdata.py` | the rate limiter, the shared layouts | `procdata`, `GrottPvOutLimit.ok_send` | modelled for `compat = False`, proved |
| Layout selection | `grottlayout.py` | none | candidate layouts, scores, fall-back | modelled |
| Home Assistant discovery | `examples/Home Assistent/grott_ha.py` | per device: signature, desired topics, clean-up batches | `grottext`, `MqttStateHandler` | modelled, proved |
| Configuration | `grottconf.py`, `tools/container_healthcheck.py` | the settings | defaults, file, environment, command line, layout files | modelled, proved |
| Start-up, sniffer | `grott.py`, `grottsniffer.py` | the mode, the port | start, stop, `Sniff.main` | modelled |
| Clean-up tool, add-on script, examples | `tools/ha_discovery_cleanup.py`, `addons/grott/run.sh`, `examples/` | none | | not modelled, see below |
| Release tooling | `tools/validate_*.py`, `tools/verify_release_controls.py` | none | | not modelled, see below |

How they interact. `Proxy.main` is a single-threaded `select()` loop; it calls
the framer and `on_recv` directly and `procdata` from there. The only other
threads in proxy mode are the workers of a `ThreadPoolExecutor`, which connect
to the cloud; they meet the main thread in the state of their futures and in the
sockets they open. `grottserver.py` runs two threads, the device loop and the
HTTP server, which share three dictionaries and a queue per connection.
`procdata` hands a decoded record to the MQTT broker, PVOutput, InfluxDB and the
extension, one after another on the thread that relays, which waits for each; the
Home Assistant discovery is such an extension, and its counterpart is the broker,
which keeps retained topics when Grott is restarted. `Conf` gathers the settings
once, before the proxy or the sniffer starts; the health check of the container is
a process of its own that gathers the port again.

What is hard: the order in which workers finish against accept, drain, cancel
and callback; sockets that close in the middle of a pass over a `select()`
snapshot; records that arrive coalesced or in pieces, with a malformed one
behind good ones; the timeout of a partial frame racing the byte that completes
it; an answer of a logger racing the HTTP request that waits for it; publishing
that fails half-way; restarts that forget what was announced; layouts all
records share and one record changes; a setting four sources may hold, each read
in its own way. `PROJECT.json` has each as a hazard at its line.

What makes the components correct:

- framing: the frames depend on the byte stream only, not on its chunks; the
  buffer is bounded; the loop ends;
- connections: `select()` never sees a closed socket, pairs live and die
  together and alone, every socket is closed by somebody, waiting ends;
- relaying: the partner gets exactly the records the policy allows, in order;
- device server and HTTP API: a command's answer reaches the request that asked
  for it, and only it; registries follow the connections;
- telemetry: a record keeps its family and its serial number, uploads keep their
  distance;
- discovery: a wanted topic is never deleted, an unwanted one is in the end;
- configuration: the documented priority of the sources, for every setting (it
  fails for one, finding 4), and a health check that agrees with it.

## Modules

| Module | What it is |
|---|---|
| `GrowattWire` | the length rule and `validate_record`, shared by framer and validator |
| `FrameStream` | abstract: the frames in a byte stream, cut one after another |
| `FrameBuffer` | `FrameBuffer.feed`, one step per iteration of its loop; implements `FrameStream` |
| `FrameBufferProofs` | theorems about `FrameBuffer` |
| `SequenceFilter` | the elements of a sequence that are in a set, as a recursive function |
| `DataInduction` | lemmas: induction on numbers and sequences, recursive functions, filters |
| `ConnectionLifecycle` | abstract: the stages of a logger's connection |
| `ProxyConnections` | the event loop, the connector pool and the shutdown; implements `ConnectionLifecycle` |
| `ProxyConnectionsProofs` | its inductive invariant, the safety theorems, the action properties, the worker bound, the refinement |
| `RecordFilter` | `on_recv`'s decisions about a record |
| `ProxySession` | one direction of a pair: extends `FrameBuffer` with the clock, the filter, forwarding and decoding |
| `ProxySessionProofs` | its inductive invariant, on top of the framer's |
| `ConnectionRouter` | abstract: a mailbox for each connection, a directory of data loggers |
| `GrottServer` | `sendrecvserver`: the device thread and the registries; implements `ConnectionRouter` |
| `ServerHttp` | the HTTP thread; extends `GrottServer` and interleaves with it |
| `GrottServerProofs` | the inductive invariants of both, the theorems, the refinement |
| `LayoutSelection` | `grottlayout` and the look-up in `procdata`: operators, no state |
| `Telemetry` | `procdata` from the call to the last sink; extends `LayoutSelection` |
| `TelemetryProofs` | theorems about `Telemetry` |
| `DiscoveryContract` | abstract: what the extension promises about retained topics |
| `HaDiscovery` | `grottext` and `MqttStateHandler`; implements `DiscoveryContract` |
| `HaDiscoveryProofs` | its inductive invariants, the theorems, the refinement |
| `Startup` | `Conf`, `grott.py`, the sniffer and the health check |
| `StartupProofs` | theorems about `Startup` |
| `MC*` | instances for TLC |

### FrameBuffer

The peer's bytes are numbered; `_buffer` is the interval `[start, received)`.
What the six bytes of a prefix say is a record with `protocol` and `declared`;
`stream` maps every position to what a prefix starting there would say, so the
parser reads positions no real record starts at only if it is wrong. `Feed`
extends the buffer; `TakeFrame`, `RejectPrefix`, `RejectOverflow` and
`ReturnFrames` are the ways an iteration of the loop ends. An error behind
complete frames still delivers them (the generator
`_emit_frames_before_error`).

### ProxyConnections

A connection has a client and an upstream socket, and one future. `pc` walks
through the pass of `main()`: drain, select, drain, expire, failed sockets,
readable sockets. A handler is one action, since no other thread sees what it
changes, but for `procdata` (below); the two places where a worker does interfere
with a handler are split: `_shutdown_connector` takes its pending connections one by one, and the failed
`cancel()` and the `add_done_callback` behind it are two actions. `inputready`,
`exceptready` and `expired` are the snapshots the loops run over: their sockets
may be closed, by an earlier step of the same pass, when their turn comes.

One call of a handler leaves the process for a time nobody bounds: `on_recv` calls
`procdata` on the main thread (`grottproxy.py:451`), and `procdata` posts to
PVOutput without a timeout (`grottdata.py:608`, 634 and 637), publishes to MQTT and
runs the extension. So a chunk that completes a frame may take the main thread to
`pc = "procdata"`, with `source` the socket in hand, where it stays until
`ProcdataReturns` or `LaterFrameFails`; the workers, the clock and an interrupt go on
meanwhile, and it may stay for ever. Several calls for one chunk are one stay.

Abstracted: bytes (whether a chunk completed a frame and whether it left a
partial one), time (whether a partial frame is over its timeout), the reason a
read failed. A connection id stands for one TCP connection and is not reused.
`submit()` raising RuntimeError is a refusal; that the executor may keep the
queued item when it cannot start a thread is library behaviour left out. An
interrupt is taken between handlers or in `procdata`, not elsewhere inside one. The
branch of the drain for a connector that is shut down (`grottproxy.py:216`) cannot
run and is left out.

### ProxySession and RecordFilter

One source socket of a pair, with the pass of `main()` reduced to what touches
it: `CheckExpiry`, `Recv`, the loop of `feed` (the actions of `FrameBuffer`),
`Stamp` for the statements behind it, one step per frame for `on_recv`,
`FramesDone`. `Tick` lets time pass between passes and also between frames,
because writing to a slow partner takes time. `forwarded` and `decoded` are
histories, and `restSince` remembers when the first byte of the partial frame
arrived, which the code does not know: `ClockIsFirstByte` compares it with the
code's clock.

For protocols 05 and 06 the command of a configure record is a string of hex
digits, for 02 a slice of bytes: `CommandIs` models what the comparison with a
string gives.

### GrottServer

A socket is a socket object, a peer an (address, port) pair, which is also what
the name of a send queue is made of. `Dial` lets a pair be used again as soon as
its former connection cannot carry data any more; the server may learn of that
later, which is what makes reconnection hard. `backlog` is the listen queue.

`Select` takes the three lists `select()` returns; `Accept`, one action per
record type (`Ping`, `Data`, `Announce`, `Answer`, `Ignored`), `PeerGone`,
`Write` and `Exceptional` are the handlers, in the order `run()` calls them. A
handler is one action but for an announcement: `process_data` sleeps a second
between the acknowledgement and the time command (`Announce`, `SendTime`), and
the HTTP thread runs meanwhile. `Close` is `close_connection`; its loop over
`loggerreg` stops at the first match, so `ForgetLoggers` deletes at most one
entry for a socket.

Abstracted: what is in a record. A chunk is what its first record makes of it,
as `recv(1024)` is taken for one record: what follows the first record is not
looked at. `process_data` takes the name of the data logger from bytes 8 to 17 of the
chunk, whatever they are. If every chunk begins with a record and holds its name,
that is the name of its data logger (`WholeRecords`). Else it may be any member of
`Garbled`: the beginning of a name cut short, nothing at all for a chunk shorter
than a header, which counts as a ping, or whatever stands there in a chunk that
begins within a record, if its byte 7 happens to be 16 or 03. `Garbled` may also
have names of other data loggers. A message in a queue is known by its origin, the
socket whose record it answers or `Http`. Whether `send()` takes a message is left out, as the code does not look.
Answers leave the fields of their entry in `commandresponse`, and whether the
value of a read can be decoded. Two inverters of a data logger differ by name
only. `check_connections` is dead code: it reads attributes nothing sets.

`ImplementsRouter` sums the registries up. The code keeps queues by address pair,
registrations by name, and sockets in three lists; `ConnectionRouter` has
connections only: each with its own mailbox, and a directory that leads from a
data logger to the connection it enrolled on last, exactly as long as that
connection is in service. The mapping reads a connection's mailbox from the queue
of its peer and a directory entry from the socket behind the registered peer. It
holds for whole records; a second name behind a connection breaks it (finding 2).

### ServerHttp

`HTTPServer` serves one request at a time, so one request is the state of the
thread: `Receive`, `Lookup`, `Address`, `QueueCommand`, `DeleteOld`, `Poll` per
half-second iteration, `GiveUp`. Each reads or writes the shared dictionaries
once; any step of the device thread may come between. `comresp` is the local
variable that is bound once an answer was seen; the code behind the loop tells
an answer from none by whether reading it raises. `DataloggerPolls` and
`InverterPolls` are the two time-outs in iterations. `MaxCommands` bounds the
commands that wait unsent when a request arrives.

`do_GET` and `do_PUT` repeat each other; the actions are those of both, and
`Satisfied` has their one difference: GET needs a value it can decode, PUT any
answer. A write of several registers never satisfies the loop: the message
printed for its answer (printing is on in the shipped file) names `register`,
which is not bound in that branch, so the request waits its whole time and then
replies OK.

`stored` is a history: the keys stored since the last command was queued. It is
what `AnswerIsFresh` compares with. An answer does not say which command it
belongs to (`sendseq` is constant), so an answer that comes too late for one
request is fresh for the next one that asks for the same register; and an answer
that comes between `QueueCommand` and `DeleteOld` is lost. Both follow from the
code as written and contradict no document, and both are in the model.

### LayoutSelection and Telemetry

A layout is named by its three parts; `base_layout_name`, `generic_layout_name`
and `append_family` are operations on them. What a layout reads in the bytes of a
record is a constant, `Reads`: a field cannot be read, is 0, plausible or out of
range, which is all `score_layout` tells apart. `BuildCandidateLayouts`, `Score`
and `SelectLayout` are then the code's own, weights included.

`procdata` runs on the relaying thread, so an action is what happens up to the
next call that leaves the process, and only the clock moves in between. `step` is
the sink that is next. Each early return and each exception no `try` around it
catches is a way to `Leave`, and `fate` remembers which: a refused or failed upload
to PVOutput keeps the record from InfluxDB and the extension, an error of MQTT or
InfluxDB does not. No document promises either, so there is no property of it.
`Unrecognised`, `Implausible`,
`Acknowledgement` and `Decode` are the ways to the first sink; `Withheld` has the
tests in front of the sinks, and the statements there that raise.

The layouts in `conf.recorddict` are shared by all records, and one statement
writes to them: a record whose layout defines neither `pvserial` nor a device gets
the configured inverter id, and the layout an entry without a length (`spoiled`).
The next record of that layout is scored as if its serial number could not be
read. A serial number that is no text does not do that: its hex digits are left
in `definedkey` and used as the name of the inverter.

`register` holds whole seconds of a clock that starts with the process, and 0
stands for "no upload yet"; the model's clock has `Second` ticks in a second, so
that the truncation shows. `UploadsSpaced` says what is left of the limit.

Abstracted: the values decoded, their formatting, the requests. Buffered records
are told by their type; the encoding of dates by three cases.

### HaDiscovery

The extension is called with every record: `Receive`, then `Discover` if the
record asks for another entity set than the device is configured with, then one
clean-up batch (`NothingToClean`, `Clean`), then `PublishState`. `publish_multiple`
raises after the broker took any part of its messages (`DiscoverFails`,
`CleanFails`). `Restart` forgets `config` and may change the options; `retained`,
the broker's, stays, and begins with whatever an earlier version left there.

An attribute name stands for its topic. A payload is what tells two payloads of
one topic apart: the value its template reads and the layout its scale is from;
`Signature` decides whether discovery is published again, `Components` what it
would publish. `Known` is the catalogue of topics any version may have left. `torn`
remembers that a discovery batch failed half-way: the old entity set then stays
configured and is not published again, so topics of the new one may stay beside
it until the set changes or the process restarts. That is what the code does; the
properties say where it ends.

`DiscoveryContract` is the promise without the mechanism: the topics of a current
entity set are retained before it is current, and no clean-up removes one.

### Startup

`phase` walks through `Conf.__init__` and `grott.py`: arguments, file,
environment, arguments again, layout files, `recwl.txt`, InfluxDB, main. Each
step either passes or ends the process with a reason. `source` is everything a
start may find: arguments, the files `-c` may name, environment, layout files,
ports in use. The 57 settings are grouped by how each source reads them, since
that is where the sources differ: a switch is read by `getboolean` or as a word
`str2bool` converts later, a port by `parse_int_setting`, two variables only if
their word is one of a list, and `pvurl` and `trace` (`NeverRead`) in neither file
nor environment, whatever these hold. Words stand for texts; the module's head lists
them.

`ProcConf` reads the ids of inverters up to the count known then, and leaves the
address of InfluxDB to `ProcEnv` if the environment changes it or `influx2`.
`SetRecLayouts` takes the layout files in any order, as `os.listdir` does. The
sniffer keeps nothing between packets: `Sniffed` is its filter and `SniffFails`
what an exception does. `HealthCheck` is the other process's view of the port.

`StrongestSource` is the priority the comment at `grottconf.py:234` gives, stated
without the phases: `Strongest` looks at the command line (`-m`, `-i`, the flags),
the environment, the file and the defaults at once, `Merged` does the same for each
system and inverter id. It is about every setting but `verbose`, for which the code
does not do what the comment says: `CommandLineFirst`, which includes it, is
violated (finding 4).

## Runs

| Run | Instance | What it shows |
|---|---|---|
| `frame_buffer` | streams of three records out of seven kinds, good and malformed; chunks of every size; buffer bound 10 below the frame bound 12 | less than a frame stays buffered, the cut is that of all that arrived, `feed` ends, the refinement of `FrameStream`, overflow included |
| `proxy_session` | pairs of 9 kinds of record, 4 configurations, 6 chunk sizes; on two streams a clock 0..4 with a timeout of 1 | relaying, decoding, the block policy, the clock of a partial frame |
| `proxy_connections` | 2 loggers, pool of 1, up to 2 sockets per `select()`, no symmetry | the safety and action properties, the refinement of `ConnectionLifecycle`; shutdown releases; waiting ends and stalled frames end, unless the main thread stays in `procdata` for ever |
| `protocol02_time_command` | time commands of the three protocols with `blockcmd` | a violation, see below |
| `server_connections` | 3 sockets, 2 peers, 2 data loggers, whole records; symmetric | queues and replies across reconnection and stale events, the refinement of `ConnectionRouter` |
| `server_http` | 2 sockets on one peer, requests 05 and 18 on one register, 1 and 2 polls; no symmetry | answers are fresh, OK means answered; every request ends, every connection that ends is closed |
| `server_stale_owner` | as `server_connections`, with one garbled name | a violation, see below |
| `server_write_result` | 1 socket, a write answered | a violation, see below |
| `ha_discovery` | 1 device, the generic and the MOD layout, one layout without a profile; 5 attributes, 4 options, failures and restarts anywhere | wanted topics stay, stale ones go in the end, payloads are current, the refinement of `DiscoveryContract` |
| `telemetry` | 10 records under 4 configurations, 6 layouts; a limit of 2 s, a clock of 7 half seconds | family, serial number, rate limit |
| `startup` | some thousands of combinations of arguments, file, environment, layout files and ports | which source every setting but `verbose`, and every id, is from; when the address of InfluxDB is refused; whether the health check finds the proxy |
| `startup_verbose` | the same sources | a violation, see below |

Why the bounds are enough. Two consecutive records are the least that shows a
cut in the wrong place, and the streams repeat the last one to their end. Two
loggers on a pool of one give a full pool with a client waiting, a pair relayed
beside a pending connection, and two relayed pairs, one registered after the
other. Two sockets per `select()` give both sockets of one pair, sockets of two
pairs, and the same socket readable and failed. The proofs cover every number of
loggers and every pool. Between them the runs take every action; the mutants
show that the bounds are wide enough for each property to fail.

In the device server three sockets on two peers give a peer that is reused while
its former socket is watched and another connection is open; the second data
logger can take over the port of the first. Queues of two messages hold an
announcement's two replies or an answer and a command. One register is enough
for the HTTP thread since entries of different registers never meet; 18 on register
31 is the one `createtimecommand` deletes, and an answer to 05 may have a value
that cannot be decoded, so that its request waits its whole time. The answer to 06,
which leaves two entries, is in `server_write_result` and in the theorems.

In the discovery one device is enough for TLC, as `config` and `retained` are per
device and nothing else is shared; the proofs are for any devices. The five
attributes are the least with a standard one, an aliased one, what the alias
displaces, one of a single layout and one left out by default. The four
configurations of `telemetry` are chosen so that `layout_strict`, the automatic
families, a mapped inverter, a minimum score, several system ids and each switch of
a sink occur; its records have a serial number, garbled digits, none, a date that
cannot be read, no layout, and both smart meters.

Bounds by name: `StreamEnd`, `MaxChunk`, `ChunkSizes`, `MaxTime`, `MaxEvents`,
`MaxQueue`, `MaxCommands`, `Conn`, `Socket`, `Records`, `Confs`, `Sources`. A record
that would fill a queue beyond `MaxQueue` is not received. Two state constraints
keep the clock still where nothing reads it: `TimePasses` outside the timed
streams, `Clocked` without PVOutput. `MaxFrame`, `MaxBuffer`, `MaxPending` and
`FrameTimeout` are the program's own limits, made small.

### Fairness

- `FramerSpec`: the loop of `feed` goes on while it can (one thread, no waiting).
- `ProxyConnections!Spec`: the main thread takes a step when it can, but for its
  return from `procdata`: `select` polls every second and the sockets of a pair have
  a 30 s timeout, while nothing bounds the sinks (`requests.post` is given no
  timeout), so there is no fairness for `SinksAnswer`. `WaitingSettles` and
  `StalledFrameEnds` hold unless the main thread stays in one call of `procdata` for
  ever, and they say so; `ShutdownReleases` needs no proviso, as an interrupt ends
  the call. The workers are fair: `connect` has the 30 s timeout. Nothing is assumed
  of the loggers, of time, or of an interrupt: `Dial`, `GrowOld` and `Interrupt` may
  never happen.
- `ServerSpec` and `ServerHttp!Spec`: the device thread goes on, its sleeps end
  and its sockets do not block; a request under way goes on, as its loop is
  bounded and waits for no lock. Clients need not ask, data loggers need not
  answer, connect or close.
- `HaDiscovery!Spec`: a call of `grottext` goes on (a publication succeeds
  or raises in the end); records keep arriving, as an inverter sends one every few minutes;
  and a publication that is tried again and again is some time taken whole.
  Without the last two nothing would ever be cleaned up: the code retries with
  the next record only. Restarts may happen for ever; then nothing is promised
  but that the next process starts over.

### Findings

1. With `blockcmd`, an intact time command of protocol 02 is blocked: `confcmd` is
then a slice of bytes, compared with the string `"001f"`
(`grottproxy.py:407-418`), while the comment at line 415 says such commands are
not blocked. Run `protocol02_time_command` shows it; 05 and 06 are relayed.

2. A registration can outlive its connection. `close_connection` deletes the first
entry of `loggerreg` that names the peer only (`grottserver.py:1003`), while
`docs/development/grottserver-cleanup.md` wants the matching registration removed,
and a connection may have enrolled several names. The name is whatever bytes 8 to 17
of the chunk are (`grottserver.py:1072`, 1121). A record cut within its name enrols
half a name. One cut within its header has an empty record type, and
`rectype in ("16")` (`grottserver.py:1076`) is a substring test, so it enrols the
empty name. A chunk that begins within a record enrols what stands there, if its byte
7 reads 16 or 03. The entry that stays may be the real data logger's: commands for
it fail with KeyError until it announces itself again. Run `server_stale_owner` shows
it. While every chunk begins with a record and holds its name it cannot happen,
which is proved (`WholeRecordsNeverStale`).

3. The result of a write to an inverter is lost. The comment at
`grottserver.py:1176` says a 06 answer is kept with result and value, but the
`else` of the next statement, meant for 05 and 19, overwrites it with the value
alone (line 1183). Run `server_write_result` shows it.

4. `-v` does not have the rank the comment at `grottconf.py:234` gives the command
line ("prio: 1.Command line parms, 2.env. variables, 3.config file 4.program
default"): `parserinit` stores it (line 441) before the file is read, so `verbose` of
the file (line 519) and `gverbose` (line 596) overwrite it, and `parserset` does not
restore it. Run `startup_verbose` shows it: `-v` with `verbose = off` in the file.
`-t` is stored at the same place, but nothing else sets `trace`.

Smaller differences the models follow the code in, without a run of their own:

- `layout_strict` keeps the family, but with the default `layout_min_score` a
  record of the forced layout that looks wrong is dropped rather than decoded,
  which `README.md:122` does not say.
- The environment variable of the PVOutput limit is `pvuplimit` (`grottconf.py:650`);
  `Version_history.txt:256` calls it `gpvuplimit`.
- `gmqttinverterintopic` is never converted (`grottconf.py:632`): any text, `False`
  included, counts as true. A switch with a word `str2bool` does not know becomes
  an empty tuple, which counts as false.
- The environment raises the number of inverters only after the file's ids were
  read (`grottconf.py:645`). A single `%` in a text of the file ends the start.
- The health check exits 2 if the file cannot be opened, where Grott starts with
  its defaults, and for port 0; with `-c` it looks at another file than Grott.
- The sniffer compares the numeric destination with `growattip`: the default, a
  host name, matches no packet.
- A device layout without `pvserial` (the SDM630 meter) ends with a `KeyError` at
  PVOutput or InfluxDB. With a named time zone, `localize(is_dst=None)` raises in
  the hours of the change of clocks.

## Proofs

Theorems hold for every value of the constants that satisfies the named
assumptions (`FrameBufferAssumption`, `SessionAssumption`, `ProxyAssumption`,
`ServerAssumption`, `HttpAssumption`, and those named below), which TLC evaluates in
the runs.

**DataInduction.** The induction theorems of the library take an operator, which the
provers cannot instantiate. Here induction is about a set: a set of numbers that
has 0, and n + 1 with n, has all of `Nat`, since a least number outside it cannot
exist (`Nat` is well founded). With it a function defined by recursion is shown to
exist and to satisfy its equation, for the two recursions the models use: up the
positions of a stream, and along a sequence. `Kept`, of `SequenceFilter`, is
`SelectSeq` for a set, written as such a function; the lemmas say what it makes
of an appended element, a prefix and a split sequence. Nothing is assumed.

**FrameBufferProofs.** The inductive invariant adds to the type invariant that
the frames tile the consumed bytes (`FramesTile`) and agree with the validator
(`FramesWellFormed`), and what is left between calls (`NothingWithheld`): less
than a frame, and at most `MaxBuffer` bytes, whatever the bound. `FramesTile` is
what makes the position `start` of the parser the boundary `FrameStream` has
reached, from which the refinement follows step by step, for every `MaxFrame` and
`MaxBuffer`. With the default, `MaxBuffer >= MaxFrame`, the overflow error cannot
be raised (`OverflowUnreachable`).

`CutsWhatArrived` compares with a reference: `FramesWithin`, which cuts a stream of
which all bytes are there, by recursion from frame to frame. It is not
inductive in the middle of a call. `CutIsParsed` is: for every number of bytes
that has arrived or may arrive, the frames cut so far followed by what
`FramesWithin` finds from `start` on are what it finds from 0 on. `TakeFrame` moves
one frame from the second part to the first; when the loop ends, no frame is
complete at `start`, so the second part is empty.

**ProxySessionProofs.** Every step of a session is one of the framer or leaves it
alone, so the framer's invariant carries over. For the clock, `ClockWhileFeeding`
says what the frames cut so far and `had_pending` mean while `feed` runs: as what
was pending is a proper part of a frame (`NothingWithheld`), the first frame cut
ends behind it, and the rest began with this chunk exactly when a frame was cut or
nothing was pending. From that the three branches behind `feed` are right
(`StampsRight`), the clock is that of the first byte (`ClockIsFirstByte`), and
`OverdueNeverRead` follows. `ConfigureNeedsLeave` needs only that what was
forwarded was not blocked, as stream and settings are fixed. `RelayedInOrder` rests
on `FramesTile`: the frame in hand begins where the last one ended.

What was sent is told exactly by `HandledIsSent`: `forwarded` are the frames the
policy passes among those `on_recv` has finished with, `decoded` those with
telemetry among `forwarded`. Between two passes all frames cut are finished with,
and by `CutsWhatArrived` they are all that arrived, hence `RelaysEverything`; at
any other moment they are a prefix, and what a filter keeps of a prefix is a
prefix of what it keeps, hence `RelaysInOrder`. A pair that a malformed prefix
closed has handled the frames in front of it first.

**ProxyConnectionsProofs.** `Inv` is inductive. The registries agreeing
(`RegistriesAgree`) is not inductive on its own: closing a socket that a
snapshot still names is harmless only because a socket of a snapshot is either
registered or already closed, and that needs `NoOrphanSocket` (an open socket
nobody registered is held by a pending future), `Custody` (who holds the future
of a connection in each of its states) and `SnapshotsKnown` (a snapshot names
only pairs that were registered, so never a client that is still waiting); the
`source` of a call of `procdata` counts as a snapshot of one, since its pair may be
closed by a later frame of the chunk. `PhaseAgrees` ties `pc` to the shutdown. One lemma per group of actions; the
worker steps share `FutureStepInv`, the two places that close an upstream socket
at shutdown share `ReleaseInv`.

From `Inv`: a registered socket closes only in
`_close_socket` and with its partner (`RegisteredClose`), hence the two action
properties; the futures somebody holds number at most `MaxPending`
(`HeldBounded`, inductive together with `Inv`), hence `WorkersSuffice`; and each
step of a connection is a step of `ConnectionLifecycle` or a stutter.

**GrottServerProofs.** `Inv` is inductive. That sockets and queues correspond
one to one (`QueuePerPeer`) is kept by `Accept` because it retires the socket
registered under the same peer. That this hurts nobody (`RetiresOnlyDead`) needs
an order of age: of the connections with one address pair only the youngest can
be alive, and the listen queue hands them out oldest first (`AddressOrder`), so
whatever is registered when its successor is accepted was reset. `BatchSound`
keeps the snapshots of `select()` apart from sockets not accepted yet, and
`PeersRemembered` says the remembered peer is the real one, which lets `Put` find
the queue by `getpeername()`. `RepliesStayHome` follows from these: a queue dies
with its connection, so no message is left to a successor. `OwnersLive` needs
the loop that deletes one entry to meet at most one, which holds as long as a
connection enrols one name only: it is stated, and proved, for `WholeRecords`.

The HTTP thread keeps `Inv` too (`WholeServerInvariant`): of its steps only
`QueueCommand` and `DeleteOld` write, the one to the end of a queue that is there,
the other in `commandresponse`. So everything above holds however requests and
handlers interleave (`WholeServerSafe`, `WholeServerKeeps`), the part about
registrations again for `WholeRecords`. `RequestInv` adds what
each step of a request has at hand. `AnswerIsFresh` is inductive with the scope
of `comresp`: after `DeleteOld` the key is absent, and the device thread, the only
one that adds keys, adds each to `stored` in the same step (`DeviceStores`). That
`OK` is backed by an answer (`OkIsAnswered`) follows.

The refinement of `ConnectionRouter`, for the device thread alone
(`RegistriesRoute`) and for both threads (`WholeServerRoutes`), assumes
`WholeRecords`. `RoutingSound` restates the invariant in the router's terms: the
socket behind a peer is the one that has it, and a registration leads to a socket
of that very data logger. A closed or retired connection then takes exactly its
own entry along: the loop that stops at the first match deletes it, since there is
only one, and deletes no other. Under the same assumption no registration goes stale
(`WholeRecordsNeverStale`). Without it this is false, as finding 2 shows; the theorems
about queues, replies, retired connections and `OwnershipKept` do not need it.

**HaDiscoveryProofs.** `IInv` is inductive: for each device the topics of its entity
set are retained, no batch names one of them, every batch is accounted for by its
signature, and a signature that counts as reconciled has no known topic left
outside the set, but for a torn one. That batches and wanted topics stay apart
is what `SetConfigured` must establish when it carries batches over, and it gives
the refinement. `PInv`, on top of it, says that the retained payloads are those of
the signature; `SameSignature` is the lemma that two layouts of one signature ask
for the same payloads. Assumptions: `LayoutAssumption`, `AliasAssumption` (no two
values of a layout are shown as one extra attribute, which holds of the tables in
`grott_ha.py`) and `NoneAssumption`.

**TelemetryProofs.** `StrictFamily` follows from the candidates and the look-up
(`StrictCandidates`, `SelectionDefined`), for any layouts and scores.
`SerialKept` needs `SpoiledHaveNone`: the entry without a length is only ever
written where there was none. For the limiter, `LimiterInv` ties the stamp to the
upload it stands for: never ahead of it, and by less than a second behind;
`Spacing` is the arithmetic. Assumption: `TelemetryAssumption`.

**StartupProofs.** `Steps` reduces the steps to four kinds: one that reads a
source, a later one that keeps what was gathered, one that ends the process with
or without a refused setting. `SettingInv` says phase by phase which sources have
been read into `cfg`, setting by setting (`AfterArgs`, `AfterIni`, `AfterEnv`) and id by id
(`MergedOver`), from which `StrongestSource` follows at the end; `AddressInv` and `PortInv` follow the address of InfluxDB and
the port through the same phases. Assumptions: `StartupAssumption`,
`SourceAssumption`.

Only model-checked: the liveness properties, since fairness and ENABLED are outside
the prover: `FeedReturns`, `WaitingSettles`, `StalledFrameEnds`, `ShutdownReleases`,
`RequestEnds`, `DeadReaped` and `CleanedUp`. Every invariant and action property of
the passing runs is proved.

## Not modelled

- `compat = True` in `procdata`, the decoding of earlier versions: it is off by
  default and shares no state with the one modelled. The values decoded and the
  layout tables are data.
- Of the HTTP API: the pages, the dumps of the registries, requests refused for
  their own text, the conversions of formats, and a dictionary that changes while
  a look-up iterates over it.
- `tools/ha_discovery_cleanup.py`: a one-shot tool that lists retained topics and
  clears them; it shares no state with Grott. `addons/grott/run.sh` exports the
  environment Grott reads.
- `tools/validate_*.py`, `tools/verify_release_controls.py` and the workflows: they
  check the repository, not the program.
- The other extensions in `examples/`, which are samples. One remark on them: with
  a record whose registers end three before they begin, `map_extractor` of
  `grottregcheck.py` does not come to an end.
- Of `Conf`: `-o`, which redirects the output, and `print()`.

## Plan

Done, in this order: `FrameBuffer`, `ProxyConnections`, `ProxySession`,
`GrottServer`, `ServerHttp`, `HaDiscovery`, `LayoutSelection` and `Telemetry`,
`Startup`, each with its proofs; `DataInduction` and what it makes provable about
recursive definitions; `ConnectionRouter` and the refinement.

Left:

1. the registry dumps of the HTTP API, which iterate over dictionaries the device
   thread changes;
2. the composition of `ProxySession` with `Telemetry`: the rate at which records
   reach the limiter, and what a slow sink does to the clocks of other loggers, whose
   frames are judged overdue before the bytes that arrived meanwhile are read;
3. an abstract specification of one direction of a pair, `ProxySession` implementing
   it, beside the two invariants that say the same of its states.
