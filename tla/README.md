# TLA+ models of claude-items

This directory holds TLA+ models of the programs in this repository, the TLC
configurations that check them and the TLAPS proofs about them. The models are
written from the source; `PROJECT.json` names, for each definition, the lines
it stands for, and for each property a plausible bug (a *mutant*: an operator
placed before the definition it could replace) that would break it.

    tlc -workers 2 -config ConnPool.cfg MCOutbounds.tla    # check one run
    tlapm OutboundProofs.tla                               # check proofs

## 1. Inventory

The repository holds three programs.

**mirage** (`src/mirage`, Python, asyncio). A proxy client and server that talk
through tunnels disguised as TLS 1.3. Each process runs one event loop, so code
between two awaits is atomic and every await is a point where anything else can
happen: that is where its hard behaviour lies. **pyrealiy-android** is a Kotlin
client for the same protocol, around a Rust engine that is a stub here.
**samba-webgui** is a Rust web server that edits Samba's configuration.

| component | state | operations | hard behaviour | what makes it correct |
|---|---|---|---|---|
| tunnel pool, `core/conn_pool.py` | queue of tunnels, count of running builds, cursor of build slots | acquire, refill, probe, discard, warm-up | overlapping refills and probes, failed builds, stale tunnels, timeouts | builds counted exactly and never ordered twice, bounded overshoot, no lost socket, spaced connects, acquire ends |
| admission, `core/hello_auth.py`, `core/camouflage.py` | buckets of nonces, their count | verify, check and mark, evict | bucket boundaries, a full cache, time | a token is accepted once, nothing is forgotten too early |
| server, `server.py`, `core/stats.py`, `core/admin.py` | slots per address, active table, block list, totals | one handler per connection; block, unblock, kill | administrator against handlers at any await; many exits | slots, table and totals exact; closed connections are reaped once their receivers read; blocking closes everything |
| DNS upstreams, `core/dns/upstream.py` | current connection, reader task, pending table, locks, semaphore | query, reader loop, drop, close | late `finally` clauses of cancelled readers, retries, a reload around queries inside | answers match, no leaked tunnel, one reader, every query ends |
| live configuration, `core/reload.py`, `client.py`, `core/dns_forwarder.py`, `core/decision_cache.py` | router reference, geo data, two caches | reload, geo refresh, dispatch, lookup, expiry | replacement during awaits | no decision outlives its router; a reload sticks |
| outbounds, groups, health check, `core/outbound.py`, `core/group.py`, `core/healthcheck.py` | the tree, failure counts, latencies, current child | build, handle, resolve, probe, the API's reads and choices | groups of groups, reads with side effects, recovery without traffic | exactly the well-founded trees are built; connections go to healthy, near-best leaves; a node that is well again is found |
| encrypted tunnel and relay, `core/tunnel.py`, `core/utils.py` | two nonce counters, half-open state | send, receive, close-notify, drain, grace | half-close against late data, cancellation, resets | a two-way stream, shortened only by a failure or the grace period; every relay ends |
| UDP relay, `core/udp_relay.py`, `client.py` | queues, frame buffers, stop events, activity times | set up, forward, drop, idle, clean up | stop, idle limit and consumers race; set-up fails half-way | frames stay whole, everything ends together |
| handshake cache, `core/handshake_cache.py` | pool of recorded handshakes | warm-up, refresh, serve | a site that stalls or fails | clients come in once the site is well |
| clock, `core/time_sync.py` | offset | ask several servers, fall back | outliers, slow queries, a clock that is set | an offset as good as its answers |
| router, `core/router.py`, `core/bloom.py` | rules, intervals, filter | expand, match | none over time; algorithms | first matching rule wins, and rules say what entries say |
| geo cache, `core/geosite_cache.py` | files, meta file | ask, save, revalidate | abort between file and meta, mirrors of different age, deleted files | the files come to follow what is published |
| client API, `core/api/` | registry of connections, log queues | register, deltas, broadcast | slow subscribers | not modelled, section 6 |
| inbounds, `core/socks5.py`, `core/http_inbound.py`, `core/tproxy.py`, `core/sniffer.py` | none across connections | parse and dispatch | malformed input | not modelled, section 6 |
| Samba web interface, `samba-webgui/` | smb.conf, fragments, backup, cache, sessions | create, update, delete, migrate, restore, login | failure between writes | not modelled, section 6 |
| Android service, `ProxyVpnService.kt` and neighbours | stopping flag, TUN, current network | start, stop, network callbacks | restart, several networks | not modelled, section 6 |

Interaction: an inbound hands a connection to `_dispatch`, which asks the
routing cache or the router and calls an outbound; a mirage outbound takes a
tunnel from its **pool** and relays. The **DNS forwarder** asks the same cache
and router, and sends its queries through an **upstream**, which takes a tunnel
from the pool as well. At the other end of a tunnel the **server** admits the
hello (**replay cache**) and runs one handler. A **reload** and the **geo
task** replace the router under all of them; the geo task's files come from the
**geo cache**, through a tunnel of the pool if there is one. What a build of a
pool ends with is what its outbound's **health** is counted by, and **groups**
choose among outbounds by it. The server's admission takes its time from the
**clock**, and what it sends to a client it lets in from the **handshake cache**.
`PROJECT.json` lists every component with its status, and the hazards with
their lines.

## 2. Modules

Each component is one module. `MC*` modules give a component its instance and
its symmetry; `*Proofs` modules extend a component, or the components of one
part of the system, with their theorems. Operators of components that are proved
about together carry the component's name (`GroupsInit`, `UdpSpec`, `staggerVars`). Several
components that meet only through an outcome share a run: the `MC` module
has the variables of each, a variable `part` says whose behaviour this is,
and the others' variables stand still. The state space is the sum of the parts,
not their product; what one part tells another is, in the other, an environment
step that may happen at any time (a build ends well or not, a relay is over, geo
data come in a new version), so nothing is assumed about its order. A definition keeps the name the
source has, in TLA+ case, wherever there is one.

**ConnPool** (`BrutalPool`). `q` is the asyncio queue, `building` the counter
`_building`; the build coroutines are anonymous and counted by the await they
stand at (`nDelay`, `nConnect`), so `BuildingAccounted` compares two
independent accounts. A requester walks through `acquire`: it schedules
refills, waits, discards or takes, or times out and builds directly. `Expire`
and `PeerFin` age the queue. `IsAlive` is TRUE: this is what the code's check
evaluates to, see section 4. A lifetime (90 s and more) does not end during a
wait of at most five seconds that a queued tunnel ends at once; `Expire` says so
in its guard.

**BuildStagger** (`_reserve_build_slot`) is the same pool seen against the
clock: slots, sleeping builds, connects. Time is discrete. `Tick` waits for
tasks that are due, that is, the loop is not overloaded; without it the event
loop may run two due tasks together and no spacing can be promised.

**ReplayCache** (`TokenReplayCache`, `verify_session_token`). Tokens are minted
with any clock skew within the bounds; `buckets` is the dictionary of sets as a
set of pairs. The two calls run without an await and are one action. Rejected
before the cache is asked means nothing changes, so it is no action.
The server's clock is monotone here; a clock that steps back is in Admission.

**ServerConn** (`handle_client`, `StatsStore`). One `pc` per connection names
the await its handler stands at; `legs` are the directions of a relay that
still run, `stalled` those whose receiver has left off reading, so that data waits in
the relay's writer. `HelloFail`, `AddrFail`, `AddrMalformed`, `DialFail`, `RelayOver` and
`UdpOver` are its exits. `Block`, `Unblock` and `Kill` are the administrator's
and may run at any await. Bytes are counted in chunks; `total` and `bytes` are
what the admin page adds up.

**DnsPipeline** (`UdpUpstream`). Queries share a tunnel and a pending table; a
reader hands answers out. `DropTunnel` is `_drop_tunnel` with its three callers
(a failing query, the reader's `finally`, `close`). The reader of each tunnel is
`created`, `running`, `cancelling` (cancelled, its `finally` still to come) or
`ended`: `ReaderCancelled` drops whatever tunnel is current by then, as the code
does. Tunnels are used up, so the number of tunnels bounds the setups. The two
transaction id bytes are `1 .. NumTx`.

**LiveConfig** (`Reloader.reload`, `_geo_background`, `_dispatch`, `_handle`).
Rules and geo data are version numbers, a router is the pair it was built from
and a decision is the router that took it: a cached decision is stale when it is
not the present router's. One name is modelled, since entries of different names do not
meet; expiry and LRU eviction are one action that removes the entry. A reload
that fails to load or to build changes none of this state and is no action.

**OutboundBuild** (`build_outbounds`). One action per entry of the first pass,
per group tried and per round; `SystemExit` for a name that does not resolve and
the `ValueError`s lead to `error`. `items`, `waiting`, `retry`, `progress` and
`out` are the list, `pending`, `next_round`, `progress` and `out` of the code.

**OutboundGroups** (`MirageOutbound`, the three groups, `HealthCheck`, the API's
`/proxies`). `Answer` is what the properties and methods of one node would return,
given what its children return, and `told` asks the nodes in the order they were
built, children first; among the answers is which groups are *asked* on the way: in
the code the latency of an urltest group is the latency of what `resolve_leaf`
returns, and `resolve_leaf` remembers its choice, so a read is a write.
`Resolve`, `ReadProxies` and the scan of the API share that effect (`Remember`).
`BuildEnd` is any build of the node's pool, `ProbeEnd` one of the health check's.

**Relay** (`EncryptedTunnel`, `_bidi_tunnel_relay`, the two directions of
`handle_client`, `wait_both_with_grace`, `safe_close`) has both ends and the wire
between them; the two relay functions are the same machine but for the order in
which they close. A record carries a piece of the stream and the nonce it was
made with; the receiver compares it with its own counter, which is what
decryption does. `sl` and `rl` are the awaits of the sender and receiver legs,
`es` that of the supervisor. `AppReset` and `Cut` reset an application or the
tunnel, and `Rst` is TCP's answer to data that meets a closed socket.
**Stream** is what the relay promises the two applications, without tunnels,
nonces or legs; Relay implements it under the mapping that keeps `written`,
`fin`, `got`, `ended` and maps `broken` to *a fault happened, or a grace period ran out*.

**UdpRelay** (`_dispatch_udp`, `UDPRelay`, `handle_udp_tunnel`). `pc` is where the
client's dispatch stands, `srv` the server's function. A frame is a row of one or
two units that say how many they are, and the wire carries units, so a record
may end anywhere in a frame; `Feed` is `FrameReader`. `SetUpFails` is the
exception between binding and running. The watchers (control connection, tunnel,
idle time) are the disjuncts of `ClientStops` and `ServerStops`.

**TimeSync** (`initial_sync`, `_sync_once`, `_loop`). System time passes in steps and can be set
while nothing is asked; `skew` is how far it is behind real time. An answer is
real time plus its error, kept until the median is compared with the clock of the
*end* of the query, as in the code. **Admission** puts the replay cache on that
clock: `Cache == INSTANCE ReplayCache WITH now <- Corrected`.

**HandshakeCache** (`_fetch_one`, `warmup`, `_fill_pool`, `_auto_refresh_loop`,
`send_server_hello_done`, and the client's `_read_server_handshake`). A flight is
its row of record types. A stalled site gives a cut flight, an error none.

**GeoCache** (`ensure_all`, `_ensure_one`, `_download`, the way through the pool
and the direct way). `meta` is `meta.json`, `mem` the dictionary `ensure_all` works
on and writes at its end; `Abort` is the client stopping in between. An ETag
names a mirror and a version, as those of two servers differ for one file; a request
that carries an ETag and a date is answered by the ETag alone. `dat` is the file,
`stage` where `_ensure_one` is with it; `exists` is what it saw of the file when it
started, on which its requests go on to depend when the file is deleted meanwhile.

**Router** (`build_router` and every rule class). A configuration, of entries with
fields or of the lines of the old format, is expanded one by one into rules
(`AndRules`, `OrRules`, `ApplyCsv`), and `Match` takes the first that matches, each
kind by the algorithm of its class: bisection over sorted intervals (`Bisect` is a
function of the rounds of the loop), tails after dots through a Bloom filter that may
say yes too often, the literal in front of a regular expression (one without a dot is
not used). The rules an entry makes for its values are a set put in some row: they
differ in nothing but their criterion. `Holds`, `Says`, `LineSays` and `Fallback` are
the reference: what the documentation says of one criterion, of an entry, of a line,
and of a host of which no entry speaks.

**DohUpstream** (`DohUpstream`, and `_tunnel_for` and `reload` of the forwarder).
One connection for each upstream, a lock for its setup and one for a transaction.
An answer comes in two pieces that carry whose answer they are; a query that
gave up leaves its pieces on the connection, which is why it must be dropped.
A reload closes the upstream of the moment and the next query makes another;
queries inside keep theirs.

## 3. Runs

| run | parts and instance | shows |
|---|---|---|
| ConnPool | *pool*: 2 requesters, 1 prober, pool of 2. *slots*: step 2, jitter 1, 4 slots, 1 probe, time to 6. *build*: every tree of 3 groups of at most 2 children beside a leaf. *groups*: an urltest in an urltest beside a fallback that shares a leaf with it, below a selector; 2 nodes, 3 latencies, tolerance 2 | pool accounting, bounds, no double order, no lost socket, every `acquire` ends; slots and connects are spaced; exactly the well-founded trees are built; routes are healthy and near the best, reads move none, nodes recover |
| ReplayCache | *cache*: 3 tokens, tolerance 2, room for 2, time to 9. *hello*: 2 fetches, 3 stalls or failures | accepted once, remembered, exact count; clients come in again |
| Admission | 3 UDP and 1 HTTPS server, honest errors 0 and 1, lies of -4, a largest offset of 3, a clock that is 2 behind or not and is set once, system time to 2; 1 token, tolerance 1 | an honest offset; accepted twice only after a step back |
| ServerConn | *conn*: 2 connections, 2 addresses, cap 1. *tcp*: 2 pieces up, 1 reset. *udp*: one port, queues of 1, 2 datagrams a side | slots, table, totals, reaping once receivers read; Relay implements Stream and ends; frames are whole and associations end |
| DnsPipeline | 3 queries, 3 tunnels, 2 in flight, 6 ids | no leak, one reader, exclusive setup, answers match, exact table |
| DnsPipelineLive | *udp*: 2 queries, 2 or 1 in flight, 3 tunnels. *doh*: 2 queries of 2 attempts, 4 connections, 1 reload | every admitted query ends; DoH answers are whole and own, connections held |
| LiveConfig | *live*: 2 lookups, 2 edits, 2 geo versions. *geo*: 1 source, 2 mirrors (one with ETags), 3 versions, 1 abort, 1 deletion. *rules*: every list of up to 2 of 38 entries, and a list of CSV lines in both orders, on 13 hosts | no stale route, no lost geo data; a 304 keeps no file that is there and behind, and files become as new as what is served; the first entry that speaks of a host decides |
| ConnPoolZombie, ServerConnBlock, DnsPipelineClose, LiveConfigRules, LiveConfigAnswers | as above or smaller | what the documentation says and the code does not do, section 4 |

*Why the bounds are enough.* Two requesters on a pool of two already make
refills overlap with probes and direct builds, let the queue reach its overshoot
and let one requester take what the other ordered. Four slots allow a burst, an
idle period in which the cursor falls behind, and a new burst; the counter of
`BuildStagger` only depends on differences. Time to 9 with a tolerance of 2
crosses five buckets, more than the three that are kept and than the two a token
spans; three tokens fill a cache of two. Two connections with a cap of one, from the same
address or two, cover refusal, reuse of a slot and an administrator who hits one
and not the other; a handler meets no other one except through the slots. Three
queries are one that fails, one that sets up and one that waits; three tunnels
are the one dropped, the one dropped by mistake and the next; six ids are never
exhausted by three queries with two attempts, so ids do not come round (see
*Limits*). Two edits and two geo versions give an old, a present and a next one.

Three groups make every shape of circle, chain and forward reference that rounds
can meet; latencies 0, 1 and 2 with a tolerance of 2 give differences below and at
the tolerance; a leaf shared by two groups makes a read of one group meet the
other's choice. Two pieces in one direction, none in the other: the records of
one direction can overtake nothing, the directions meet only in the legs of an
end, and the empty one still ends first or last; one reset at either end or of the tunnel at any
moment. For more pieces and faults there is the proof. Two frames of one or two
units let every record end inside or at the end of a frame; queues of one drop
the second datagram. Three answers of which one lies are the most a
query uses. A clock that is set once steps forward or back, and the answers of a new
query move the corrected clock the other way; with a tolerance of 1 these steps cross
more buckets than the three that are kept, and an offset of -4 is refused unless real
time is ahead. Two fetches
are one good and one cut flight. Two mirrors and three versions let one lag and a
date or an ETag be shown to the other; a second source would share only the
writing of `meta.json`. Two queries with two attempts need at most four
connections; two plain queries let in together have a tunnel each and one more for
what one drops of the other, and let in one at a time they meet the semaphore; the
tunnels, which nothing tells apart, are handed out in a fixed order, as the first
connection of the server comes from a fixed address. Two entries are enough for order: which of several matches is taken
is decided between pairs.

*Deadlock* is checked except where a behaviour ends: the clock of `ReplayCache`
stops, queries are called once, a proxied connection or an association is over, the
rules are made.

*Fairness.* ConnPool: every await of the pool has a time limit (5 s for the
queue, 20 s for a build, the delay for a sleep), so the steps that end them are
weakly fair; callers, probes, failures and the peer are not. OutboundGroups: the
health check sleeps and scans for ever, probes end by the build's limits, time
passes; no traffic is assumed. ServerConn: the hello, the address, the dial, the
grace period and the closing have timeouts, and EOF wakes a leg that awaits data of
the client. It does not wake one that awaits `drain()` of a target that does not read,
and a closed transport comes to its end only after the client has read what waits for
it (`Deaf`). The peer, the target and the administrator are not fair, nor is
`Drained`, so `ClosedIsReaped` asks only about connections that are closed and says
that they are reaped unless they are `Deaf` again and again. Relay: only the supervisor of an end is fair, since
grace, drain and close each have a limit; nobody promises to write, read or end.
UdpRelay: the set-up calls return, the watchers and readers are tasks that run
when they can. HandshakeCache: a fetch ends by its timeouts, the refresh comes
every hour, clients go on connecting. GeoCache: the geo task comes back, each
attempt is limited, files grow old; strongly fair is that the first mirror answers
when it is asked again and again, without which no file could follow anything.
DnsPipeline and DohUpstream: asyncio's lock and semaphore hand over, setup and
answer have timeouts; the resolver need not answer.

## 4. Where the documentation says more than the code does

Each of these is a run that ends with a counterexample.

- *HandOutAlive* (`conn_pool.py:186`). The liveness check of a queued tunnel uses a
  module the file does not import; its catch-all answers "alive". Tunnels whose
  peer has gone are handed out.
- *BlockedAreClosed* (`server.py:108`, README of mirage, line 147). A connection
  between the look at the block list and its registration survives the block of its
  address and relays on.
- *CloseFailsInflight* (`upstream.py:166`, CHANGELOG line 1728). `close()` cancels
  the reader and CancelledError fails no future: queries in flight wait for their
  five seconds instead of getting an OSError.
- *RulesAreCurrent* (`client.py:554`, README line 956). The geo task rebuilds the
  router from the configuration of the start and so undoes a reload.
- *AnswersFresh* (`dns_forwarder.py:310`, `reload.py:134`). An answer asked for
  before a reload is cached after the cache was cleared.

Seen while modelling, without a run of its own (`PROJECT.json` quotes the lines):

- the up leg of a relay waits without a limit in `drain()` of a target that does not
  read (`server.py:214`): if the target does not send or reset either, a connection
  that its client has closed or the administrator has killed keeps its entry and its
  slot; so does a killed one whose client leaves data unread. `ClosedIsReaped` excepts
  both by name (`Deaf`);
- a geo file deleted after `_ensure_one` has looked for it meets a 304 and is
  recorded as fresh though it is gone (`geosite_cache.py:431`), until the next round;
  `UnchangedIsCurrent` speaks of files that are there;
- a reply that fails after `start()` leaves the local UDP socket of an association
  open, since only `run()` closes it (`client.py:257`);
- a group may take the tag of another entry, or that of the implicit `direct` or
  `block`, without the refusal the message promises (`outbound.py:389`);
  `BuildExact` asks about configurations where that does not happen (`Distinct`);
- a geosite entry of type suffix does not match its own domain (`router.py:429`), an
  inverted entry with several values becomes several inverted rules
  (`router.py:781`), several fields are combined although the header calls them
  illegal (`router.py:777`), and without `final` the default is the proxy and not
  `direct` (`router.py:928`); `RoutesAsWritten` leaves the first two out by name;
- a fetch that times out keeps part of a flight (`handshake_cache.py:70`), and after a
  failed warm-up nothing refreshes the pool, so that clients are closed until a
  restart (`server.py:326`); `ClientsAdmitted` excepts a failed warm-up;
- an abort between the file of a lagging mirror and `meta.json` lets an older file
  pass for the newer version until the next publication (`geosite_cache.py:619`),
  and a body that ends with the connection cannot be told from a cut one;
  `CacheFollows` excepts both;
- a probe connects without reserving a slot, so it keeps no distance to the builds
  (`conn_pool.py:331`); the refill is computed before a tunnel is taken, so the last
  one taken is replaced at the next request (`conn_pool.py:294`);
- replies to a UDP association go to the port that sent last (`udp_relay.py:350`);
- a query inside an upstream that a reload closes may open a connection there that
  nobody closes but the peer (`dns_forwarder.py:239`); `DohSound` bounds this to
  upstreams that were closed with queries inside;
- a token is accepted again when the corrected clock was set back after its first use
  (`hello_auth.py:135`, `time_sync.py:301`): `AcceptedOnceUnlessSetBack` shows there
  is no other way but a full cache.

## 5. Proofs

All theorems hold for every value of the constants under the `ASSUME`s of the
component's module (finite sets, positive sizes, jitter at most the step) or of the
theorem, listed with it below. A safety theorem has an inductive invariant that
`Init` establishes, that every action keeps (one step or lemma per action) and that
implies the property; the invariants were checked by TLC on the runs' instances
before they were proved. 35 theorems in eight modules cover every invariant and
every action property of the runs.

**OutboundProofs** (ConnPool, BuildStagger, OutboundBuild, OutboundGroups)

- *The pool*: types, `BuildingAccounted`, `PoolBound`, `NoOverOrder`,
  `SocketsAccounted`. The bounds need that running builds never exceed the pool
  size and that queue and builds together stay within twice of it, which a
  probe preserves only because it pushes a tunnel out of a full queue; a build
  that starts to connect below the limit may finish above it, which is why the
  limit is twice the size. `SocketsAccounted` uses the cardinality theorems for the
  requesters that hold a tunnel.
- *The slots*: `SlotsSpaced` needs that the cursor is at least
  `Step - Jitter` beyond every slot given out; `ReservedLaunchesSpaced` that a
  sleeping build's slot has not passed, so each connect takes place at its slot.
- *The construction* (`BuildIsExact`, for any set of configurations that are rows of
  entries): `BuildExact` has two halves. That what was built has no stuck set of
  groups is `Unbuilt`: no member of a stuck set is ever built, since the first one
  would have needed another one of the set. That what was turned down has one needs that no group is lost
  on the way (`Placed`) and what the round has found
  out about those it put back (`Refused`): each lacks a child, and when nothing was
  built since, it still does; so at the end of a round without progress the groups
  put back are themselves a stuck set.
- *The choice* (`GroupsRouteWell`, `ReadsMoveNothing`). Hypotheses: `OrderedTree`,
  which is what the construction makes (distinct tags, every group has children and
  they come before it, latencies are numbers; TLC evaluates it for the tree of the
  run), and for the first a positive tolerance. The state's part is small
  (`GroupInv`: a selector selects a child). The work is in the tree: `told` is a
  recursive function, and the answers it ends with are shown to be a fixed point of
  `Answer` at every node (`ToldAnswers`), one node at a time. That a healthy group
  leads to a healthy leaf, and that the answers are the only fixed point
  (`OneAnswer`), go by a least counterexample in the order of construction. A read
  moves an urltest group to what it picked, and what it picked it picks again
  (`PickAgain`: the chosen child is within the tolerance of the best, or is the
  best), so the old answers are still a fixed point after the step, and thus the
  new ones.

**ReplayCacheProofs**: `AcceptedOnce` follows from `Remembered`: an accepted
token's nonce lies in a bucket at most two older than the present one as long as its
token is within tolerance. This is the arithmetic that makes three buckets enough.

**AdmissionProofs** (TimeSync, Admission). Hypotheses: errors, lies and skews are
integers, and the cache's constants are what ReplayCache assumes. `OffsetIsHonest`
needs `TimeInv`: the answers of a query are at most three and in order, each a lie
or the real time of a moment since the query began, give or take an honest error,
and the system clock is not set meanwhile; then the middle one of three with one lie
lies between honest ones. `OnlySettingBackReadmits` is `AcceptedOnce` on a clock that
jumps: the invariant says of every accepted token, unless the cache was full when it
came or the corrected clock has gone back since, that it is out of tolerance or its
nonce lies in the bucket of its acceptance (`Guarded`).

**ServerConnProofs** (ServerConn, UdpRelay)

- types, `SlotsAccounted`, `ActiveAccounted`; the slot count is related to the
  set of handlers of an address, which each step changes by at most one element.
- `BytesAreConserved`: what is in the table and what has left it make up all the
  relayed chunks. `ChunkInv` adds that a connection relays only while
  it is in the table, that it has relayed nothing before it enters, and that `total`
  is the chunks of the connections outside the table; the last is what unregistering
  moves from one account to the other.
- `FramesAreWhole`: `UdpInv` says that what the reader of one end has read, what it
  keeps (less than a frame) and what is on the wire are, in a row, the units of the
  frames the other end has sent, to the last one unless the tunnel was cut.
  `FramesWhole` alone is not inductive: it says nothing about what is on the wire.

**DnsPipelineProofs**

- types, `NoTunnelLeak`, `OneReader`, `SetupExclusive`. They
  are proved together: that a setup finds no current tunnel is what keeps the
  second from overwriting the first, and it rests on the lock, on the reader being
  that of the current tunnel, and on a cancelled reader being no current one.
- `AnswersAreMatched`, `PendingIsAccounted`: finitely many queries, and as long as no
  more attempts have been made than there are ids (`FewSent`; 65535 in the code), which is
  how the theorems say that ids do not come round. `Ids` relates the cursor to the
  number of attempts that may have sent a packet, and says that an id from the cursor on is in
  nobody's hands, neither in the table nor in a packet on any tunnel, that two waiting queries have two ids,
  and that an answer under a waiting query's id is an answer to it.

**ClientConfigProofs** (LiveConfig, Router, GeoCache)

- types, `RoutesFresh`, `GeoKept`; the last needs that the router carries the geo
  data the reloader knows.
- `RoutesAsWritten`, for every configuration of either format but those with inverted
  entries of several values (`Plainly`). Hypothesis
  (`RouterAssumption`): names, values and files are rows, addresses and networks
  integers, and no suffix in a geosite file is empty, as the parsers see to.
  `RouterInv` says it of the entries read so far: either no rule matches a host and no
  entry speaks of it, or the first rule that matches goes where the first entry that
  speaks does, and the default is that of the last FINAL line so far. In this
  form the expansion needs no induction over the entries: a step appends what one
  makes, and `LineSpeaks`, `AndSpeaks` and `OrSpeaks` show that one of its rules
  matches exactly the hosts of which it speaks.
  Under it, `InnerHolds` shows each algorithm to decide what its criterion says.
  That the bisection finds the last interval that starts at or before the address
  (`Bisected`) is an invariant of its rounds (`Narrowed`); the induction over rounds and
  that the sorted row and the recursive function exist are shown by least
  counterexamples, as the library's induction cannot be used. A literal is a part of
  whatever its pattern matches (`LiteralFound`), so that asking for it first
  refuses nothing; a filter never refuses what the table holds.
- `UnchangedIsCurrent`: `GeoInv` says that between two runs of `ensure_all` its
  dictionary is what `meta.json` says, and, as long as nothing was aborted, that the
  date known of a file that is there is its version and that its ETag names this
  version, also when the file goes away under a download and `exists` is out of date. Whoever answers 304 has then seen its own ETag, of the version it serves, or
  a date that is not before that of its version.

**RelayProofs**: types, and `StreamIsKept`: Relay implements Stream (the alert is no
piece). Every step is shown to be a step of Stream or a stutter, under `RelayInv`. Its
parts: `Counted` (a record carries the piece its nonce counts; a receiver leg that runs
has given on one piece for each nonce it counted, so a piece it accepts is the next
one), `Supervised` (an end that drains or closes has no leg any more, so it throws away
nothing a leg would have read), and `Whole`, which holds until something fails:
the nonces in flight are consecutive, the alert is the last record, and the
receiver leg ends only after it; so the end is seen after the last piece.

**DohUpstreamProofs**: `DohIsSound` (`None` is no query and no connection). The
invariant says who holds the two locks, that an open connection is the one of its
upstream, that only the holder of the request lock reads, that a connection nobody
reads carries no pieces (this is what dropping it after a failed query preserves), and
that upstreams left by a reload have a connection only if queries were inside.

*Only model-checked*: the liveness properties (`AcquireReturns`, `Recovers`,
`ClosedIsReaped`, that relays, associations and queries end, `ClientsAdmitted`,
`CacheFollows`), which are out of the prover's reach.

*Limits.* `AnswersMatch` says nothing about the time after 65535 queries
on one upstream, when a late answer can meet a reused id: no run claims it.
The pool's rates, byte layouts, cryptography and logging are not modelled.

## 6. Not modelled

- *DotUpstream*: the pipeline of `UdpUpstream` over a TLS stream; the same machine.
  `TunnelTLSClient` moves bytes between the tunnel and the `ssl` module's engine.
- *Client API*: the connection registry, traffic deltas and log queues; nothing else
  in the client reads them. Its calls that choose or ask outbounds are in OutboundGroups.
- *Inbounds, egress, configuration*: one connection at a time is parsed, a socket
  option is set, a dictionary is validated. No state outlives the call; ServerConn and
  UdpRelay have the outcomes.
- *Probes of the server without a good token* (`serve_probe`): they read the
  handshake pool and change nothing.
- *Per-domain counters and the recent list* of `StatsStore`, and the admin page's HTTP.
- *Installer and bench*: run outside the system.
- *Samba web interface* and *Android client*: programs of their own, which share no
  state with the proxy. What is hard in the first is the order of writes around
  `smb.conf`; it would be a module of its own with crashes between the writes. In the
  second the engine that moves the traffic is a stub in this repository.

What is left that would add most: the writes of the Samba configuration with
crashes, and DotUpstream beside DohUpstream.
