# BAITNet in TLA+

BAITNet is a small network stack written in C: addresses and routing (IPv69), an
encrypted message transport (ICSP), address leases (DHCP69), a PPPoE-like access
protocol and a TLS-like record layer on top (BITE/bTLS). This directory holds the TLA+
model of its protocol code, the TLC runs over it and the TLAPS proofs about it. The
C sources under `c/` are the reference; every definition that stands for code is listed
with its lines in `PROJECT.json` ("map").

## Inventory

| component | state it keeps | operations | talks to | what is hard |
|---|---|---|---|---|
| ICSP handshake (`icsp_handshake.c`, `icsp.c`) | ephemerals, `last_init_ts`, `peer_id`/`peer_eph`, keys, retry counters | client connect, server accept, rekey | frames INIT, INIT-ACK, COOKIE-ECHO, COOKIE-ACK over L2 or a gateway | late, lost, repeated and damaged frames; several clients and one server; timeouts that race late answers |
| ICSP data (`icsp_data.c`, `icsp_life.c`) | TSN and stream counters, `sendq`, `rcvq`, replay window, `cum_tsn`, stream table | send, retransmit, receive, SACK, stream reset | DATA, SACK, STREAM-RESET frames; `on_data` callback | loss, reordering, duplicates, full tables, counters that wrap |
| ICSP session (`icsp_session.c`) | last-heard and last-sent times, rekey timer | receive frame, dispatch, keepalive tick, poll, relay | all of the above | rekey while data is in flight, dead-peer timeout |
| DHCP69 (`af69d.c`, `ip69d.c`) | server lease table, client lease | DISCOVER, OFFER, REQUEST, ACK, RELEASE, renewal | signed frames on L2 or through the gateway | expiry racing renewal, probing a full pool, repeated or late requests |
| PPPoE69 (`pppoe69.c`) | AC session table with snooped addresses, peer keys, host state | PADI/PADO/PADR/PADS/PADT, inner frames, idle reaping | L2 frames, the hosts' TAPs, the island | lost PADS or PADT, ids that are reused, stale addresses, a full table, restarts |
| Gateway (`ipv69gw.c`) | peers, neighbours, routes, pending queries, federation links | learn, expire, answer, relay, flood | UDP tunnels and links, L2 | clients that move, late answers, flooding without a hop count, filters at each hop, table limits |
| bTLS (`btls.c`, `baitname.c`) | epochs, record counters, handshake transcript, reassembly buffer | feed, pump, seal, open, send, receive | an ICSP stream | epochs that change per direction, lost records, fragments |
| BITE programs (`examples/bite.c`) | the server's association and its time, the client's request | accept, serve, fetch | bTLS over ICSP | associations that follow or meet each other, time that runs out, malformed targets |
| Rate limiter (`ratelimit.c`) | token buckets | `rate_allow` | DHCP69 server, gateway | integer refill, eviction of a full table |
| keyring, keygen, mac1, Ed25519, L2 access, parsers, command line, Python port, examples | files and sockets | I/O and cryptography | | no protocol state of their own |

What makes each part correct: the handshake establishes only authenticated associations
and both ends hold the same key; a stream is a FIFO, each message is delivered once, and
what is acknowledged was delivered; a session survives a rekey and ends when the peer is
dead; an address is leased to one client at a time; an AC session belongs to one host, and
what is addressed to a host goes into its session; a relayed answer goes to the peer that
asked, a frame arrives once and only where its class may go; a record is accepted once, in
order, under the key of its epoch; a response is the whole response to the request.

## Modules

| module | models | composed with |
|---|---|---|
| `IcspHandshake` | `icsp_client_handshake`, `icsp_server_accept` and the frames between them | |
| `IcspHandshakeProofs` | theorems about it | EXTENDS `IcspHandshake` |
| `StreamFifo` | what a stream promises: a prefix of what was sent, in order | |
| `IcspData` | `icsp_data_send`, `icsp_data_retransmit`, `icsp_data_handle`, SACKs, STREAM-RESET | implements `StreamFifo` |
| `IcspDataProofs` | theorems about it | EXTENDS `IcspData` |
| `Dhcp69` | the DHCP69 server of `af69d` and its clients, `ip69d` daemons and others | |
| `Dhcp69Proofs` | theorems about it | EXTENDS `Dhcp69` |
| `IcspSession` | an established association: receive loops, keepalive, rekey, shutdown, with DATA both ways | |
| `IcspSessionProofs` | theorems about it | EXTENDS `IcspSession` |
| `Gateway` | several `ipv69gw` and their clients: peers, QUERY, mesh, federation, both data paths | |
| `GatewayProofs` | theorems about it | EXTENDS `Gateway` |
| `Pppoe69` | the access concentrator and the hosts that dial it | |
| `Pppoe69Proofs` | theorems about it | EXTENDS `Pppoe69` |
| `Btls` | the functions of `btls.c`: record layer, handshake, fragmentation | |
| `Bite` | the server and the fetch of `bite.c` over an ICSP association | EXTENDS `Btls` |
| `BiteProofs` | theorems about it | EXTENDS `Bite` |
| `Least`, `LeastProofs` | the first slot a loop finds: the least element of a set | used by all tables |
| `MCIcspHandshake`, `MCIcspData`, `MCIcspSession`, `MCDhcp69`, `MCGateway`, `MCPppoe69`, `MCBite` | instances for TLC | |

### IcspHandshake

One server and a set of clients. A client's ephemeral is named by the timestamp of the
INIT that carries it (`init_build` makes a new one for every INIT, and two INITs of a
client are a receive timeout apart), a server ephemeral by its number; a session key is
the pair it is derived from and a cookie the pair (identity, ephemeral) it is a hash of.
Signatures are ideal: a damaged frame loses the bit `ok`. `cst`/`sst` say where the two
functions are, `lastTs` is `last_init_ts`, `speer` is `peer_id` with `peer_eph`, `cdst`
the stations a client's frames reach: broadcast at first on L2, then whoever was heard
last, because `icsp_recv_frame` redirects `peer_mac` before the chunk is looked at.
Each client wait has its accept, refuse, resend, give-up and skip actions; the server has
the two waits of `icsp_server_accept`, both error paths back to the INIT wait, the
timeouts of its three modes and the application's next call. The network may lose,
damage, delay, reorder and repeat frames.

### IcspData

One direction of an established association. A message is the number of its
`icsp_data_send` call. Everything that decides is kept: the stream table shared with the
other direction, the TSN and seq counters with their widths, the `sendq` that stores all
of a message but its bytes, the replay window that is moved before anything else, the
stream gate, the `rcvq` nothing reads back, `cum_tsn` that jumps over gaps, a SACK only
when it moved, and a failing `icsp_send_pkt`. Encryption is not shown; a frame that does
not open is `RecvForeign`.

`StreamFifo` is the abstract specification: `Send` appends to a stream, `Deliver` gives
the callback the next message. The refinement mapping forgets payloads and TSNs.

### IcspSession

Both ends of an association from the moment the handshake has returned, each in its receive
loop. `st` is the state, or what the loop returned: `closed` (SHUTDOWN came), `dead`, `err`
(ICSP_POLL_ERR), `shutdown` (the end closed) or `stopped` (killed). The n-th rekey INIT
carries ephemeral, timestamp and assoc_id n. What DATA is sealed with is the key, as the two
ephemerals it comes from, and the assoc_id, which is in the nonce: the initiator's assoc_id
changes when the INIT is sent, its key when the COOKIE-ACK comes; the responder's both
when the INIT comes. `dp` holds the counters that `data_plane_reset` starts over, of one
stream; retransmission is left to `IcspData`.

`HandleFrame` is `icsp_handle_frame`: one disjunct per chunk type and state, each with
`last_rx` and `peer_mac` first. `KeepaliveTick` and `Dead` are `icsp_keepalive_tick`, which
runs when a receive has timed out, which says nothing of the frames that are still on their
way; the rekey it may start includes the case that its INIT cannot be sent. Frames are in order and in time in `chan`, or in `late`, from where
they may arrive at any later time or never; a frame of `DupKinds` may arrive twice.
`happened` records what went wrong. Time is in seconds: `Tick` comes when the polls, four or
five in a second, have served what was due. Two history variables say what `Flows` may ask for: `must`
holds the messages that nothing known so far stands in the way of, `early` that the initiator has
sent DATA between its last COOKIE-ECHO and the COOKIE-ACK. The announcements of a tunnel server and the
buffering of standard input are not shown.

### Dhcp69

The server's state is `leases` (one record per slot of the array), `peers` and the peer
`file`; a daemon's is `cst`/`attempt` (where `dhcp_acquire` or the main loop of `cmd_tun`
is), `addr` and `left` (its struct lease) and `up` (the first acquisition succeeded, so a
failed one is no longer fatal). Time is kept as what is left of each lease, in ticks of
one client wait: `expiry > now` is `left > 0`. `Tick` lets a tick pass for everybody; with
`Timely` it waits until the frames in flight have arrived and the timers that went off
have been served. `Overdue` is the latest moment at which the main loop looks at its lease
again, because it sleeps for half of what is left.

A server action is one message through the whole of the loop: the MAC list, `check_msg`,
`learn_peer` with the reload of the peer file that the appended key causes, then the
handler. DISCOVER and REQUEST call `lease_alloc`, which renews what `lease_find` finds
whether it has expired or not, or probes the pool from the hash of the MAC for a free
address and takes the first slot that is unused or expired; REQUEST may then move the
lease to a free address of the key's own range; RELEASE clears the slot.
`revived` is a history variable: the clients whose lease was renewed after it had expired.
The clients of `Raw` are any other program and may send every message at any time, RELEASE
included, which `ip69d` never sends. mac1, CRC and rate limiting drop frames and are part
of `Lose`. `check_reply` accepts every answer: `cmd_tun` clears the key and the server key
read from the command line with the `memset` at `ip69d.c:429`.

### Gateway

A set of gateways, started in one of the ways of `Confs`: links, segment, `--peer`,
`--private`, where the clients are and what they may do. A client is its key and its MAC; an
endpoint is the client with a number that grows when it moves, and has an address of its own
(`conf.addr`), the one its client announces there: several clients may use one address, and a client
another one after it has moved. A gateway
has `peers` (the array, a slot with the key, the address and endpoint it was last heard with, and
whether it has been silent for PEER_TIMEOUT), `neigh`, `pend` (one entry per pending query, with the client or the link that
asked) and `routes` (a sequence, because expiry moves the last entry into the hole). Datagrams
between gateways are in `net`, in any order.

A step of a gateway is one pass of its loop: `SendTunnel` is the data part of the UDP side from
the datagram of a client to everything that is sent because of it, with learning, the source
check, the class filter, flooding and the announcement of routes that a new peer causes;
`RecvLinkFrame`, `RecvLinkQ`, `RecvRoute` and `RecvR` are the link side, `RecvL2Frame`, `RecvL2Q`
and `RecvAnn` the segment's; `AskLocal`, `AskRoute`, `AskMesh` and `AskNone` are the branches of
QUERY. `rate_allow` refuses where it is called: a peer is not learned, a broadcast is not
passed on (`thr`). The timers are `Announce`, `PendExpire`, `RouteExpire` and `Age`.
`asked`, `answers`, `calls`, `frames` and `got` record what was asked, answered and received.

Who may have an address is decided by `auth_allowed` only (`ipv69gw.c:109-118`): with `--peer` the
pairs of `conf.auth`, and without it, in open mode, any key any address. `gw_src_ok` then takes a
datagram whose source any peer was learned with. So a lookup by address (`peer_find_addr`) may find
several slots, of which the first wins, and `Announces` says no more than what the code checks: the
endpoint's client announced the address, with a key that may have it. What needs an address to belong to
one client says so (`Own`, in `Sure` and `SureAsk`). A MAC is taken to be of one key; the code
does not compare the two. Periodic announcements come when nothing is in flight: they are 30 s apart (2 s
at the start), and a datagram takes milliseconds. Datagrams are not duplicated.

### Pppoe69

`sess` is the AC's array, `peers` its keys and `file` the peer file; `hst`, `sid` and `attempt`
say where `host_dial` or the session loop of a host is. A host is the MAC it dials with, its
key and its wire MAC. The wire between a host and the AC keeps order and may lose frames;
what `rate_allow` refuses is lost. `AcTakes` is `ac_rx` by kind of frame: the four discovery
frames, with the key that is learned, appended to the file and found there by the loop, and
the frames of a session, from which wire MAC and address are snooped and which are answered,
switched to another session or bridged. Frames of the island are `Island`. SESSION_IDLE passes
in `Quiet`, unless the host is dialing, which takes seconds; `Reap` is the idle loop.
`orphan` records the hosts whose session went away without their being told: the AC's PADT was
lost, the AC was restarted, or a PADT closed the session of a host that is up or that has a PADS
for it on its way (`Believes`). The last may be the host's own: after a crash it dials again, takes a
PADO and a PADS that answered its earlier dialing (`host_wait_ctrl` looks at type and AC only,
`pppoe69.c:820-970`), and the AC then reads the PADT the host sent before.

### Btls and Bite

`Btls` holds the functions of `btls.c` on the record of a session: role, state, epoch,
transcript, keys, counters, fragments received. Cryptography is ideal: a key is its label,
secret and transcript, a sealed record the key and counter it was sealed with and its
content, and it opens with the same key and counter. `Flight` is the caller's loop over
`btls_pump`. A message is as many fragments as its `size` says.

`Bite` runs them: `run_server`, one association after the other in the one context it clears,
and `run_fetch` of several clients. The association below carries records in order; one
that is lost comes again as zeros or stalls its direction for good, which is what
`IcspData` shows (`loss`). A target is a sequence of characters and escapes, decoded and
checked by what `req_target` does. `Tick` lets time pass when nobody has anything to do;
`happened` records the troubles: a `late` accept, a `second` INIT, a record `lost`, time that
passes while there is work (`slow`), a `send` or poll that fails, a document that changes.

## Runs

| run | network | checks | result |
|---|---|---|---|
| `race` | two clients, one refused and with its clock ahead; L2 with timeout and tunnel; one frame damaged or repeated | `TypeOK`, `ServerAuthentic`, `ClientAccepted` | hold |
| `connect` | timely; up to MaxTries - 1 INITs and COOKIE-ECHOs lost, answers repeated; the server accepts again | `KeyAgreement`, `Connects` | hold |
| `streams` | two streams, TSN wrap, full tables, reordering, one fault of each kind in turn | `TypeOK`, `DeliveredOnce`, `IsFifo` | hold |
| `delivery` | timely; two faults, DATA of one stream lost or frames repeated | `AckedIsDelivered`, `EveryMessageArrives`, `EverythingAcked`, `TailLossRecovered` | hold |
| `loss` | timely; one DATA frame lost | `LossRecovered` | violated |
| `rekey` | two rekeys, a message each way; two frames late, lost or repeated (SACK and HEARTBEAT-ACK not late, COOKIE-ACK not repeated), a send that fails, another station's INIT, a kill | `TypeOK`, `SealsAgree`, `ErrOnlyIfDisturbed`, `DeliveredOnce`, `NoFalseDeath` | hold |
| `keepalive` | a rekey, two messages each way, nothing lost; a kill or a shutdown | `GoneIsNoticed`, `RekeyCompletes`, `Flows` | hold |
| `leases` | two daemons, timely, two frames lost or repeated, a renew command or a stop | `HeldIsLeased`, `NeverLapses`, `Binds` | hold |
| `lease_table` | three clients that send anything; pool, slots and peer table too small for them; keys learned, the file edited | `TypeOK`, `OneLease`, `SharedOnlyIfRevived` | hold |
| `federation` | two or three clients and gateways: a line of links, a segment, both; frames and queries lost, late or throttled, a move, full tables, private addresses, open gateways with an address two clients share, a list of peers and a key on it that announces another's address | `Keyed`, `Introductions`, `ExactlyOnce`, `Confined`, `DataDrains`, `QueryResolves` | hold |
| `sessions` | two hosts, room for one session or two, allowlists given, learned and edited; a frame lost or late, a crash, a restart, a lease that changes hands | `SessionsUnique`, `UpHasSession`, `Isolation`, `Reaped`, `Dials` | hold |
| `fetch` | two clients, names right, wrong or none, one or two fetches; records lost, sends and polls that fail, a document that changes, time that runs out, targets of every kind | `Channel`, `Answers`, `Serves` | hold |

Each property has a mutant of the code's definitions (in the modules, just before the
definition they replace) under which TLC finds it violated.

Bounds. Two clients are enough for a race through one `last_init_ts`; two tries for an
answer to be late; one fault at a time in `race` because the retries already give every
order of two INITs and two echoes per client. In the data path two messages per stream
and a window of two TSNs already give a message out of turn, one outside the window and a
retransmission of an acknowledged one; `TsnMod = 8` with a first TSN of 6 wraps within
the run; `MaxStreams = 2` with one peer stream leaves room for one of the two streams;
`SendQ = 2` and `RcvQ = 1` are overrun. In the session two rekeys are needed for a frame of one to
disturb the next, and `MaxTrouble = 2` for one to be lost and another repeated;
`HbInterval = RekeyAfter = 1` lets heartbeats and rekeys meet, and `DeadTimeout = 3` lets two
frames be lost before silence is too long; SACK and HEARTBEAT-ACK, which only date the sender's
`last_rx` here, are not held up in `rekey` because a late HEARTBEAT does the same and two million states are
saved, and its VIEW leaves out the two history variables that only `Flows` reads; every data plane starts at the same TSN, the worst
case for telling old DATA from new. For the leases, `Lease = 10` leaves a renewal begun at the last moment just the time for
its `Attempts = 2`; two faults are one more than a
renewal bears, so that giving up happens too. `MaxLeases = 2` with a pool of two and one
address outside it leaves one of three clients without a slot, `MaxPeers = 2` one without
an entry. Three gateways in a line are the least in which one has to pass on an answer
that is for neither side of it; a segment and a link in a row show what crosses from one to the
other; two peer slots are too few for the three clients of `Island`, and room for one pending query
for two askers; two frames in flight meet on a link. Each configuration allows the faults its question needs, so that
all of them together stay within 200,000 states. Four are about addresses: two clients
announce one address at two gateways, or at one, and a third looks for it; a listed key announces an address
that is another's; a client has another address after a move. Two hosts and two session ids are enough for
an id to go from one to the other while a PADT for it is on its way; one configuration has two
faults, so that a host crashes and dials again while what its first dialing sent is still on the wire. Two clients and two fetches
give associations that follow each other and meet; `MaxFrags = 2` gives a response in parts and
one that is too large; `AcceptWindow > Idle` keeps the code's ratio of 30 s to 20 s.
Deadlock is checked in `federation`, `sessions` and `fetch`, where somebody can always act;
elsewhere `CHECK_DEADLOCK FALSE`, because the bounded
application stops sending and both handshake functions return.

Fairness. `FairSpec` of the handshake assumes that a client and a server in their receive
loops take the frames that arrive and their timeouts (weak fairness of their steps), and
nothing of the network or of the application. `FairSpec` of the data path assumes that
both ends poll (`icsp_poll`) and that the sender calls `icsp_data_retransmit` while
something is unacknowledged, which `bite` and `icsp_test` do in their poll loops. `FairSpec` of
the session assumes that a live end polls (the loop of `icsp_relay` blocks for 250 ms at
most) and that time passes; nobody is assumed to send, and frames in order are taken because
polls do. `FairSpec` of the leases assumes that frames arrive, that a daemon's wait ends with a frame or a timeout
(it blocks in nothing else) and that time passes; nobody is assumed to start a daemon.
`FairSpec` of the gateways assumes that their loops go on taking the datagrams of a frame or of
a query (`plat_poll` of at most 1 s, no other wait), and nothing of the clients, the timers or the
network. `FairSpec` of PPPoE69 assumes that the loops of the AC and of the hosts take what
arrives, that a wait of `host_dial` ends and that idle time passes and is noticed on the 1 s tick;
nobody is assumed to dial, to leave or to send. `FairSpec` of `Bite` assumes that both programs
poll (200 ms) and that time passes.

### Disagreements between the code and what the repository says

One has a run of its own.

* `loss`: `docs/icsp-spec.md:154` says synthetic loss is recovered. `icsp_data_send` never
  copies the bytes into the `sendq`, so what is retransmitted is a message of zeros.

Others were met while the properties were being stated; the passing runs assume the
conditions under which they do not show, and changing the constants as indicated makes TLC
exhibit them.

* `docs/icsp-spec.md:153` says the derived key is identical on both sides. The client derives its
  key from the ephemeral of its latest INIT (`icsp_handshake.c:407`), whichever INIT the INIT-ACK
  answers, so a late answer leaves the two ends with different keys (`KeyAgreement` with one
  client, `MaxTries = 2`, `Timely = FALSE` and no faults).
* `docs/dhcp69-spec.md:57-59` says addresses are recycled after expiry and a REQUEST for an
  address leased to another MAC gets no ACK. `lease_alloc` (`af69d.c:290`) renews an expired lease
  although its address went to another client in between, and both then hold it
  (`SharedOnlyIfRevived` without its exception, with three clients in `Raw`, `Lease = 1`,
  `MaxLeases = 3` and `Span = 2`).
* A lost COOKIE-ACK cannot be made good, although `icsp_handshake.c:423-425` says re-sending
  the COOKIE-ECHO is for that: the server has left the accept (`connect` with
  `COOKIE_ACK` in `LossKinds`).
* A lost INIT-ACK ends an L2 accept with a timeout, although `icsp_handshake.c:514-517` says
  it must not (mode `l2_timeout`).
* A lost DATA followed by another is acknowledged with it and never sent again
  (`AckedIsDelivered` without the restriction to spared streams).
* A lost SACK is never repeated, because retransmissions are dropped as replays before
  `cum_tsn` is looked at (`delivery` with `"sack"` in `Faults`).
* Messages that arrive ahead of their turn stay in `rcvq` for ever, although
  `icsp_data.c:200-202` says `rcvq` reorders them (`delivery` with `Timely = FALSE`).
* From the 17th message of an association on nothing is queued for retransmission.
* A STREAM-RESET resets the receiver's counter and not the sender's, so the stream stops
  (`delivery` with `"reset"`).
* A rekey loses messages on a network that loses nothing, although `docs/icsp-spec.md:50-52` gives
  ICSP "reliable-flow" semantics. `icsp_rekey_start` changes `assoc_id` (`icsp_handshake.c:573-575`),
  which is in the nonce, so DATA that the responder sent before and that is still on its way does
  not open; DATA that either end sends while the rekey is under way does not open either, and
  `data_plane_reset` forgets the `sendq` from which it could have been sent again. `Flows` exempts
  the first (`Overtaken`) and speaks of what is sent while both ends are established; without
  `Overtaken` `keepalive` fails.
* DATA that the initiator sends between its COOKIE-ECHO and the COOKIE-ACK arrives after the
  responder's reset and moves the new replay window to its old TSN before it fails to open
  (`icsp_data.c:206`): what the initiator sends under the new key may be refused as too old.
  `Flows` exempts the initiator's messages from there to the next rekey (`early`); without it
  `keepalive` fails.
* `docs/icsp-spec.md:32` says the cookie is a hash with a rotated server secret, which clients cannot
  forge. `cookie_make` hashes the secret and then overwrites the result with the hash of the
  parameters (`icsp_handshake.c:74-75`), so the cookie is a hash of what the client knows. In the
  modules a cookie is the pair it is a hash of, and nobody makes one up.
* A lost rekey frame is not sent again. The two ends then have different keys for good, and
  heartbeats, which are not encrypted, keep the association from being declared dead
  (`keepalive` with `INIT` in `LateKinds` and `happened` left out of `Over`).
* A repeated INIT, or one of another station, ends an established association
  (`icsp_handshake.c:641-646`): `init_check` is said to drop such INITs silently.
* A COOKIE-ACK that comes twice completes a later rekey with an older INIT-ACK, and the keys
  differ (`rekey` with `COOKIE_ACK` in `DupKinds`).
* `docs/dhcp69-spec.md` has the client renew with a REQUEST and RELEASE on shutdown;
  `ip69d` starts over with a DISCOVER and never sends a RELEASE.
* `--key` and `--server-pub` of `ip69d` have no effect (`ip69d.c:429`), and a reload of the peer
  file forgets the keys given with `--peer`.
* When `next_tsn` wraps every later message is outside the window (`delivery` with
  `InitTsn = {31}`), and a DATA frame not meant for the association moves the window
  although it does not open (`delivery` with `"foreign"`).

* Gateway. A frame for an unknown destination goes round for ever in a cycle of links: there is no
  hop count (`DataDrains` with three gateways linked in a triangle).
* `docs/network-architecture.md:141-146` and the comment at `ipv69gw.c:337` say mesh control flows
  over links exactly as on L2. A query that came by link is not passed on to the segment, nor one
  from the segment to the links (`QueryResolves` with the configuration `Mixed` counted as sure).
* The comment at `ipv69gw.c:1099-1100` says a query is only answered for a compatible class; an
  answer that comes over the mesh is passed on whatever the class. The target is called
  (GW_CALL) only when it is a client of the asker's own gateway.
* `docs/security.md:97-102` and `USAGE.md:440-444` say the gateway never trusts a source address and
  drops forged ones. Without `--peer` any key may announce any address (`auth_allowed`,
  `ipv69gw.c:111-112`; the open mode of `USAGE.md:451-452`), and then a datagram with that source
  passes (`gw_src_ok`): two keys with one address are both peers, and a query or a frame for it
  goes to the one whose slot comes first. `Introductions` fails when `Announces` asks for the
  only client that uses the address, and `ExactlyOnce` when `Sure` does not ask for `Own`.
* `USAGE.md:451-452` says a full table evicts the least recently used peer; the code takes the first slot
  that is unused or silent for PEER_TIMEOUT and otherwise learns nobody (`ipv69gw.c:174-181`).
* PEER_TIMEOUT is said to make the gateway forget a peer (`ipv69gw.c:47`); it only lets another
  peer have the slot, and a silent peer is answered for until then.
* A second asker of an address whose query is pending is not answered, and a query that finds the
  table of 16 full is asked and its answer dropped (`QueryResolves` without the bound on `asked`).
* A route that is announced again keeps the endpoint it was first announced with, so a client
  that gets a new endpoint at its gateway is found at the old one from other gateways.
* The text of an answer is built with `strlen` behind five binary bytes (`ipv69gw.c:1137`): a zero
  byte in the address cuts or shifts it, and the asker does not recognise the answer.
* The limiter of queries takes its key from bytes 20 to 25 of the buffer, which a query of 8 bytes
  does not have (`ipv69gw.c:1103`): it is whatever an earlier datagram left there. A DHCP
  DISCOVER has source 0, of class A, and is dropped by a gateway without `--private`.
* PPPoE69. PADT closes the session with its id, whoever sends it (`pppoe69.c:588-591`), and a host
  whose PADT was lost or whose AC was restarted is never told (`UpHasSession` without `orphan`).
* A PADR of a host that has a session does not refresh its idle time, so the new session may be
  reaped at once. Without `--peer` and `--peer-file` the signature of a PADR is not verified.
* The reload of the peer file forgets the keys given with `--peer`, and a learned key causes a
  reload.
* The AC learns a session's address from a REQUEST before it is acknowledged, and does not see a
  lease end: the old holder's session goes on receiving what is for the new one (`Isolation`
  without `edits = 0`).
* `bite.c:352` says the server never leaves its loop. An INIT of another client while one is served
  is an error of `icsp_poll`, and the server returns (`Serves` without the exception).
* `docs/bait-names-spec.md:346-348` has a session end with a dead peer, "not on an application
  timeout". `bite.c:343-356` ends every association after 20 s, and 5 s after a response
  (`bite.c:407`), whatever the peer does.
* `idle` is set before an accept that may take 30 s: an association accepted after 20 s is left at
  once, without SHUTDOWN (`late`).

## Proofs

`IcspHandshakeProofs` proves, for any clients, allowlist, clocks, number of tries, accept
calls and any network behaviour:

* `TypeCorrect`: `Spec => []TypeOK`;
* `ServerIsAuthentic`: `Spec => []ServerAuthentic`;
* `ClientIsAccepted`: `Spec => []ClientAccepted`;
* `KeysAgree`: `Spec => []KeyAgreement`, when `Timely` and either there is one accept call or no INIT
  is delivered twice.

The inductive invariant `IndInv` adds to the two properties what the frames in flight say:
a COOKIE-ECHO is signed by a client that is committed to the cookie in it (`FrameInv`), the
server's key belongs to the peer it remembers (`ServerInv`), and, within one accept call,
a cookie never names an INIT newer than `last_init_ts`, so the cookie a client holds
fixes the server ephemeral its key was made from (`ClientInv`). Without the last part a
repeated INIT could have been answered with two ephemerals.

`KeysAgree` adds, for a network that delivers before a receive timeout expires, that every INIT-ACK
on the wire and every cookie a client holds belongs to its latest INIT (`WireFresh`, `HeldFresh`),
and, over several accept calls, that no ephemeral was answered twice (`AnsweredOnce`). Neither
hypothesis can go: a late INIT-ACK leaves the ends with different keys (see above), and an INIT
that is delivered to two accept calls is answered with two ephemerals.

`IcspDataProofs` proves, for any streams, table, queue and window sizes and moduli:

* `DataTypeCorrect`: `Spec => []TypeOK`;
* `NeverDeliveredTwice`: `Spec => []DeliveredOnce`, from `WindowInv`: a TSN that reached
  the callback is refused by the window ever after (sliding the window never clears the bit
  of a TSN it still covers, and what it no longer covers is too old);
* `StreamsAreFifo`: `Spec => IsFifo` when `MaxMsg < SeqMod`, from `WindowInv` and
  `SeqInv`. A reset sends the receiver's counter back to 0; it is then not the number of
  messages delivered, and what keeps the message with seq 0 from being delivered again
  is that all its copies carry the TSN it was delivered under, which the window refuses;
* `AckedMeansDelivered`: `Spec => [](NoWrap => AckedIsDelivered)` for an `Orderly` data path: frames
  keep their order, what is lost is DATA or SACKs, what is repeated anything, no stream's seq wraps
  and the table has room for all streams. `NoWrap` says that the TSN has not wrapped, after which
  everything is refused. `AckInv` says why a SACK for the highest TSN, gaps included, does not lie
  about a stream whose DATA is not lost: a message of it that has not been delivered is still on its
  way, ahead of everything that is marked in the window or acknowledged (`NotLost`, `Coming`,
  `AckedInTurn`), because TSNs follow the calls (`Numbered`) and the receiver takes them in turn.

`IcspSessionProofs` proves, for any timers, window, number of rekeys, messages and troubles:

* `SessionTypeCorrect`: `Spec => []TypeOK`;
* `RekeyAgrees`: `Spec => []SealsAgree`, when no COOKIE-ACK is repeated. Frames may be late,
  lost or out of order and every other frame may be repeated;
* `SessionDeliversOnce`: `Spec => []DeliveredOnce`, under the same condition;
* `ErrNeedsDisturbance`: `Spec => []ErrOnlyIfDisturbed`;
* `NotDeclaredDead`: `Spec => []NoFalseDeath`, when `HbInterval * (MaxTrouble \div 2 + 1) < DeadTimeout`.

`SealsAgree` only looks at two established ends; `SealInv` says what leads there. The
responder is at most one INIT behind, and waits for a cookie only when it is not behind
(`NumberInv`); an INIT-ACK or cookie that names the responder's last INIT came with its last
ephemeral, and a COOKIE-ECHO that names the initiator's latest INIT means that the initiator
holds that very answer (`CookieInv`); there is at most one COOKIE-ACK, and it finds the
initiator waiting with the right answer (`AckInv`). A COOKIE-ACK carries nothing, so all rests
on its being the only one. `PlainStep` does all steps that touch no rekey at once; the four
rekey chunks and the start of a rekey have a lemma each. The invariant is kept also when an INIT
cannot be sent, which leaves the initiator with an assoc_id nobody knows: then only the agreement
itself is given up.

A rekey starts the seqs and the window over, and every data plane may start at the same TSN. What
keeps a frame that was delivered from being delivered again is that it is `Spent`: its assoc_id
is one the receiver has left for good, or it still opens and the window refuses it (`Refused`).
For that a message must have one frame (`Single`), and no frame may be sealed with a key newer
than the initiator's (`Sealed`). A COOKIE-ACK that comes again breaks this: the initiator may
then use the new key before the responder has reset its window for it.

Undisturbed, a rekey is one frame going to and fro, and `Token` says so: there is at most one
handshake frame on its way in both directions together, it is the one the other end waits for,
with a timestamp or cookie it accepts, and there is none while the initiator is established.
Lateness does not change that; a lost frame leaves the initiator waiting for good.

How long an end has been silent is bounded twice over (`Pulse`): by when the peer's last heartbeat was
due and how many of them troubles kept away, and by when one's own was due and how many of those, or
of the answers to them, were kept away. A trouble takes a sign of life of one of the two kinds, so
one of the bounds counts at most half the troubles, and it is below `DeadTimeout` by the
hypothesis. What has been sent and not yet received counts as heard, which is why `Beats` and
`Echoes` look into the queues; a rekey under way makes no difference, since heartbeats are
answered in every state.

`Dhcp69Proofs` proves, for any clients, pool, hash, ranges, table sizes and any order of
messages, expiries, losses and reloads:

* `DhcpTypeCorrect`: `Spec => []TypeOK`; the part that is not obvious is that the peer table
  stays within `MaxPeers` when the file that learned keys were appended to is read again,
  for which the invariant says that the file's keys are in the table (`file \subseteq peers`);
* `OneLeasePerClient`: `Spec => []OneLease`;
* `SharedOnlyByRevival`: `Spec => []SharedOnlyIfRevived`;
* `HeldStaysLeased`: `Spec => []HeldIsLeased` when `Timely`;
* `LeaseOutlivesLoss`: `Spec => []NeverLapses` when `Lasting`: the network is timely, the lease is long
  enough that a daemon that renews has time for all its attempts, and the server forgets no key.

`IndInv` is the conjunction of the first four facts. The lemma `Alloc` says what `lease_alloc` does to
the table, `MoveKeeps` that REQUEST may move a lease to an address that is not taken; the
first slot and the first probe exist because a non-empty finite set of numbers has a
least element, from the well-foundedness of the subset order on finite sets
(`FirstIsIn` of `LeastProofs`).

`HeldIsLeased` compares a daemon's lease with the server's table. `Believed` says what happens on the
way: the address of an OFFER or ACK in flight is leased to that client for a whole `Lease`, and so is
that of a REQUEST, unless the client is repeating a REQUEST for a lease that has run out and
nothing else is on its way to or from it. A frame that outlived a tick would tell of a lease the server has shortened or given away since,
hence `Timely`.

`NeverLapses` is proved by counting (`Lasts`). On a timely network a wait that runs out has cost a
frame, so a daemon that is waiting has made no more attempts than there were faults, and fewer if
nothing is on its way to or from it; each attempt takes a tick, and a daemon starts to renew
when more ticks are left than it makes attempts. The server always answers, because by
`HeldIsLeased` it finds the lease in its table, which is why this theorem needs the one before.

`Pppoe69Proofs` proves, for any hosts, sizes of the tables, allowlists, faults and edits:

* `Types`: `Spec => []TypeOK`;
* `Sessions`: `Spec => []SessionsUnique`;
* `Believers`: `Spec => []UpHasSession`;
* `Separate`: `Spec => []Isolation`.

An id is given out only when there is a free one. That a free slot means a free id is
the lemma `FreeSid`: there are at least as many ids as slots (`SizeAssumption`; 65535 and 64 in
the code), so the ids of the used slots cannot be all of them, by cardinality of the image.
`Alloc` and `Free` say that taking and clearing a slot keep the table unique, `Same` that a
handler which only changes what is snooped does; `Kept` collects this for every step, so that
types and uniqueness go through one case analysis.

`UpHasSession` speaks of hosts that are up; `Beliefs` also of those that will be, by a PADS on
its way: the session it names is there, or a PADT that ends it comes behind it, or the host is an orphan.
The order of the wire is what the argument rests on. `Isolation` follows from `Isolated`: as long
as no lease changed hands, an address a session was snooped with, and every frame on a wire in
either direction, belong to the host at its end, so what is found by address is found right; that
a slot or an id is used again does no harm because `sess_free` clears the address with it.

`GatewayProofs` proves, for any network of gateways (with cycles too, but for `Delivered`), any sizes of
the tables and any moves, loss, lateness and throttling:

* `Types`: `Spec => []TypeOK`, which says that peers, pending queries and routes stay within
  their arrays;
* `Keys`: `Spec => []Keyed`;
* `Introduced`: `Spec => []Introductions`;
* `Private`: `Spec => []Confined`;
* `Delivered`: `Spec => []ExactlyOnce` for networks without cycles, in which a segment counts as a node
  (`WithoutCycles`). The hypothesis cannot go: nothing in a frame tells a gateway that it had it
  before. TLC evaluates it for every configuration of the run (`TestConfsAssumption`).

`Introductions` speaks of what reached clients; the invariant `Inv` says where it comes from. A
peer's endpoint is one of its key and announced the slot's address with a key allowed it
(`Table`, from `auth_allowed` at every learning), a route's endpoint announced the route's
address (`RouteTable`), and so did the
endpoint in every answer and announcement in flight (`Sound`); a pending query of a client was
asked by that client for that address (`Queries`). Without `Sound` a relayed answer, and without
`RouteTable` one from a route, could name anybody. Nothing is assumed of who has which address, in
open mode or not; that a key's address does not follow from the key is why `Table` needs the
address in the slot. Each kind of step has a lemma; the lemmas
`Kept...` and `New...` carry the parts it does not touch and the ones it does. For `Confined`,
`Fenced` adds that a private frame in flight anywhere comes from a client behind a gateway with
`--private`, and that a peer is a client of that gateway: every gateway filters on its own, and a
frame that is between two of them has passed at least the first.

For `ExactlyOnce` the proof speaks of the part of the network that lies beyond a cable (`Side`: the
smallest set that can only be left through it). Without cycles, what lies beyond a cable behind
`y` is a smaller part of what lies beyond `y` (`SideNested`), and different cables of a gateway
lead to disjoint parts (`SidesApart`). So `Spread` is invariant: every copy in flight is on its way to
a part (`Ahead`) that nobody who has the frame is in, and no two copies are on their way to the same; a
gateway that takes a copy splits what was ahead of it (`FanOut`, `FanOn`), because it sends
nothing back (split horizon). `Topo` says that a client's present endpoint is in the table of the gateway
where it is, and that a route to a client that has not moved leads there; from this `Arrives`: until a
frame that has to arrive has done so, one of its copies is at most one link from its gateway. Here the
address of the receiver is its own (`Own`), so what a lookup by address finds is the receiver's
slot (`AddressHere`) or a route to its gateway (`NextHop`).

`BiteProofs` proves, for any clients, names, identities, requests, documents, sizes, numbers of
fetches, timeouts and troubles:

* `SealedChannel`: `Spec => []Channel`;
* `OwnAnswer`: `Spec => []Answers`.

The functions of `btls.c` change a session in ways that depend on every field of it, so the proof
first says what they do at each of the nine places a session can be at (`S0` to `S2`, `C0` to
`C4`, and no session): given the two ephemerals of a session, its transcript, keys and records are
determined (`T1` to `T6`, `Hs`, `App`), and so is the flight that answers a ClientHello
(`ServerFlight`) or ends the handshake of a client (`ClientFinished`). `KeysDiffer`: a key tells
both ephemerals, the epoch and the direction.

The invariant `IndInv` then only has to say which ephemerals are where. A queue may hold what is left of
earlier fetches: a record under way is a hello, or it is sealed with keys that do not open, or it
is what the other end of this very session says (`UpRec`, `DownRec`); whoever opens a record therefore knows who sealed it, and that it is the next part of the
request or of the answer to it (`OpensRequest`, `OpensResponse`). An ephemeral is used by one
fetch and one association (`Past`, `associations`), which is why no key seals twice with one counter:
`BoxInv` says of everything that was sealed which session did it and that its counter is behind
the session's. `Count` relates counters and queues while nothing is lost and no send fails. Each step of the
two programs has a lemma; `OneClient`, `ServerGoesOn`, `ClientGoesOn` and `Others` carry what the
step leaves alone.

The assumptions are the named ASSUMEs of the modules, all evaluated by TLC in the runs.
Only model-checked: the liveness properties (`Connects`, `EveryMessageArrives`,
`EverythingAcked`, `TailLossRecovered`, `Binds`, `GoneIsNoticed`, `RekeyCompletes`, `Flows`,
`DataDrains`, `QueryResolves`, `Reaped`, `Dials`, `Serves`), which are out of reach of the provers.
Every invariant of the runs that are to pass is a theorem, under the hypotheses given above.

## Plan

1. The token buckets of `ratelimit.c`, whose integer refill loses fractions of a token
   (`ratelimit.c:54-60`), as operators with a reference definition.

## Not modelled

Socket access (`l2.c`, `l2_win.c`), parsers, command line and help text are I/O. The
keyring and key generation read and write files. mac1, Ed25519 and X25519 are cryptographic
primitives, ideal in the models. The Python port re-implements the same protocols. Of the
example programs `bite` is modelled; `icsp_chat` and `icsp_hub` are callers of `icsp_relay` and
of the functions modelled here. The rate limiter appears as frames refused. In `bite`, header lines,
MIME types and an escape cut off at the end of a target are left out; in the gateway, IPv6
endpoints (which mesh answers and routes cannot carry) and duplicated datagrams; in PPPoE69, more
than one AC.
