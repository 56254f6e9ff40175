-------------------------------- MODULE Dhcp69 --------------------------------
(***************************************************************************)
(* DHCP69: the server (c/src/IPv69/af69d.c) with its lease and peer tables, *)
(* and the clients: ip69d daemons (c/src/IPv69/ip69d.c), each a DISCOVER,   *)
(* OFFER, REQUEST, ACK round repeated as the lease runs out, and other      *)
(* programs that may send the server any message it understands.            *)
(*                                                                          *)
(* Times are what is left of a lease, in ticks; a tick is what a client     *)
(* waits for an answer.  expiry > now is left > 0.  A client is its MAC and *)
(* its key.  Addresses of the pool are counted from pool_start.             *)
(***************************************************************************)
EXTENDS Integers, FiniteSets, Least

CONSTANTS
    Tun,          \* clients that run ip69d
    Raw,          \* clients that run something else
    NoMac,        \* the MAC of a slot never used
    Span,         \* pool_end - pool_start + 1
    Extra,        \* addresses outside the pool
    Hash,         \* [Client -> where its MAC is hashed into the pool]
    MaxLeases,    \* MAX_LEASES, 256
    Probes,       \* 64: steps of the linear probe
    Lease,        \* lease_sec, in ticks
    Attempts,     \* DHCP_ATTEMPTS, 3
    CliPeers,     \* keys given with --peer
    FilePeers,    \* keys first in the peer file
    Auth,         \* auth_enabled: --peer or --peer-file was given
    HasFile,      \* --peer-file
    Learn,        \* --learn
    Allow,        \* --allow: MACs; {} is no list
    AllowedIPs,        \* [Client -> the addresses its key gives a right to]
    MaxPeers,     \* MAX_PEERS, 64
    Timely,       \* frames take no time, and a client's timer is served at once
    MaxFaults,    \* bound: frames lost or repeated
    MaxAsked      \* bound: "renew" commands, stops and reloads

Client == Tun \cup Raw
Pool == 0 .. Span - 1
Addr == Pool \cup Extra
NoAddr == -1

ASSUME ClientAssumption == Tun \cap Raw = {} /\ Allow \subseteq Client /\ CliPeers \cup FilePeers \subseteq Client
ASSUME PoolAssumption == Span \in Nat \ {0} /\ Extra \subseteq Nat /\ Hash \in [Client -> Pool] /\ AllowedIPs \in [Client -> SUBSET Addr]
ASSUME SizeAssumption == MaxLeases \in Nat /\ Probes \in Nat /\ Lease \in Nat \ {0} /\ (Tun # {} => Lease >= 3) /\ Attempts \in Nat \ {0} /\ MaxPeers \in Nat
ASSUME PeerAssumption == IsFiniteSet(Client) /\ Cardinality(CliPeers \cup FilePeers) <= MaxPeers /\ (~HasFile => FilePeers = {})
ASSUME ModeAssumption == {Auth, HasFile, Learn, Timely} \subseteq BOOLEAN /\ MaxFaults \in Nat /\ MaxAsked \in Nat

VARIABLES
    \* server
    leases,     \* leases[0 .. MAX_LEASES-1]
    peers,      \* peers[0 .. n_peers-1]
    file,       \* the keys in the peer file
    \* ip69d
    cst,        \* [Tun -> where the daemon is]
    attempt,    \* [Tun -> attempt]
    addr,       \* [Tun -> l.addr]
    left,       \* [Tun -> l.expiry - now]
    up,         \* [Tun -> the first dhcp_acquire has succeeded]
    due,        \* the daemons whose wait has expired
    \* environment
    net, faults, asked,
    \* history
    revived     \* clients whose lease was renewed after it had expired

serverVars == <<leases, peers, file, revived>>
clientVars == <<cst, attempt, addr, left, up, due>>
vars == <<serverVars, clientVars, net, faults, asked>>

Slot == 1 .. MaxLeases
LeaseEntry == [used : BOOLEAN, mac : Client \cup {NoMac}, addr : Addr \cup {NoAddr}, left : 0 .. Lease]
Empty == [used |-> FALSE, mac |-> NoMac, addr |-> NoAddr, left |-> 0]     \* memset
Message == [type : {"DISCOVER", "OFFER", "REQUEST", "ACK"}, mac : Tun, addr : Addr \cup {NoAddr}]

TypeOK ==
    /\ leases \in [Slot -> LeaseEntry]
    /\ peers \subseteq Client /\ Cardinality(peers) <= MaxPeers /\ file \subseteq Client /\ revived \subseteq Client
    /\ cst \in [Tun -> {"off", "discover", "request", "idle"}]
    /\ attempt \in [Tun -> 0 .. Attempts - 1]
    /\ addr \in [Tun -> Addr \cup {NoAddr}] /\ left \in [Tun -> 0 .. Lease]
    /\ up \in [Tun -> BOOLEAN] /\ due \subseteq Tun
    /\ net \subseteq Message /\ faults \in Nat /\ asked \in Nat

Init ==
    /\ leases = [i \in Slot |-> Empty]
    /\ peers = CliPeers \cup FilePeers /\ file = FilePeers /\ revived = {}
    /\ cst = [c \in Tun |-> "off"] /\ attempt = [c \in Tun |-> 0]
    /\ addr = [c \in Tun |-> NoAddr] /\ left = [c \in Tun |-> 0]
    /\ up = [c \in Tun |-> FALSE] /\ due = {}
    /\ net = {} /\ faults = 0 /\ asked = 0

Msg(type, c, a) == [type |-> type, mac |-> c, addr |-> a]

\* A frame is taken, or stays to arrive again.
Taken(m, out) ==
    \/ net' = (net \ {m}) \cup out /\ UNCHANGED faults
    \/ m \in net /\ faults < MaxFaults /\ faults' = faults + 1 /\ net' = net \cup out

Lose(m) ==
    /\ faults < MaxFaults /\ faults' = faults + 1
    /\ net' = net \ {m}
    /\ UNCHANGED <<serverVars, clientVars, asked>>

-----------------------------------------------------------------------------
(* The lease table; T is the table, or what a handler has made of it.        *)

live(l) == l.used /\ l.left > 0

\* Mutant: expired leases are passed over.
lease_find_live(T, c) == {i \in Slot : live(T[i]) /\ T[i].mac = c}

lease_find(T, c) == {i \in Slot : T[i].used /\ T[i].mac = c}
lease_of(T, c) == First(lease_find(T, c))

lease_addr_taken(T, a) == \E i \in Slot : live(T[i]) /\ T[i].addr = a

\* The addresses the probe looks at, by number of steps from the hash.
probed(c, k) == (Hash[c] + k) % Span
free_probes(T, c) == {k \in 0 .. Probes : ~lease_addr_taken(T, probed(c, k))}
free_slots(T) == {i \in Slot : ~live(T[i])}

alloc_ok(T, c) == lease_find(T, c) # {} \/ (free_probes(T, c) # {} /\ free_slots(T) # {})

\* Mutant: DISCOVER and REQUEST do not extend a lease.
lease_alloc_once(T, c) ==
    IF lease_find(T, c) # {}
    THEN T
    ELSE [T EXCEPT ![First(free_slots(T))] =
            [used |-> TRUE, mac |-> c, addr |-> probed(c, First(free_probes(T, c))), left |-> Lease]]

\* A client that has a lease, expired or not, keeps its address; another gets the
\* first free address of its probe, in the first slot that is unused or expired.
lease_alloc(T, c) ==
    IF lease_find(T, c) # {}
    THEN [T EXCEPT ![lease_of(T, c)].left = Lease]
    ELSE [T EXCEPT ![First(free_slots(T))] =
            [used |-> TRUE, mac |-> c, addr |-> probed(c, First(free_probes(T, c))), left |-> Lease]]

\* Renewing an expired lease is what the history variable remembers.
note_revival(c) ==
    revived' = IF lease_find(leases, c) = {} THEN revived \ {c}
               ELSE IF live(leases[lease_of(leases, c)]) THEN revived ELSE revived \cup {c}

-----------------------------------------------------------------------------
(* Who is served.                                                            *)

mac_allowed(c) == Allow = {} \/ c \in Allow
check_msg(c) == ~Auth \/ c \in peers \/ Learn

\* Mutant: no look at MAX_PEERS.
learn_peer_any(c) ==
    IF Auth /\ c \notin peers
    THEN IF HasFile THEN file' = file \cup {c} /\ peers' = file'
                    ELSE peers' = peers \cup {c} /\ UNCHANGED file
    ELSE UNCHANGED <<peers, file>>

\* learn_peer, and the reload the longer peer file causes before the next message:
\* the table is then what the file says.
learn_peer(c) ==
    IF Auth /\ c \notin peers /\ Cardinality(peers) < MaxPeers
    THEN IF HasFile THEN file' = file \cup {c} /\ peers' = file'
                    ELSE peers' = peers \cup {c} /\ UNCHANGED file
    ELSE UNCHANGED <<peers, file>>

\* The operator edits the peer file (or sends SIGHUP): peer_file_load.
peer_file_load(S) ==
    /\ HasFile /\ asked < MaxAsked /\ asked' = asked + 1
    /\ Cardinality(S) <= MaxPeers
    /\ file' = S /\ peers' = S
    /\ UNCHANGED <<leases, revived, clientVars, net, faults>>

-----------------------------------------------------------------------------
(* The server's loop.                                                        *)

Reply(type, c, a) == IF c \in Tun THEN {Msg(type, c, a)} ELSE {}

\* Not served, or no address or slot to give, or a reply: nothing happens.
ServerIgnore(m) ==
    /\ m.type \in {"DISCOVER", "REQUEST"}
    /\ ~mac_allowed(m.mac) \/ ~check_msg(m.mac) \/ ~alloc_ok(leases, m.mac)
    /\ IF mac_allowed(m.mac) /\ check_msg(m.mac) THEN learn_peer(m.mac) ELSE UNCHANGED <<peers, file>>
    /\ Taken(m, {})
    /\ UNCHANGED <<leases, revived, clientVars, asked>>

ServerDiscover(m) ==
    /\ m.type = "DISCOVER" /\ mac_allowed(m.mac) /\ check_msg(m.mac)
    /\ alloc_ok(leases, m.mac)
    /\ learn_peer(m.mac) /\ note_revival(m.mac)
    /\ leases' = lease_alloc(leases, m.mac)
    /\ Taken(m, Reply("OFFER", m.mac, leases'[lease_of(leases', m.mac)].addr))
    /\ UNCHANGED <<clientVars, asked>>

\* Mutant: a right to an address is enough.
may_have_taken(T, c, a) == (c \in peers' /\ a \in AllowedIPs[c]) \/ a = T[lease_of(T, c)].addr

\* A lease is made or renewed first; then the address asked for must be the lease's,
\* or a free one the client's key gives it a right to.
may_have(T, c, a) ==
    \/ c \in peers' /\ a \in AllowedIPs[c] /\ ~lease_addr_taken(T, a)
    \/ a = T[lease_of(T, c)].addr

ServerRequest(m) ==
    LET T == lease_alloc(leases, m.mac) IN
    /\ m.type = "REQUEST" /\ mac_allowed(m.mac) /\ check_msg(m.mac)
    /\ alloc_ok(leases, m.mac)
    /\ learn_peer(m.mac) /\ note_revival(m.mac)
    /\ \/ /\ may_have(T, m.mac, m.addr)
          /\ leases' = [T EXCEPT ![lease_of(T, m.mac)].addr = m.addr]
          /\ Taken(m, Reply("ACK", m.mac, m.addr))
       \/ /\ ~may_have(T, m.mac, m.addr)
          /\ leases' = T
          /\ Taken(m, {})
    /\ UNCHANGED <<clientVars, asked>>

\* lease_release; only other programs send it.  Nothing reads a slot not in use.
ServerRelease(m) ==
    /\ m.type = "RELEASE" /\ mac_allowed(m.mac) /\ check_msg(m.mac)
    /\ learn_peer(m.mac)
    /\ leases' = [i \in Slot |->
                    IF /\ lease_find(leases, m.mac) # {} /\ i = lease_of(leases, m.mac)
                       /\ m.addr \in {NoAddr, leases[i].addr}
                    THEN Empty ELSE leases[i]]
    /\ UNCHANGED <<revived, clientVars, net, faults, asked>>

ServerRecv(m) == ServerIgnore(m) \/ ServerDiscover(m) \/ ServerRequest(m) \/ ServerRelease(m)
-----------------------------------------------------------------------------
(* ip69d: cmd_tun and dhcp_acquire.  check_reply accepts every reply: the memset *)
(* after the options are read clears has_server_pub.                             *)

Waiting == {c \in Tun : cst[c] \in {"discover", "request"}}
DISCOVER(c) == {Msg("DISCOVER", c, NoAddr)}
REQUEST(c) == {Msg("REQUEST", c, addr'[c])}

dhcp_acquire(c) ==
    /\ cst' = [cst EXCEPT ![c] = "discover"] /\ attempt' = [attempt EXCEPT ![c] = 0]
    /\ net' = net \cup DISCOVER(c)
    /\ UNCHANGED <<serverVars, addr, left, up, due, faults>>

TunStart(c) == cst[c] = "off" /\ dhcp_acquire(c) /\ UNCHANGED asked

\* rem < lease_sec / 3.
TunRenew(c) == cst[c] = "idle" /\ left[c] < Lease \div 3 /\ dhcp_acquire(c) /\ UNCHANGED asked

\* SIGUSR1, or "renew" on the control socket.
TunRenewAsked(c) == cst[c] = "idle" /\ asked < MaxAsked /\ dhcp_acquire(c) /\ asked' = asked + 1

\* The OFFER is written into the lease before it is confirmed.
TunRecvOffer(m) ==
    /\ m.type = "OFFER" /\ cst[m.mac] = "discover"
    /\ addr' = [addr EXCEPT ![m.mac] = m.addr] /\ left' = [left EXCEPT ![m.mac] = Lease]
    /\ cst' = [cst EXCEPT ![m.mac] = "request"] /\ attempt' = [attempt EXCEPT ![m.mac] = 0]
    /\ due' = due \ {m.mac}
    /\ Taken(m, REQUEST(m.mac))
    /\ UNCHANGED <<serverVars, up, asked>>

\* The address in the ACK is not looked at.
TunRecvAck(m) ==
    /\ m.type = "ACK" /\ cst[m.mac] = "request"
    /\ left' = [left EXCEPT ![m.mac] = Lease]
    /\ cst' = [cst EXCEPT ![m.mac] = "idle"] /\ up' = [up EXCEPT ![m.mac] = TRUE]
    /\ due' = due \ {m.mac}
    /\ Taken(m, {})
    /\ UNCHANGED <<serverVars, attempt, addr, asked>>

\* Skipped by the wait in progress, or drained by the main loop.
TunRecvOther(m) ==
    /\ m.type \in {"OFFER", "ACK"}
    /\ m.type = "OFFER" => cst[m.mac] # "discover"
    /\ m.type = "ACK" => cst[m.mac] # "request"
    /\ Taken(m, {})
    /\ UNCHANGED <<serverVars, clientVars, asked>>

\* Mutant: the last attempt is not made.
attempts_left_fewer(c) == attempt[c] + 2 < Attempts

\* attempt < DHCP_ATTEMPTS
attempts_left(c) == attempt[c] + 1 < Attempts

\* Mutant: the wait is repeated and the message is not.
TunResend_silent(c) ==
    /\ c \in due /\ attempts_left(c)
    /\ attempt' = [attempt EXCEPT ![c] = @ + 1] /\ due' = due \ {c}
    /\ UNCHANGED <<serverVars, cst, addr, left, up, net, faults, asked>>

TunResend(c) ==
    /\ c \in due /\ attempts_left(c)
    /\ attempt' = [attempt EXCEPT ![c] = @ + 1] /\ due' = due \ {c}
    /\ addr' = addr
    /\ net' = net \cup (IF cst[c] = "discover" THEN DISCOVER(c) ELSE REQUEST(c))
    /\ UNCHANGED <<serverVars, cst, left, up, faults, asked>>

\* "OFFER timeout", "ACK timeout": fatal the first time, retried by the main loop later.
TunGiveUp(c) ==
    /\ c \in due /\ ~attempts_left(c)
    /\ cst' = [cst EXCEPT ![c] = IF up[c] THEN "idle" ELSE "off"] /\ due' = due \ {c}
    /\ UNCHANGED <<serverVars, attempt, addr, left, up, net, faults, asked>>

\* The daemon is stopped; it says nothing to the server.
TunStop(c) ==
    /\ cst[c] = "idle" /\ asked < MaxAsked /\ asked' = asked + 1
    /\ cst' = [cst EXCEPT ![c] = "off"] /\ up' = [up EXCEPT ![c] = FALSE]
    /\ UNCHANGED <<serverVars, attempt, addr, left, due, net, faults>>

-----------------------------------------------------------------------------
(* Time.  The main loop sleeps for at most half of what is left of its lease, so *)
(* it looks at the lease again before less than a sixth is left.                 *)

Overdue(c) == cst[c] = "idle" /\ left[c] < Lease \div 3 /\ left[c] <= (Lease + 5) \div 6
Less(n) == IF n > 0 THEN n - 1 ELSE 0

Tick ==
    /\ Timely => net = {} /\ due = {} /\ \A c \in Tun : ~Overdue(c)
    /\ leases' = [i \in Slot |-> [leases[i] EXCEPT !.left = Less(@)]]
    /\ left' = [c \in Tun |-> Less(left[c])]
    /\ due' = Waiting
    /\ UNCHANGED <<peers, file, revived, cst, attempt, addr, up, net, faults, asked>>

\* What other programs may send.
RawMessage ==
    {Msg("DISCOVER", c, NoAddr) : c \in Raw} \cup {Msg("REQUEST", c, a) : c \in Raw, a \in Addr}
        \cup {Msg("RELEASE", c, a) : c \in Raw, a \in Addr \cup {NoAddr}}

TunRecv(m) == TunRecvOffer(m) \/ TunRecvAck(m) \/ TunRecvOther(m)
TunTimer(c) == TunRenew(c) \/ TunResend(c) \/ TunGiveUp(c)

Next ==
    \/ \E c \in Tun : TunStart(c) \/ TunRenewAsked(c) \/ TunStop(c) \/ TunTimer(c)
    \/ \E m \in net : TunRecv(m) \/ Lose(m)
    \/ \E m \in net \cup RawMessage : ServerRecv(m)
    \/ \E S \in SUBSET Client : peer_file_load(S)
    \/ Tick

Spec == Init /\ [][Next]_vars

\* Frames arrive, the daemons serve their timers and time passes.
FairSpec ==
    /\ Spec
    /\ WF_vars(\E m \in net : TunRecv(m) \/ ServerRecv(m))
    /\ \A c \in Tun : WF_vars(TunTimer(c))
    /\ WF_vars(Tick)

-----------------------------------------------------------------------------
(* Properties.                                                               *)

Holds(c) == up[c] /\ left[c] > 0

\* A client has at most one lease, expired ones included: what lease_find finds first
\* is all there is, whatever was released, reused or taken over.
OneLease == \A i, j \in Slot : leases[i].used /\ leases[j].used /\ leases[i].mac = leases[j].mac => i = j

\* Two live leases share an address only when one of them was renewed after it had
\* expired: lease_alloc and REQUEST give no address that is taken.
SharedOnlyIfRevived ==
    \A i, j \in Slot :
        live(leases[i]) /\ live(leases[j]) /\ leases[i].addr = leases[j].addr =>
            i = j \/ {leases[i].mac, leases[j].mac} \cap revived # {}

\* On a timely network, what a daemon believes the server stands behind: for as long as
\* it holds an address the server has that address leased to it.
HeldIsLeased ==
    \A c \in Tun : Holds(c) =>
        \E i \in Slot : live(leases[i]) /\ leases[i].mac = c /\ leases[i].addr = addr[c]
                            /\ leases[i].left >= left[c]

\* What dhcp_acquire's attempts can bear: fewer frames lost or repeated than there are.
Bearable == faults < Attempts

\* On a timely network that disturbs no more frames than the attempts can bear, a daemon
\* that is up never finds its lease expired.
NeverLapses == \A c \in Tun : up[c] /\ Bearable => left[c] > 0

\* Liveness: a daemon that starts, or renews, gets an address, unless the network
\* disturbs more frames than the attempts can bear.
Binds == \A c \in Tun : cst[c] = "discover" ~> cst[c] = "idle" \/ ~Bearable
-----------------------------------------------------------------------------
(* What the lease properties rest on; proved in Dhcp69Proofs.  The peer table  *)
(* never exceeds its array because a reload finds in the file no more keys than *)
(* the table had room for.                                                     *)
IndInv == TypeOK /\ file \subseteq peers /\ OneLease /\ SharedOnlyIfRevived
=============================================================================
