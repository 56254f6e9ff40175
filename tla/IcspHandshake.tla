--------------------------- MODULE IcspHandshake ---------------------------
(***************************************************************************)
(* The ICSP association set-up (c/src/ICSP/icsp_handshake.c): one server    *)
(* in icsp_server_accept, a set of clients in icsp_client_handshake, and    *)
(* the frames between them.                                                 *)
(*                                                                          *)
(* A client's ephemeral X25519 key is named by the timestamp of the INIT    *)
(* that carries it: init_build makes a new one on every call, and two       *)
(* INITs of one client are a receive timeout (3 s) apart.  The server's     *)
(* ephemerals are numbered.  A session key is the pair of ephemerals it is  *)
(* derived from, a cookie the (identity, ephemeral) pair it is a hash of,   *)
(* and a signature is the bit "ok", which a damaged frame loses.            *)
(***************************************************************************)
EXTENDS Integers, FiniteSets

CONSTANTS
    Client,         \* the client stations, each with its own identity and MAC
    Server,         \* the accepting station
    Allowed,        \* --peer / --peer-file allowlist; {} accepts any identity
    Modes,          \* how the stations may be started, see Mode
    MaxTries,       \* 5 in the source: sends of INIT, and of COOKIE-ECHO
    Skew,           \* how far each client's clock is ahead of the slowest one
    Timely,         \* frames arrive before any receive timeout expires
    LossKinds,      \* chunk types the network may lose
    DupKinds,       \* chunk types the network may deliver twice
    DamageKinds,    \* chunk types the network may damage past the 16-bit CRC
    MaxFaults,      \* bound: frames lost, damaged or delivered once more
    MaxRuns         \* bound: calls of icsp_server_accept

Station == Client \cup {Server}
\* On the local L2 segment, icsp_server_accept with timeout_s = 0 or > 0 (bite,
\* icsp_test); or through a gateway (--remote), where announce_s > 0.
Mode == {"l2", "l2_timeout", "tunnel"}
ChunkType == {"INIT", "INIT_ACK", "COOKIE_ECHO", "COOKIE_ACK"}

ASSUME StationAssumption == Server \notin Client
ASSUME AllowedAssumption == Allowed \subseteq Client
ASSUME TriesAssumption == MaxTries \in Nat \ {0}
ASSUME SkewAssumption == Skew \in [Client -> Nat]
ASSUME ModeAssumption == Modes \subseteq Mode /\ Timely \in BOOLEAN
ASSUME KindsAssumption == LossKinds \cup DupKinds \subseteq ChunkType /\ DamageKinds \subseteq {"INIT_ACK", "COOKIE_ECHO"}
ASSUME BoundAssumption == MaxFaults \in Nat /\ MaxRuns \in Nat \ {0}

VARIABLES
    mode,       \* how the stations were started
    now,        \* time(NULL), advanced by the receive timeouts
    net,        \* frames in flight, one copy per station that will hear it
    faults,     \* frames lost, damaged or duplicated so far
    cst,        \* [Client -> where icsp_client_handshake is]
    tries,      \* [Client -> init_tries, then ck_tries]
    ceph,       \* [Client -> eph_pub, the INIT timestamp that names it]
    ckey,       \* [Client -> send_key/recv_key]
    cck,        \* [Client -> the cookie in the ck buffer]
    cdst,       \* [Client -> the stations its peer_mac/dst_addr make its frames reach]
    sst,        \* where icsp_server_accept is
    lastTs,     \* last_init_ts
    speer,      \* peer_id and peer_eph, as the pair the cookie hashes
    seph,       \* number of server ephemerals made; the last one is in use
    skey,       \* the server's send_key/recv_key
    runs,       \* calls of icsp_server_accept so far
    accepted    \* history: <<client, key>> of every association accepted

clientVars == <<cst, tries, ceph, ckey, cck, cdst>>
serverVars == <<mode, sst, lastTs, speer, seph, skey, runs, accepted>>
vars == <<now, net, faults, clientVars, serverVars>>

Cookie == [id : Station, eph : Nat]
NoCookie == [id |-> Server, eph |-> 0]
Key == [id : Station, init : Nat, resp : Nat]
NoKey == [id |-> Server, init |-> 0, resp |-> 0]

\* icsp_derive_key: both ends hash X25519 of the two ephemerals, so the key is
\* the pair, named from the initiator's side.
icsp_derive_key(id, initEph, respEph) == [id |-> id, init |-> initEph, resp |-> respEph]

\* cookie_make hashes peer_id, peer_eph and the (constant) stream counts.
cookie_make(id, eph) == [id |-> id, eph |-> eph]

Frame(type, src, to, eph, ck) ==
    [type |-> type, src |-> src, to |-> to, eph |-> eph, ck |-> ck, ok |-> TRUE]

Frames == [type : ChunkType, src : Station, to : Station, eph : Nat, ck : Cookie, ok : BOOLEAN]

TypeOK ==
    /\ mode \in Mode
    /\ now \in Nat \ {0}
    /\ net \subseteq Frames
    /\ faults \in Nat
    /\ cst \in [Client -> {"closed", "init_wait", "echo_wait", "established", "failed"}]
    /\ tries \in [Client -> 0 .. MaxTries - 1]
    /\ ceph \in [Client -> Nat]
    /\ ckey \in [Client -> Key]
    /\ cck \in [Client -> Cookie]
    /\ cdst \in [Client -> SUBSET Station]
    /\ sst \in {"accept", "cookie_wait", "established", "failed"}
    /\ lastTs \in Nat
    /\ speer \in Cookie
    /\ seph \in Nat
    /\ skey \in Key
    /\ runs \in Nat \ {0}
    /\ accepted \subseteq (Client \X Key)

Init ==
    /\ mode \in Modes
    /\ now = 1 /\ net = {} /\ faults = 0
    /\ cst = [c \in Client |-> "closed"]
    /\ tries = [c \in Client |-> 0]
    /\ ceph = [c \in Client |-> 0]
    /\ ckey = [c \in Client |-> NoKey]
    /\ cck = [c \in Client |-> NoCookie]
    /\ cdst = [c \in Client |-> {}]
    /\ sst = "accept" /\ lastTs = 0 /\ speer = NoCookie
    /\ seph = 0 /\ skey = NoKey /\ runs = 1 /\ accepted = {}

-----------------------------------------------------------------------------
(* The network.  Delivery takes the frame, or leaves it to arrive again.     *)

Deliver(m, out) ==
    \/ net' = (net \ {m}) \cup out /\ UNCHANGED faults
    \/ /\ m.type \in DupKinds /\ faults < MaxFaults
       /\ net' = net \cup out /\ faults' = faults + 1

Lose(m) ==
    /\ m.type \in LossKinds /\ faults < MaxFaults
    /\ net' = net \ {m} /\ faults' = faults + 1
    /\ UNCHANGED <<now, clientVars, serverVars>>

\* The 16-bit CRC lets some damage through; the signature then fails.
Damage(m) ==
    /\ m.ok /\ m.type \in DamageKinds /\ faults < MaxFaults
    /\ net' = (net \ {m}) \cup {[m EXCEPT !.ok = FALSE]} /\ faults' = faults + 1
    /\ UNCHANGED <<now, clientVars, serverVars>>

\* A receive timeout expires; on a timely network only when nothing is coming.
TimeoutExpires == Timely => net = {}

-----------------------------------------------------------------------------
(* icsp_client_handshake.                                                    *)

\* Mutants: one try too many, one too few.
RetriesLeft_more(c) == tries[c] < MaxTries
RetriesLeft_fewer(c) == tries[c] + 2 < MaxTries

\* ++init_tries < 5, and ++ck_tries < 5.
RetriesLeft(c) == tries[c] + 1 < MaxTries

\* Mutant: the frame built before the new ephemeral is stored.
INIT_stale(c, ts) == {Frame("INIT", c, to, ceph[c], NoCookie) : to \in cdst'[c]}

INIT(c, ts) == {Frame("INIT", c, to, ts, NoCookie) : to \in cdst'[c]}
COOKIE_ECHO(c, ck) == {Frame("COOKIE_ECHO", c, to, 0, ck) : to \in cdst'[c]}

\* assoc_reset forgets the peer MAC: on L2 the first INIT is a broadcast, in
\* tunnel mode it goes to dst_addr through the gateway.
ClientConnect(c) ==
    /\ cst[c] = "closed"
    /\ cst' = [cst EXCEPT ![c] = "init_wait"]
    /\ cdst' = [cdst EXCEPT ![c] = IF mode = "tunnel" THEN {Server} ELSE Station \ {c}]
    /\ ceph' = [ceph EXCEPT ![c] = now + Skew[c]]
    /\ net' = net \cup INIT(c, now + Skew[c])
    /\ UNCHANGED <<now, faults, tries, ckey, cck, serverVars>>

\* No INIT-ACK within rcv_timeout_ms: goto resend_init, with a new ephemeral.
ClientResendInit(c) ==
    /\ cst[c] = "init_wait" /\ TimeoutExpires
    /\ RetriesLeft(c)
    /\ now' = now + 1
    /\ tries' = [tries EXCEPT ![c] = @ + 1]
    /\ ceph' = [ceph EXCEPT ![c] = now' + Skew[c]]
    /\ cdst' = cdst
    /\ net' = net \cup INIT(c, now' + Skew[c])
    /\ UNCHANGED <<faults, cst, ckey, cck, serverVars>>

\* A signed INIT-ACK, whichever of our INITs it answers: derive the key from
\* the CURRENT ephemeral, echo the cookie.
ClientRecvInitAck(c, m) ==
    /\ m.to = c /\ m.type = "INIT_ACK" /\ cst[c] = "init_wait" /\ m.ok
    /\ cst' = [cst EXCEPT ![c] = "echo_wait"]
    /\ tries' = [tries EXCEPT ![c] = 0]
    /\ ckey' = [ckey EXCEPT ![c] = icsp_derive_key(c, ceph[c], m.eph)]
    /\ cck' = [cck EXCEPT ![c] = m.ck]
    /\ cdst' = [cdst EXCEPT ![c] = {m.src}]
    /\ Deliver(m, COOKIE_ECHO(c, m.ck))
    /\ UNCHANGED <<now, ceph, serverVars>>

\* "INIT-ACK invalid signature (rogue server)": the connection is given up.
ClientRefuseInitAck(c, m) ==
    /\ m.to = c /\ m.type = "INIT_ACK" /\ cst[c] = "init_wait" /\ ~m.ok
    /\ cst' = [cst EXCEPT ![c] = "failed"]
    /\ cdst' = [cdst EXCEPT ![c] = {m.src}]
    /\ Deliver(m, {})
    /\ UNCHANGED <<now, tries, ceph, ckey, cck, serverVars>>

\* No COOKIE-ACK within the timeout: the same COOKIE-ECHO again.
ClientResendEcho(c) ==
    /\ cst[c] = "echo_wait" /\ TimeoutExpires
    /\ RetriesLeft(c)
    /\ now' = now + 1
    /\ tries' = [tries EXCEPT ![c] = @ + 1]
    /\ cdst' = cdst
    /\ net' = net \cup COOKIE_ECHO(c, cck[c])
    /\ UNCHANGED <<faults, cst, ceph, ckey, cck, serverVars>>

\* The last timeout of either wait: icsp_client_handshake returns -1.
ClientGiveUp(c) ==
    /\ cst[c] \in {"init_wait", "echo_wait"} /\ TimeoutExpires
    /\ ~RetriesLeft(c)
    /\ now' = now + 1
    /\ cst' = [cst EXCEPT ![c] = "failed"]
    /\ UNCHANGED <<net, faults, tries, ceph, ckey, cck, cdst, serverVars>>

\* COOKIE-ACK: nothing but the chunk type is looked at.
ClientRecvCookieAck(c, m) ==
    /\ m.to = c /\ m.type = "COOKIE_ACK" /\ cst[c] = "echo_wait"
    /\ cst' = [cst EXCEPT ![c] = "established"]
    /\ cdst' = [cdst EXCEPT ![c] = {m.src}]
    /\ Deliver(m, {})
    /\ UNCHANGED <<now, tries, ceph, ckey, cck, serverVars>>

\* Any other frame.  While the handshake is waiting, icsp_recv_frame has already
\* pointed peer_mac and dst_addr at its sender before the chunk is looked at.
ClientHearOther(c, m) ==
    /\ m.to = c
    /\ ~(m.type = "INIT_ACK" /\ cst[c] = "init_wait")
    /\ ~(m.type = "COOKIE_ACK" /\ cst[c] = "echo_wait")
    /\ cdst' = [cdst EXCEPT ![c] = IF cst[c] \in {"init_wait", "echo_wait"} THEN {m.src} ELSE @]
    /\ Deliver(m, {})
    /\ UNCHANGED <<now, cst, tries, ceph, ckey, cck, serverVars>>

-----------------------------------------------------------------------------
(* icsp_server_accept.                                                       *)

\* Mutants: an equal timestamp accepted; no allowlist.
init_fresh_equal(m) == m.eph >= lastTs
init_allowed_any(m) == TRUE

\* init_check: the timestamp must be newer than the last one seen, whoever sent
\* that one; the allowlist is looked at after last_init_ts is moved.
init_fresh(m) == m.eph > lastTs
init_allowed(m) == Allowed = {} \/ m.src \in Allowed

\* The answers, to the station the frame came from.
INIT_ACK(m) == {Frame("INIT_ACK", Server, m.src, seph', cookie_make(m.src, m.eph))}
COOKIE_ACK(m) == {Frame("COOKIE_ACK", Server, m.src, 0, NoCookie)}

\* init_check passes: remember the peer, derive the key at once, answer.
ServerRecvInit(m) ==
    /\ m.to = Server /\ m.type = "INIT" /\ sst = "accept"
    /\ init_fresh(m) /\ init_allowed(m)
    /\ lastTs' = m.eph
    /\ speer' = cookie_make(m.src, m.eph)
    /\ seph' = seph + 1
    /\ skey' = icsp_derive_key(m.src, m.eph, seph')
    /\ sst' = "cookie_wait"
    /\ Deliver(m, INIT_ACK(m))
    /\ UNCHANGED <<mode, now, clientVars, runs, accepted>>

\* Not on the allowlist: dropped, but last_init_ts and the peer have moved.
ServerRefuseInit(m) ==
    /\ m.to = Server /\ m.type = "INIT" /\ sst = "accept"
    /\ init_fresh(m) /\ ~init_allowed(m)
    /\ lastTs' = m.eph
    /\ speer' = cookie_make(m.src, m.eph)
    /\ Deliver(m, {})
    /\ UNCHANGED <<mode, now, clientVars, sst, seph, skey, runs, accepted>>

\* cookie_valid recomputes the cookie from the current peer_id and peer_eph; the
\* signature over it must be the peer's.
cookie_valid(m) == m.ok /\ m.ck = speer
echo_signed(m) == m.ok /\ m.src = speer.id

ServerRecvEcho(m) ==
    /\ m.to = Server /\ m.type = "COOKIE_ECHO" /\ sst = "cookie_wait"
    /\ cookie_valid(m) /\ echo_signed(m)
    /\ sst' = "established"
    /\ accepted' = accepted \cup {<<m.src, skey>>}
    /\ Deliver(m, COOKIE_ACK(m))
    /\ UNCHANGED <<mode, now, clientVars, lastTs, speer, seph, skey, runs>>

\* Invalid cookie or signature: goto retry_handshake; the derived key stays.
ServerRejectEcho(m) ==
    /\ m.to = Server /\ m.type = "COOKIE_ECHO" /\ sst = "cookie_wait"
    /\ ~(cookie_valid(m) /\ echo_signed(m))
    /\ sst' = "accept"
    /\ Deliver(m, {})
    /\ UNCHANGED <<mode, now, clientVars, lastTs, speer, seph, skey, runs, accepted>>

\* A frame the current wait skips: a stale INIT, an INIT while a COOKIE-ECHO is
\* awaited, an echo while an INIT is; and whatever reaches a finished accept.
ServerHearOther(m) ==
    /\ m.to = Server
    /\ ~(m.type = "INIT" /\ sst = "accept" /\ init_fresh(m))
    /\ ~(m.type = "COOKIE_ECHO" /\ sst = "cookie_wait")
    /\ Deliver(m, {})
    /\ UNCHANGED <<now, clientVars, serverVars>>

\* The wait expires.  With announce_s the tunnel server re-announces and goes
\* back to the INIT wait; otherwise a finite accept returns -1 from either wait,
\* and an accept without a timeout waits on (no step).
ServerTimeout ==
    /\ TimeoutExpires
    /\ \/ mode = "tunnel" /\ sst = "cookie_wait" /\ sst' = "accept"
       \/ mode = "l2_timeout" /\ sst \in {"accept", "cookie_wait"} /\ sst' = "failed"
    /\ UNCHANGED <<mode, now, net, faults, clientVars, lastTs, speer, seph, skey, runs, accepted>>

\* The application calls icsp_server_accept again, after a failed accept (bite) or
\* when the association is over: assoc_reset clears everything, last_init_ts too.
ServerReaccept ==
    /\ sst \in {"established", "failed"} /\ runs < MaxRuns
    /\ runs' = runs + 1
    /\ sst' = "accept" /\ lastTs' = 0 /\ speer' = NoCookie /\ skey' = NoKey
    /\ UNCHANGED <<mode, now, net, faults, clientVars, seph, accepted>>

-----------------------------------------------------------------------------
ClientStep(c) ==
    \/ ClientConnect(c) \/ ClientResendInit(c) \/ ClientResendEcho(c) \/ ClientGiveUp(c)
    \/ \E m \in net :
        \/ ClientRecvInitAck(c, m) \/ ClientRefuseInitAck(c, m)
        \/ ClientRecvCookieAck(c, m) \/ ClientHearOther(c, m)

ServerStep ==
    \/ ServerTimeout
    \/ \E m \in net :
        \/ ServerRecvInit(m) \/ ServerRefuseInit(m)
        \/ ServerRecvEcho(m) \/ ServerRejectEcho(m) \/ ServerHearOther(m)

Next ==
    \/ \E c \in Client : ClientStep(c)
    \/ ServerStep \/ ServerReaccept
    \/ \E m \in net : Lose(m) \/ Damage(m)

Spec == Init /\ [][Next]_vars

\* Both programs sit in a receive loop with a timeout; nothing obliges the
\* network to lose a frame or the application to accept again.
FairSpec == Spec /\ WF_vars(ServerStep) /\ \A c \in Client : WF_vars(ClientStep(c))

-----------------------------------------------------------------------------
(* Properties.                                                               *)

\* The server never establishes an association its peer did not answer for: the
\* peer is on the allowlist and has itself received the INIT-ACK and signed the
\* cookie made from exactly the INIT the server's key is derived from.
ServerAuthentic ==
    sst = "established" =>
        /\ speer.id \in Client /\ (Allowed = {} \/ speer.id \in Allowed)
        /\ cck[speer.id] = speer
        /\ skey.id = speer.id /\ skey.init = speer.eph /\ skey.resp = seph

\* A client that reports an established association was accepted by the server,
\* with a key made from the same server ephemeral (within one accept call, where
\* last_init_ts keeps one INIT from being answered with two ephemerals).
ClientAccepted ==
    \A c \in Client :
        cst[c] = "established" =>
            \E a \in accepted :
                a[1] = c /\ (runs = 1 => a[2].resp = ckey[c].resp)

\* docs/icsp-spec.md, Phase 1: "derived key identical on both sides".
KeyAgreement ==
    \A c \in Client :
        cst[c] = "established" /\ sst = "established" /\ speer.id = c => ckey[c] = skey

\* Liveness: a client that starts connecting gets its association.
Connects == \A c \in Client : cst[c] = "init_wait" ~> cst[c] = "established"
-----------------------------------------------------------------------------
(* What the two safety invariants rest on; proved in IcspHandshakeProofs.    *)

\* The client has taken an INIT-ACK (or given up): its key and its cookie will
\* not change again.
Committed(c) == cst[c] \notin {"closed", "init_wait"}

\* The server accepted c, with the ephemeral c's key is made from.
WasAccepted(c) == \E a \in accepted : a[1] = c /\ (runs = 1 => a[2].resp = ckey[c].resp)

\* Frames say what their senders are committed to.
FrameInv ==
    \A m \in net :
        /\ m.type = "INIT" => m.src \in Client
        /\ m.type = "INIT_ACK" /\ runs = 1 =>
              m.ck.eph <= lastTs /\ (m.ck = speer => m.eph = seph)
        /\ m.type = "COOKIE_ECHO" => m.src \in Client /\ Committed(m.src) /\ cck[m.src] = m.ck
        /\ m.type = "COOKIE_ACK" => m.to \in Client /\ Committed(m.to) /\ WasAccepted(m.to)

\* The cookie a client holds names one INIT, answered with one server ephemeral.
ClientInv ==
    \A c \in Client :
        /\ cck[c] # NoCookie /\ runs = 1 =>
              cck[c].eph <= lastTs /\ (cck[c] = speer => ckey[c].resp = seph)
        /\ cst[c] = "established" => WasAccepted(c)

ServerInv ==
    /\ sst \in {"cookie_wait", "established"} =>
          /\ speer.id \in Client /\ (Allowed = {} \/ speer.id \in Allowed)
          /\ skey = icsp_derive_key(speer.id, speer.eph, seph)
    /\ sst = "established" => Committed(speer.id) /\ cck[speer.id] = speer

IndInv == TypeOK /\ FrameInv /\ ClientInv /\ ServerInv
=============================================================================
