-------------------------------- MODULE Bite --------------------------------
(***************************************************************************)
(* bite (c/examples/bite.c): a server that serves one association after     *)
(* another, and clients that fetch one document each; bTLS (module Btls)    *)
(* over an ICSP association.                                                *)
(*                                                                          *)
(* An association carries records in order.  One that is lost is sent again *)
(* as zeros, or never, and then nothing behind it arrives (module IcspData: *)
(* the sendq holds no bytes, the rcvq is not read).  Time is in ticks of    *)
(* some seconds; steps take none.                                           *)
(***************************************************************************)
EXTENDS Btls, Integers, FiniteSets, Least

CONSTANTS
    Client,       \* the fetching processes
    NoClient,     \* nobody
    ServerKey,    \* the server's public key
    Idle,         \* 20 s, counted from before icsp_server_accept
    AcceptWindow, \* 30 s
    RespIdle,     \* 5 s, from each response
    FetchTime,    \* 8 s
    DialTime,     \* what icsp_client_handshake takes to give up
    Confs,        \* see Conf
    MaxRuns       \* bound: fetches of each client

VARIABLES
    conf,
    srv, sa, st, idle, win,      \* server: where it is, association, session, time left
    cst, ct, req, left, result,  \* clients: where, session, request, time left, response
    toSrv, toCli,                \* records on their way, by client
    stalled,                     \* directions in which nothing arrives any more
    runs, associations,
    happened,                    \* history: what may spoil a fetch
    boxes, seals                 \* history: the keys and counters sealed with; records sealed

srvVars == <<srv, sa, st, idle, win, associations>>
cliVars == <<cst, ct, req, left, result, runs>>
netVars == <<toSrv, toCli, stalled>>
history == <<happened, boxes, seals>>
vars == <<conf, srvVars, cliVars, netVars, history>>

Trouble == {"late", "second", "lost", "slow", "send", "err", "doc"}

\* The name each client dials (NoLabel: an address) and its identity; what it may ask for;
\* the documents under the root, with their sizes in fragments; the troubles there may be.
Conf == [label : [Client -> {NoLabel} \cup {<<"bait", ServerKey>>, <<"bait", "twin">>}], id : [Client -> {"a", "b"}],
         asks : SUBSET [kind : {"req"}, meth : {"BITE", "HEAD", "POST"}, target : Seq(STRING), size : Nat],
         docs : SUBSET [path : Seq(STRING), size : Nat], runs : 0 .. MaxRuns, troubles : SUBSET (Trouble \ {"late", "second"})]

ASSUME TimeAssumption == {Idle, AcceptWindow, RespIdle, FetchTime, DialTime, MaxRuns} \subseteq Nat \ {0}
ASSUME ConfAssumption == Confs \subseteq Conf
ASSUME NameAssumption == NoClient \notin Client /\ NoLabel # bait_label_from_pub(ServerKey)

ServerSession == btls_init("server", ServerKey, <<NoClient, associations + 1>>, NoLabel)
NoSession == btls_init("client", NoPub, <<>>, NoLabel)
NoRequest == [kind |-> "none", meth |-> "", target |-> <<>>, size |-> 0]
NoResponse == [kind |-> "none", status |-> 0, path |-> <<>>, size |-> 0]
SHUTDOWN == [rt |-> "SHUTDOWN"]

Init ==
    /\ conf \in Confs
    /\ srv = "accept" /\ sa = NoClient /\ associations = 0 /\ st = ServerSession /\ idle = Idle /\ win = AcceptWindow
    /\ cst = [c \in Client |-> "off"] /\ ct = [c \in Client |-> NoSession] /\ req = [c \in Client |-> NoRequest]
    /\ left = [c \in Client |-> 0] /\ result = [c \in Client |-> NoResponse]
    /\ toSrv = [c \in Client |-> <<>>] /\ toCli = [c \in Client |-> <<>>] /\ stalled = {}
    /\ runs = [c \in Client |-> 0] /\ happened = {} /\ boxes = {} /\ seals = 0

Records(k) == happened' = happened \cup {k}
Happens(k) == k \in conf.troubles /\ Records(k)

\* icsp_data_send of every record; what is sent behind a lost one does not arrive.
Sent(q, c, dir, out) == [q EXCEPT ![c] = IF <<c, dir>> \in stalled THEN @ ELSE @ \o out]
SealedRecs(out) == {i \in DOMAIN out : out[i].rt = "APPLICATION"}
Seals(out) ==
    /\ boxes' = boxes \cup {<<out[i].key, out[i].seq>> : i \in SealedRecs(out)}
    /\ seals' = seals + Cardinality(SealedRecs(out))
Shut(q, c) == [q EXCEPT ![c] = Append(@, SHUTDOWN)]

-----------------------------------------------------------------------------
(* A request, as the server reads it.  A target is a sequence of characters   *)
(* and escapes.                                                              *)

decode(x) == IF x = "%2e" THEN "." ELSE x
BadEscape == {"%2f", "%00", "%zz"}

\* req_target: up to the query, decoded.
Decoded(tgt) ==
    LET stop == {i \in DOMAIN tgt : tgt[i] = "?"}
        n == IF stop = {} THEN Len(tgt) ELSE First(stop) - 1
    IN [i \in 1 .. n |-> decode(tgt[i])]

DotDot(p) ==
    \E i \in 1 .. Len(p) - 1 :
        /\ p[i] = "." /\ p[i + 1] = "."
        /\ i = 1 \/ p[IF i = 1 THEN i ELSE i - 1] = "/"
        /\ i + 2 > Len(p) \/ p[IF i + 2 > Len(p) THEN i ELSE i + 2] = "/"

req_target_ok(p) == (\A i \in DOMAIN p : p[i] \notin BadEscape) /\ p # <<>> /\ p[1] = "/" /\ ~DotDot(p)

\* open_doc: "/" is the index.
Document(p) == {d \in conf.docs : d.path = IF p = <<"/">> THEN <<"/", "index">> ELSE p}

Response(status, p, size) == [kind |-> "resp", status |-> status, path |-> p, size |-> size]

\* serve: a HEAD response has no body, so one fragment.
serve(m) ==
    LET p == Decoded(m.target)
        D == Document(p)
        size == (CHOOSE d \in D : TRUE).size
    IN IF m.meth \notin {"BITE", "GET", "HEAD"} THEN Response(405, <<>>, 1)
       ELSE IF D = {} THEN Response(404, <<>>, 1)
       ELSE IF size > MaxFrags THEN Response(500, <<>>, 1)
       ELSE Response(200, p, IF m.meth = "HEAD" THEN 1 ELSE size)

\* What the server makes of a reassembled message.
Reply(parts) ==
    LET m == parts[1].msg
    IN IF m.kind = "req" /\ parts = Parts(m) /\ req_target_ok(Decoded(m.target))
       THEN serve(m) ELSE Response(400, <<>>, 1)

-----------------------------------------------------------------------------
(* Server: run_server.                                                       *)

\* Mutant: the context is not cleared.
NextAssociation_keep ==
    /\ srv' = "accept" /\ sa' = NoClient /\ st' = st /\ idle' = Idle /\ win' = AcceptWindow
    /\ UNCHANGED associations

\* The head of the loop: idle is set before the accept, the context is cleared.
NextAssociation ==
    /\ srv' = "accept" /\ sa' = NoClient /\ st' = ServerSession /\ idle' = Idle /\ win' = AcceptWindow
    /\ UNCHANGED associations

AcceptTimeout ==
    /\ srv = "accept" /\ win = 0 /\ NextAssociation
    /\ UNCHANGED <<conf, cliVars, netVars, history>>

Opened(c) ==
    /\ sa' = c /\ cst' = [cst EXCEPT ![c] = "start"]
    /\ toSrv' = [toSrv EXCEPT ![c] = <<>>] /\ toCli' = [toCli EXCEPT ![c] = <<>>]
    /\ stalled' = {d \in stalled : d[1] # c}
    /\ associations' = associations + 1

\* icsp_server_accept and icsp_client_handshake return.
Accept(c) ==
    /\ srv = "accept" /\ win > 0 /\ cst[c] = "dial"
    /\ srv' = "serving" /\ Opened(c)
    /\ IF idle = 0 THEN Records("late") ELSE UNCHANGED happened
    /\ UNCHANGED <<conf, st, idle, win, ct, req, left, result, runs, boxes, seals>>

\* The INIT of another fetch while the server is in icsp_poll: from another identity it is an
\* error, and the server returns; from the same one it is a rekey, and the association is the
\* other fetch's, the session what it was.
SecondInit(c) ==
    /\ srv = "serving" /\ idle > 0 /\ cst[c] = "dial" /\ Records("second")
    /\ IF conf.id[c] = conf.id[sa] THEN Opened(c) /\ UNCHANGED srv
       ELSE srv' = "down" /\ UNCHANGED <<sa, cst, netVars, associations>>
    /\ UNCHANGED <<conf, st, idle, win, ct, req, left, result, runs, boxes, seals>>

SrvPollErr ==
    /\ srv = "serving" /\ idle > 0 /\ Happens("err") /\ srv' = "down"
    /\ UNCHANGED <<conf, sa, st, idle, win, associations, cliVars, netVars, boxes, seals>>

SrvTakes(r) == srv = "serving" /\ idle > 0 /\ toSrv[sa] # <<>> /\ r = Head(toSrv[sa])
SrvHas == [toSrv EXCEPT ![sa] = Tail(@)]

\* assoc_fail: SHUTDOWN, and the next association.
AssocFail(out) ==
    /\ toSrv' = SrvHas /\ toCli' = Shut(Sent(toCli, sa, "cli", out), sa)
    /\ NextAssociation /\ UNCHANGED stalled

SrvClosed(r) ==
    /\ SrvTakes(r) /\ r = SHUTDOWN
    /\ toSrv' = SrvHas /\ NextAssociation
    /\ UNCHANGED <<conf, cliVars, toCli, stalled, history>>

\* The records out are sent, or icsp_data_send fails at one of them.
SrvSends(x, time) ==
    \/ /\ toSrv' = SrvHas /\ toCli' = Sent(toCli, sa, "cli", x.out) /\ st' = x.t /\ idle' = time
       /\ Seals(x.out)
       /\ UNCHANGED <<srv, sa, win, associations, stalled, happened>>
    \/ /\ Happens("send")
       /\ \E n \in 0 .. Len(x.out) - 1 : AssocFail(SubSeq(x.out, 1, n)) /\ Seals(SubSeq(x.out, 1, n + 1))

SrvHandshake(r) ==
    /\ SrvTakes(r) /\ r # SHUTDOWN /\ st.state # "DONE"
    /\ IF btls_feed_ok(st, r) THEN \E x \in Flight(btls_feed(st, r)) : SrvSends(x, idle)
       ELSE AssocFail(<<>>) /\ UNCHANGED history
    /\ UNCHANGED <<conf, cliVars>>

\* A file that changes size between fseek and fread ends the association.
SrvRequest(r) ==
    LET u == btls_recv_app(st, r)
    IN /\ SrvTakes(r) /\ r # SHUTDOWN /\ st.state = "DONE"
       /\ IF ~btls_recv_app_ok(st, r) THEN AssocFail(<<>>) /\ UNCHANGED history
          ELSE IF r.inner.more
          THEN toSrv' = SrvHas /\ st' = u /\ UNCHANGED <<srv, sa, idle, win, associations, toCli, stalled, history>>
          ELSE \/ \E x \in {btls_send_app(u, Reply(Reassembled(st, r)))} : SrvSends(x, RespIdle)
               \/ Reply(Reassembled(st, r)).status = 200 /\ Happens("doc") /\ AssocFail(<<>>) /\ UNCHANGED <<boxes, seals>>
       /\ UNCHANGED <<conf, cliVars>>

\* The time is up: the client is not told.
SrvIdle ==
    /\ srv = "serving" /\ idle = 0 /\ NextAssociation
    /\ UNCHANGED <<conf, cliVars, netVars, history>>

-----------------------------------------------------------------------------
(* Client: run_fetch.                                                        *)

Dial(c, m) ==
    /\ cst[c] = "off" /\ runs[c] < conf.runs
    /\ cst' = [cst EXCEPT ![c] = "dial"] /\ req' = [req EXCEPT ![c] = m]
    /\ left' = [left EXCEPT ![c] = DialTime] /\ runs' = [runs EXCEPT ![c] = @ + 1]
    /\ UNCHANGED <<conf, srvVars, ct, result, netVars, history>>

\* The process is gone, with a response or without; it leaves no word.
Exits(c, how) == cst' = [cst EXCEPT ![c] = how] /\ ct' = [ct EXCEPT ![c] = NoSession]

TimeUp(c) ==
    /\ cst[c] \in {"dial", "run"} /\ left[c] = 0 /\ Exits(c, "failed")
    /\ UNCHANGED <<conf, srvVars, req, left, result, runs, netVars, history>>

Start(c) ==
    LET t == btls_init("client", NoPub, <<c, runs[c]>>, conf.label[c])
    IN /\ cst[c] = "start"
       /\ cst' = [cst EXCEPT ![c] = "run"] /\ ct' = [ct EXCEPT ![c] = btls_client_start(t)]
       /\ left' = [left EXCEPT ![c] = FetchTime]
       /\ toSrv' = Sent(toSrv, c, "srv", <<Plain(CH(t))>>)
       /\ UNCHANGED <<conf, srvVars, req, result, runs, toCli, stalled, history>>

CliTakes(c, r) == cst[c] = "run" /\ left[c] > 0 /\ toCli[c] # <<>> /\ r = Head(toCli[c])
CliHas(c) == [toCli EXCEPT ![c] = Tail(@)]

CliClosed(c, r) ==
    /\ CliTakes(c, r) /\ r = SHUTDOWN
    /\ toCli' = CliHas(c) /\ Exits(c, "failed")
    /\ UNCHANGED <<conf, srvVars, req, left, result, runs, toSrv, stalled, history>>

\* Once the handshake is done the request follows at once.
WithRequest(c, x) ==
    IF x.t.state # "DONE" THEN x
    ELSE LET y == btls_send_app(x.t, req[c]) IN [t |-> y.t, out |-> x.out \o y.out]

CliHandshake(c, r) ==
    /\ CliTakes(c, r) /\ r # SHUTDOWN /\ ct[c].state # "DONE"
    /\ toCli' = CliHas(c)
    /\ IF btls_feed_ok(ct[c], r)
       THEN \E y \in Flight(btls_feed(ct[c], r)) : \E x \in {WithRequest(c, y)} :
              \/ /\ ct' = [ct EXCEPT ![c] = x.t] /\ toSrv' = Sent(toSrv, c, "srv", x.out)
                 /\ Seals(x.out)
                 /\ UNCHANGED <<cst, happened>>
              \/ /\ Happens("send") /\ Exits(c, "failed")
                 /\ \E n \in 0 .. Len(x.out) - 1 :
                       toSrv' = Sent(toSrv, c, "srv", SubSeq(x.out, 1, n)) /\ Seals(SubSeq(x.out, 1, n + 1))
       ELSE Exits(c, "failed") /\ UNCHANGED <<toSrv, history>>
    /\ UNCHANGED <<conf, srvVars, req, left, result, runs, stalled>>

\* The first whole message is the response.
CliResponse(c, r) ==
    LET m == r.inner.msg
        whole == Reassembled(ct[c], r) = Parts(m)
    IN /\ CliTakes(c, r) /\ r # SHUTDOWN /\ ct[c].state = "DONE"
       /\ toCli' = CliHas(c)
       /\ \/ /\ btls_recv_app_ok(ct[c], r) /\ r.inner.more
             /\ ct' = [ct EXCEPT ![c] = btls_recv_app(@, r)] /\ UNCHANGED <<cst, result, toSrv>>
          \/ /\ btls_recv_app_ok(ct[c], r) /\ ~r.inner.more
             /\ result' = [result EXCEPT ![c] = IF whole THEN m ELSE [m EXCEPT !.kind = "part"]]
             /\ Exits(c, "got") /\ toSrv' = Shut(toSrv, c)
          \/ ~btls_recv_app_ok(ct[c], r) /\ Exits(c, "failed") /\ UNCHANGED <<result, toSrv>>
       /\ UNCHANGED <<conf, srvVars, req, left, runs, stalled, history>>

CliPollErr(c) ==
    /\ cst[c] = "run" /\ left[c] > 0 /\ Happens("err") /\ Exits(c, "failed")
    /\ UNCHANGED <<conf, srvVars, req, left, result, runs, netVars, boxes, seals>>

\* Another fetch.
Again(c) ==
    /\ cst[c] \in {"got", "failed"} /\ runs[c] < conf.runs
    /\ cst' = [cst EXCEPT ![c] = "off"] /\ req' = [req EXCEPT ![c] = NoRequest] /\ result' = [result EXCEPT ![c] = NoResponse]
    /\ UNCHANGED <<conf, srvVars, ct, left, runs, netVars, history>>

-----------------------------------------------------------------------------
(* The association and time.                                                 *)

\* A record is lost: it comes again as zeros if nothing was sent behind it, or nothing but
\* SHUTDOWN arrives in that direction any more.
Lost(q, q2, dir) ==
    /\ q # <<>> /\ Happens("lost")
    /\ \/ Len(q) = 1 /\ q[1] # SHUTDOWN /\ q2 = <<Blank>> /\ UNCHANGED stalled
       \/ q2 = SelectSeq(q, LAMBDA r : r = SHUTDOWN) /\ stalled' = stalled \cup {dir}

LoseUp(c) ==
    /\ \E q2 \in {<<Blank>>, <<SHUTDOWN>>, <<>>} : Lost(toSrv[c], q2, <<c, "srv">>) /\ toSrv' = [toSrv EXCEPT ![c] = q2]
    /\ UNCHANGED <<conf, srvVars, cliVars, toCli, boxes, seals>>

LoseDown(c) ==
    /\ \E q2 \in {<<Blank>>, <<SHUTDOWN>>, <<>>} : Lost(toCli[c], q2, <<c, "cli">>) /\ toCli' = [toCli EXCEPT ![c] = q2]
    /\ UNCHANGED <<conf, srvVars, cliVars, toSrv, boxes, seals>>

SrvBusy == \/ srv = "serving" /\ (idle = 0 \/ toSrv[sa] # <<>>)
           \/ srv = "accept" /\ (win = 0 \/ \E c \in Client : cst[c] = "dial")
CliBusy == \E c \in Client :
              \/ cst[c] = "start"
              \/ cst[c] \in {"dial", "run"} /\ left[c] = 0
              \/ cst[c] = "run" /\ toCli[c] # <<>>

Less(n) == IF n = 0 THEN 0 ELSE n - 1

\* Time passes when nobody has anything to do, or the network or a process is slow.
Tick ==
    /\ IF SrvBusy \/ CliBusy THEN Happens("slow") ELSE UNCHANGED happened
    /\ idle' = (IF srv = "down" THEN idle ELSE Less(idle)) /\ win' = IF srv = "accept" THEN Less(win) ELSE win
    /\ left' = [c \in Client |-> IF cst[c] \in {"dial", "run"} THEN Less(left[c]) ELSE left[c]]
    /\ UNCHANGED <<conf, srv, sa, st, associations, cst, ct, req, result, runs, netVars, boxes, seals>>

SrvStep ==
    \/ AcceptTimeout \/ SrvIdle \/ (\E c \in Client : Accept(c))
    \/ \E r \in {Head(toSrv[c]) : c \in {x \in Client : toSrv[x] # <<>>}} : SrvClosed(r) \/ SrvHandshake(r) \/ SrvRequest(r)
CliStep(c) ==
    \/ TimeUp(c) \/ Start(c)
    \/ toCli[c] # <<>> /\ (CliClosed(c, Head(toCli[c])) \/ CliHandshake(c, Head(toCli[c])) \/ CliResponse(c, Head(toCli[c])))

Next ==
    \/ SrvStep \/ SrvPollErr \/ Tick
    \/ \E c \in Client : CliStep(c) \/ SecondInit(c) \/ CliPollErr(c) \/ Again(c) \/ LoseUp(c) \/ LoseDown(c) \/ \E m \in conf.asks : Dial(c, m)

Spec == Init /\ [][Next]_vars

\* Both programs poll, and time passes.
FairSpec == Spec /\ WF_vars(SrvStep) /\ WF_vars(Tick) /\ \A c \in Client : WF_vars(CliStep(c))

-----------------------------------------------------------------------------
(* Properties.                                                               *)

InStep(t, u, q) == t.recv = u.send /\ (happened \cap {"lost", "send"} = {} => t.rseq + Cardinality({i \in DOMAIN q : q[i] # SHUTDOWN}) = u.sseq)

\* A client that has finished the handshake has the key of the name it dialed, and got it from
\* the server (Certificate, CertificateVerify); once both have finished, they have the same
\* transcript, each opens with the key and the counter the other seals with, and no key seals
\* twice with one counter (install_epoch, seal_box, open_rec).
Channel ==
    /\ \A c \in Client : ct[c].state = "DONE" => ct[c].cert = ServerKey /\ conf.label[c] \in {NoLabel, bait_label_from_pub(ServerKey)}
    /\ \A c \in Client :
          srv = "serving" /\ sa = c /\ ct[c].state = "DONE" /\ st.state = "DONE" =>
              ct[c].th = st.th /\ InStep(st, ct[c], toSrv[c]) /\ InStep(ct[c], st, toCli[c])
    /\ Cardinality(boxes) = seals

\* The response a client is given is the whole response to its own request: what the server
\* has under the path it asked for, however many fetches came before (app_send, btls_recv_app).
Answers ==
    \A c \in Client : cst[c] = "got" =>
        result[c] = Reply(Parts(req[c]))

Fits(c) == conf.label[c] \in {NoLabel, bait_label_from_pub(ServerKey)}

\* The server always comes back for the next association, or has left because of an error or a
\* second INIT; and a fetch whose association was accepted in time, that nothing
\* disturbed, gets its response (run_server, run_fetch).
Serves ==
    /\ []<>(srv # "serving")
    /\ \A c \in Client : (cst[c] = "run" /\ Fits(c)) ~> (cst[c] = "got" \/ happened # {})
=============================================================================
