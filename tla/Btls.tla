-------------------------------- MODULE Btls --------------------------------
(***************************************************************************)
(* bTLS (c/src/BITE/btls.c, baitname.c): a session, as the functions of the *)
(* library make one into the next.  A record field is a field of struct     *)
(* btls; the transcript is the sequence of handshake frames, and a key, a   *)
(* Finished and a signature are what they are computed from.                *)
(***************************************************************************)
EXTENDS Naturals, Sequences

CONSTANTS
    NoLabel,      \* no .bait name was dialed
    MaxFrags      \* BTLS_MAX_MSG, in fragments of BTLS_MAX_PAYLOAD

NoPub == "no pub"
NoKey == [label |-> <<"none">>, prk |-> {}, th |-> <<>>]

\* A name is as good as the key it is the hash of.
bait_label_from_pub(pub) == <<"bait", pub>>

\* eph: a name of the ephemeral; prk: the two ephemerals of the exchange.
btls_init(role, pub, eph, label) ==
    [role |-> role, state |-> "INIT", epoch |-> 0, want |-> "none", eph |-> eph, peer |-> <<>>,
     cert |-> NoPub, pub |-> pub, label |-> label, th |-> <<>>, prk |-> {},
     send |-> NoKey, recv |-> NoKey, sseq |-> 0, rseq |-> 0, rx |-> <<>>]

th_append(t, f) == [t EXCEPT !.th = Append(@, f)]
derive_key(t, l) == [label |-> l, prk |-> t.prk, th |-> t.th]
ecdh_prk(t) == [t EXCEPT !.prk = {t.eph, t.peer}]
cert_digest(t) == t.th
finished_mac(t, side) == derive_key(t, <<"fin", side>>)

\* Mutant: both directions use one key.
install_epoch_one(t, n, name) ==
    [t EXCEPT !.send = derive_key(t, <<name>>), !.recv = derive_key(t, <<name>>), !.sseq = 0, !.rseq = 0, !.epoch = n]

\* Two keys from the transcript as it stands; the counters restart.
install_epoch(t, n, name) ==
    LET c2s == derive_key(t, <<name, "c2s">>)
        s2c == derive_key(t, <<name, "s2c">>)
    IN [t EXCEPT !.send = IF t.role = "client" THEN c2s ELSE s2c,
                 !.recv = IF t.role = "client" THEN s2c ELSE c2s,
                 !.sseq = 0, !.rseq = 0, !.epoch = n]

-----------------------------------------------------------------------------
(* Records: plaintext, or sealed with a key and a counter.                   *)

Plain(f) == [rt |-> "HANDSHAKE", inner |-> f]
seal_box(t, inner) == [rt |-> "APPLICATION", key |-> t.send, seq |-> t.sseq, inner |-> inner]
Blank == [rt |-> "BLANK"]         \* zeros: what a retransmission carries

\* open_rec; a record that does not open ends the session, so its count is not kept.
opens(t, r) == r.rt = "APPLICATION" /\ r.key = t.recv /\ r.seq = t.rseq
readable(t, r) == IF t.epoch = 0 THEN r.rt = "HANDSHAKE" ELSE opens(t, r)
opened(t) == IF t.epoch = 0 THEN t ELSE [t EXCEPT !.rseq = @ + 1]

-----------------------------------------------------------------------------
(* Handshake.                                                                *)

CH(t) == [type |-> "CH", eph |-> t.eph]
SH(t) == [type |-> "SH", eph |-> t.eph]
CERT(t) == [type |-> "CERT", pub |-> t.pub]
CV(t) == [type |-> "CV", by |-> t.pub, digest |-> cert_digest(t)]
FIN(t, side) == [type |-> "FIN", mac |-> finished_mac(t, side)]

\* btls_client_start
btls_client_start(t) == [th_append(t, CH(t)) EXCEPT !.state = "CH_SENT", !.want = "SH"]

name_matches(t, pub) == t.label = NoLabel \/ t.label = bait_label_from_pub(pub)

\* What btls_feed and feed_hs accept: on a server ClientHello, then the client's Finished; on
\* a client ServerHello, Certificate, CertificateVerify, the server's Finished.
accepts(t, f) ==
    IF t.role = "server"
    THEN \/ t.state = "INIT" /\ f.type = "CH"
         \/ t.state = "WAIT_FIN" /\ f.type = "FIN" /\ f.mac = finished_mac(t, "c")
    ELSE /\ t.want = f.type
         /\ f.type = "CERT" => name_matches(t, f.pub)
         /\ f.type = "CV" => f.by = t.cert /\ f.digest = cert_digest(t)
         /\ f.type = "FIN" => f.mac = finished_mac(t, "s")

btls_feed_ok(t, r) == readable(t, r) /\ r.inner.type # "APP" /\ accepts(t, r.inner)

Taken(t, f) ==
    LET u == th_append(opened(t), f)
    IN CASE f.type = "CH" -> [u EXCEPT !.peer = f.eph, !.state = "HS", !.want = "SH"]
         [] f.type = "SH" -> [install_epoch(ecdh_prk([u EXCEPT !.peer = f.eph]), 1, "hs") EXCEPT !.state = "HS", !.want = "CERT"]
         [] f.type = "CERT" -> [u EXCEPT !.cert = f.pub, !.want = "CV"]
         [] f.type = "CV" -> [u EXCEPT !.want = "FIN"]
         [] f.type = "FIN" /\ t.role = "client" -> [u EXCEPT !.want = "none"]
         [] OTHER -> [install_epoch(u, 2, "app") EXCEPT !.state = "DONE"]

btls_feed(t, r) == Taken(t, r.inner)

\* One call of btls_pump: x.t is the session, x.out the records so far.
Sealed(x, f) ==
    [t |-> [th_append(x.t, f) EXCEPT !.sseq = @ + 1], out |-> Append(x.out, seal_box(x.t, f))]

btls_pump(x) ==
    LET t == x.t
        serving == t.role = "server" /\ t.state = "HS"
    IN IF serving /\ t.want = "SH"
       THEN [t |-> [install_epoch(ecdh_prk(th_append(t, SH(t))), 1, "hs") EXCEPT !.want = "CERT"],
             out |-> Append(x.out, Plain(SH(t)))]
       ELSE IF serving /\ t.want = "CERT" THEN [Sealed(x, CERT(t)) EXCEPT !.t.want = "CV"]
       ELSE IF serving /\ t.want = "CV" THEN [Sealed(x, CV(t)) EXCEPT !.t.want = "FIN"]
       ELSE IF serving /\ t.want = "FIN" THEN [Sealed(x, FIN(t, "s")) EXCEPT !.t.state = "WAIT_FIN"]
       ELSE IF t.role = "client" /\ t.state = "HS" /\ t.want = "none"
       THEN LET y == Sealed(x, FIN(t, "c"))
            IN [y EXCEPT !.t = [install_epoch(y.t, 2, "app") EXCEPT !.state = "DONE"]]
       ELSE x

\* The callers pump until there is nothing to send: four records at most.  (Sets of one
\* element, so that TLC evaluates each call once.)
Pumped(X) == {btls_pump(x) : x \in X}
Flight(t) == Pumped(Pumped(Pumped(Pumped({[t |-> t, out |-> <<>>]}))))

-----------------------------------------------------------------------------
(* Application messages: m.size fragments.                                   *)

\* Mutant: the last but one fragment is taken for the last.
Part_early(m, i) == [type |-> "APP", msg |-> m, part |-> i, more |-> i + 1 < m.size]

Part(m, i) == [type |-> "APP", msg |-> m, part |-> i, more |-> i < m.size]
Parts(m) == [i \in 1 .. m.size |-> Part(m, i)]

\* btls_send_app, called by app_send until the last fragment is out.
btls_send_app(t, m) ==
    [t |-> [t EXCEPT !.sseq = @ + m.size],
     out |-> [i \in 1 .. m.size |-> seal_box([t EXCEPT !.sseq = @ + i - 1], Part(m, i))]]

btls_recv_app_ok(t, r) == opens(t, r) /\ r.inner.type = "APP" /\ Len(t.rx) < MaxFrags

btls_recv_app(t, r) == [opened(t) EXCEPT !.rx = IF r.inner.more THEN Append(@, r.inner) ELSE <<>>]

\* The message that the record completes.
Reassembled(t, r) == Append(t.rx, r.inner)
=============================================================================
