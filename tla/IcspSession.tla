---------------------------- MODULE IcspSession ----------------------------
(***************************************************************************)
(* An established ICSP association (icsp_session.c, icsp_life.c and the     *)
(* rekey of icsp_handshake.c): the initiator and the responder, each in its *)
(* receive loop (icsp_poll, icsp_relay), with keepalive, dead-peer timeout, *)
(* time-based rekey and shutdown, and DATA sent and received all the while. *)
(*                                                                          *)
(* The n-th rekey INIT carries ephemeral, timestamp and assoc_id n: the     *)
(* three are new at every icsp_rekey_start.  Ephemerals of the responder    *)
(* are numbered.  What DATA is sealed with is the key (the two ephemerals)  *)
(* and the assoc_id, which is in the nonce.  One stream is enough: the      *)
(* reset touches all of them alike.                                         *)
(***************************************************************************)
EXTENDS Integers, Sequences, FiniteSets

CONSTANTS
    HbInterval,   \* hb_interval_s
    DeadTimeout,  \* dead_timeout_s
    RekeyAfter,   \* rekey_interval_s
    Window,       \* 32: bits of rw_mask
    InitTsn,      \* values of the random first TSN
    LateKinds,    \* chunks that may be held up for any time, or for ever
    DupKinds,     \* chunks that may arrive again, at any time
    Troubles,     \* what else may happen, see Trouble
    MaxTrouble,   \* bound: late and repeated frames and troubles
    MaxMsg,       \* bound: messages of each end
    MaxRekeys     \* bound: rekeys

End == {"ini", "res"}
Peer(e) == IF e = "ini" THEN "res" ELSE "ini"

\* Another station's INIT is heard; icsp_send_pkt fails; a process is killed.
Trouble == {"stray", "send", "stop"}
ChunkType == {"INIT", "INIT_ACK", "COOKIE_ECHO", "COOKIE_ACK", "DATA", "SACK",
              "HEARTBEAT", "HEARTBEAT_ACK", "SHUTDOWN"}

ASSUME TimeAssumption == {HbInterval, DeadTimeout, RekeyAfter} \subseteq Nat \ {0}
ASSUME TsnAssumption == Window \in Nat \ {0} /\ InitTsn \subseteq Nat \ {0} /\ InitTsn # {}
ASSUME LinkAssumption == LateKinds \cup DupKinds \subseteq ChunkType /\ Troubles \subseteq Trouble
ASSUME BoundAssumption == {MaxTrouble, MaxMsg, MaxRekeys} \subseteq Nat

VARIABLES
    st,         \* [End -> state, or what the loop returned]
    key,        \* [End -> send_key/recv_key, as the ephemerals they come from]
    assoc,      \* [End -> assoc_id]
    eph,        \* eph_pub of the initiator
    answer,     \* the initiator's peer_eph, with the cookie that came with it
    lastTs,     \* the responder's last_init_ts; its INIT's peer_eph too
    reph,       \* responder ephemerals made so far
    dp,         \* [End -> data plane]
    silence,    \* [End -> now - last_rx]
    hbAge,      \* [End -> now - last_hb]
    keyAge,     \* the initiator's now - key_ts
    mac,        \* [End -> peer_mac is the peer's]
    chan,       \* [End -> frames on their way to it, which arrive in order and in time]
    late,       \* [End -> frames that arrive at any time]
    trouble, happened,
    sent,       \* [End -> messages sent]
    got,        \* [End -> messages its callback was given]
    must,       \* history: <<e, m>>: m was sent by e, and nothing known by now stands in its way
    early       \* history: the initiator sent DATA after its last COOKIE-ECHO, before COOKIE-ACK

assocVars == <<st, key, assoc, eph, answer, lastTs, reph>>
timeVars == <<silence, hbAge, keyAge, mac>>
envVars == <<trouble, happened>>
msgVars == <<sent, got, must, early>>
vars == <<assocVars, dp, timeVars, chan, late, envVars, msgVars>>

Live == {"established", "wait_ack", "wait_cookie", "wait_cookie_ack"}
Gone == {"shutdown", "closed", "dead", "err", "stopped"}
Key == [init : Nat, resp : Nat]
Seal == [key : Key, assoc : Nat]
seal(e) == [key |-> key[e], assoc |-> assoc[e]]

Frame == [type : ChunkType, n : Nat, eph : Nat, seal : Seal, tsn : Nat, seq : Nat, msg : Nat]
NoSeal == [key |-> [init |-> 0, resp |-> 0], assoc |-> 0]
Chunk(type) == [type |-> type, n |-> 0, eph |-> 0, seal |-> NoSeal, tsn |-> 0, seq |-> 0, msg |-> 0]
INIT(n) == [Chunk("INIT") EXCEPT !.n = n]
INIT_ACK(n, r) == [Chunk("INIT_ACK") EXCEPT !.n = n, !.eph = r]      \* n: the cookie
\* Mutant: the wrong chunk type.
COOKIE_ECHO_ack(n) == [Chunk("COOKIE_ACK") EXCEPT !.n = n]

COOKIE_ECHO(n) == [Chunk("COOKIE_ECHO") EXCEPT !.n = n]
DATA(s, d, m) == [Chunk("DATA") EXCEPT !.seal = s, !.tsn = d.tsn, !.seq = d.sseq, !.msg = m]

\* next_tsn, next_send_seq, next_recv_seq, rw_tsn, the TSNs set in rw_mask, cum_tsn.
DataPlane == [tsn : Nat, sseq : Nat, rseq : Nat, top : Nat, seen : SUBSET Nat, cum : Nat]
Fresh(t) == [tsn |-> t, sseq |-> 0, rseq |-> 0, top |-> 0, seen |-> {}, cum |-> 0]

TypeOK ==
    /\ st \in [End -> Live \cup Gone]
    /\ key \in [End -> Key] /\ assoc \in [End -> Nat]
    /\ eph \in Nat /\ answer \in [n : Nat, eph : Nat] /\ lastTs \in Nat /\ reph \in Nat
    /\ dp \in [End -> DataPlane]
    /\ \A e \in End : dp[e].cum <= dp[e].top /\ dp[e].seen \subseteq dp[e].top - Window + 1 .. dp[e].top
    /\ silence \in [End -> 0 .. DeadTimeout] /\ hbAge \in [End -> 0 .. HbInterval] /\ keyAge \in 0 .. RekeyAfter
    /\ mac \in [End -> BOOLEAN]
    /\ chan \in [End -> Seq(Frame)] /\ late \in [End -> SUBSET Frame]
    /\ trouble \in Nat /\ happened \subseteq Trouble \cup {"late", "dup"}
    /\ sent \in [End -> Nat] /\ got \in [End -> Seq(Nat)] /\ must \subseteq End \X Nat
    /\ early \in BOOLEAN

\* Both ends return from the handshake.
Init ==
    /\ st = [e \in End |-> "established"]
    /\ key = [e \in End |-> [init |-> 0, resp |-> 0]] /\ assoc = [e \in End |-> 0]
    /\ eph = 0 /\ answer = [n |-> 0, eph |-> 0] /\ lastTs = 0 /\ reph = 0
    /\ dp \in [End -> {Fresh(t) : t \in InitTsn}]
    /\ silence = [e \in End |-> 0] /\ hbAge = [e \in End |-> HbInterval] /\ keyAge = 0
    /\ mac = [e \in End |-> TRUE]
    /\ chan = [e \in End |-> << >>] /\ late = [e \in End |-> {}]
    /\ trouble = 0 /\ happened = {}
    /\ sent = [e \in End |-> 0] /\ got = [e \in End |-> << >>] /\ must = {} /\ early = FALSE

-----------------------------------------------------------------------------
(* Frames, and ways to stop.                                                 *)

Happens(k) ==
    /\ trouble < MaxTrouble /\ trouble' = trouble + 1
    /\ happened' = happened \cup {k}

\* Frames to a process that has left are nobody's.
To(e, fs) == IF st[Peer(e)] \in Live THEN fs ELSE << >>

\* What e can receive next.
Arriving(e) == late[e] \cup (IF chan[e] = << >> THEN {} ELSE {Head(chan[e])})

\* m is received, and may come again, and the frames fs are sent.
Take(e, m, fs) ==
    \/ /\ m \in late[e]
       /\ late' = [late EXCEPT ![e] = @ \ {m}] /\ UNCHANGED envVars
       /\ chan' = [chan EXCEPT ![Peer(e)] = @ \o To(e, fs)]
    \/ /\ chan[e] # << >> /\ m = Head(chan[e])
       /\ \/ UNCHANGED <<late, envVars>>
          \/ /\ m.type \in DupKinds /\ Happens("dup")
             /\ late' = [late EXCEPT ![e] = @ \cup {m}]
       /\ chan' = [chan EXCEPT ![e] = Tail(@), ![Peer(e)] = @ \o To(e, fs)]

Put(e, fs) == chan' = [chan EXCEPT ![Peer(e)] = @ \o (IF mac[e] THEN To(e, fs) ELSE << >>)]

Leave(e, r) ==
    /\ st' = [st EXCEPT ![e] = r]
    /\ chan' = [chan EXCEPT ![e] = << >>] /\ late' = [late EXCEPT ![e] = {}]

Delay(e) ==
    /\ chan[e] # << >> /\ Head(chan[e]).type \in LateKinds /\ Happens("late")
    /\ chan' = [chan EXCEPT ![e] = Tail(@)] /\ late' = [late EXCEPT ![e] = @ \cup {Head(chan[e])}]
    /\ UNCHANGED <<assocVars, dp, timeVars, msgVars>>

\* The process is killed.
Stop(e) ==
    /\ st[e] \in Live /\ "stop" \in Troubles /\ Happens("stop")
    /\ Leave(e, "stopped")
    /\ UNCHANGED <<key, assoc, eph, answer, lastTs, reph, dp, timeVars, msgVars>>

-----------------------------------------------------------------------------
(* icsp_handle_frame: last_rx and peer_mac first, then the chunk.            *)

\* Mutant: only DATA counts as life.
Heard_data(e, m) ==
    /\ silence' = [silence EXCEPT ![e] = IF m.type = "DATA" THEN 0 ELSE @] /\ mac' = [mac EXCEPT ![e] = TRUE]
    /\ UNCHANGED hbAge

Heard(e, m) ==
    /\ silence' = [silence EXCEPT ![e] = 0] /\ mac' = [mac EXCEPT ![e] = TRUE]
    /\ UNCHANGED hbAge

\* Mutant: an end answers a rekey with what its streams were at.
data_plane_reset_none(d, t) == [d EXCEPT !.tsn = t]

\* Mutant: cum_tsn is forgotten.
data_plane_reset_cum(d, t) == [Fresh(t) EXCEPT !.cum = d.cum]

data_plane_reset(d, t) == Fresh(t)

\* Heartbeats are answered in every state; the rest of the loop has nothing to do.
RecvHeartbeat(e, m) ==
    /\ m.type = "HEARTBEAT"
    /\ Heard(e, m) /\ Take(e, m, <<Chunk("HEARTBEAT_ACK")>>)
    /\ UNCHANGED <<assocVars, dp, keyAge, msgVars>>

\* Chunks that only show that the peer is there: acknowledgements (sendq is part of
\* IcspData), and the handshake's in a state that does not wait for them.
RecvOther(e, m) ==
    /\ \/ m.type \in {"HEARTBEAT_ACK", "SACK"}
       \/ m.type = "INIT" /\ st[e] # "established"
       \/ m.type = "INIT_ACK" /\ st[e] # "wait_ack"
       \/ m.type = "COOKIE_ECHO" /\ st[e] # "wait_cookie"
       \/ m.type = "COOKIE_ACK" /\ st[e] # "wait_cookie_ack"
    /\ Heard(e, m) /\ Take(e, m, << >>)
    /\ UNCHANGED <<assocVars, dp, keyAge, msgVars>>

\* icsp_life_handle
RecvShutdown(e, m) ==
    /\ m.type = "SHUTDOWN"
    /\ Leave(e, "closed") /\ Heard(e, m)
    /\ UNCHANGED <<key, assoc, eph, answer, lastTs, reph, dp, keyAge, envVars, msgVars>>

-----------------------------------------------------------------------------
(* Rekey.                                                                    *)

\* Mutant: off by one.
init_fresh_later(n) == n > lastTs + 1

\* init_check: timestamps increase.
init_fresh(n) == n > lastTs

\* icsp_rekey_server_step, INIT: the new keys are in use from now on.
RekeyInit(e, m) ==
    /\ m.type = "INIT" /\ st[e] = "established" /\ init_fresh(m.n)
    /\ lastTs' = m.n /\ reph' = reph + 1
    /\ assoc' = [assoc EXCEPT ![e] = m.n]
    /\ key' = [key EXCEPT ![e] = [init |-> m.n, resp |-> reph']]
    /\ st' = [st EXCEPT ![e] = "wait_cookie"]
    /\ Heard(e, m) /\ Take(e, m, <<INIT_ACK(m.n, reph')>>)
    /\ UNCHANGED <<eph, answer, dp, keyAge, msgVars>>

\* icsp_rekey_client_step, INIT-ACK.
RekeyInitAck(e, m) ==
    /\ m.type = "INIT_ACK" /\ st[e] = "wait_ack"
    /\ answer' = [n |-> m.n, eph |-> m.eph]
    /\ st' = [st EXCEPT ![e] = "wait_cookie_ack"]
    /\ early' = FALSE
    /\ Heard(e, m) /\ Take(e, m, <<COOKIE_ECHO(m.n)>>)
    /\ UNCHANGED <<key, assoc, eph, lastTs, reph, dp, keyAge, sent, got, must>>

\* Mutant: any cookie will do.
cookie_valid_any(n) == n <= lastTs

\* cookie_make from peer_id and peer_eph.
cookie_valid(n) == n = lastTs

\* icsp_rekey_server_step, COOKIE-ECHO.
RekeyCookieEcho(e, m) ==
    /\ m.type = "COOKIE_ECHO" /\ st[e] = "wait_cookie" /\ cookie_valid(m.n)
    /\ \E t \in InitTsn : dp' = [dp EXCEPT ![e] = data_plane_reset(@, t)]
    /\ st' = [st EXCEPT ![e] = "established"]
    /\ Heard(e, m) /\ Take(e, m, <<Chunk("COOKIE_ACK")>>)
    /\ UNCHANGED <<key, assoc, eph, answer, lastTs, reph, keyAge, msgVars>>

\* icsp_rekey_client_step, COOKIE-ACK: icsp_derive_key from what INIT-ACK brought.
RekeyCookieAck(e, m) ==
    /\ m.type = "COOKIE_ACK" /\ st[e] = "wait_cookie_ack"
    /\ key' = [key EXCEPT ![e] = [init |-> eph, resp |-> answer.eph]] /\ keyAge' = 0
    /\ \E t \in InitTsn : dp' = [dp EXCEPT ![e] = data_plane_reset(@, t)]
    /\ st' = [st EXCEPT ![e] = "established"]
    /\ Heard(e, m) /\ Take(e, m, << >>)
    /\ UNCHANGED <<assoc, eph, answer, lastTs, reph, msgVars>>

\* Either step returns -1: ICSP_POLL_ERR, and the application drops the association.
RekeyRefuse(e, m) ==
    /\ \/ m.type = "INIT" /\ st[e] = "established" /\ ~init_fresh(m.n)
       \/ m.type = "COOKIE_ECHO" /\ st[e] = "wait_cookie" /\ ~cookie_valid(m.n)
    /\ Leave(e, "err") /\ Heard(e, m)
    /\ UNCHANGED <<key, assoc, eph, answer, lastTs, reph, dp, keyAge, envVars, msgVars>>

\* Another client's INIT: "different peer: not a rekey" ends the association; in the
\* other states it only redirects peer_mac.
StrayInit(e) ==
    /\ st[e] \in Live /\ "stray" \in Troubles /\ Happens("stray")
    /\ IF st[e] = "established" THEN Leave(e, "err") ELSE UNCHANGED <<st, chan, late>>
    /\ silence' = [silence EXCEPT ![e] = 0] /\ mac' = [mac EXCEPT ![e] = FALSE]
    /\ UNCHANGED <<key, assoc, eph, answer, lastTs, reph, dp, hbAge, keyAge, msgVars>>

-----------------------------------------------------------------------------
(* DATA.                                                                     *)

max(a, b) == IF a > b THEN a ELSE b

Admitted(d, t) == t > d.top \/ (d.top - t < Window /\ t \notin d.seen)

rw_slide(d, t) ==
    [d EXCEPT !.top = max(@, t), !.seen = {u \in @ \cup {t} : max(d.top, t) - u < Window}]

\* Mutant: a frame of an old key is taken.
opens_any(e, m) == TRUE

opens(e, m) == m.seal = seal(e)

\* icsp_data_handle.  The window moves before the box is opened.  A message out of turn
\* goes to rcvq, which nothing reads.
RecvData(e, m) ==
    LET d == rw_slide(dp[e], m.tsn)
        in_turn == m.seq = d.rseq IN
    /\ m.type = "DATA" /\ Heard(e, m)
    /\ \/ /\ ~Admitted(dp[e], m.tsn)
          /\ Take(e, m, << >>)
          /\ UNCHANGED <<dp, got>>
       \/ /\ Admitted(dp[e], m.tsn) /\ ~opens(e, m)
          /\ dp' = [dp EXCEPT ![e] = d]
          /\ Take(e, m, << >>)
          /\ UNCHANGED got
       \/ /\ Admitted(dp[e], m.tsn) /\ opens(e, m)
          /\ dp' = [dp EXCEPT ![e] = [d EXCEPT !.cum = max(@, m.tsn),
                                               !.rseq = IF in_turn THEN @ + 1 ELSE @]]
          /\ got' = [got EXCEPT ![e] = IF in_turn THEN Append(@, m.msg) ELSE @]
          /\ Take(e, m, IF m.tsn > d.cum THEN <<Chunk("SACK")>> ELSE << >>)
    /\ UNCHANGED <<assocVars, keyAge, sent, must, early>>

\* relay_send_line, icsp_data_send.
DataSend(e) ==
    /\ st[e] \in Live /\ sent[e] < MaxMsg
    /\ sent' = [sent EXCEPT ![e] = @ + 1]
    /\ dp' = [dp EXCEPT ![e].tsn = @ + 1, ![e].sseq = @ + 1]
    /\ must' = IF (\A f \in End : st[f] = "established") /\ ~(e = "ini" /\ early)
               THEN must \cup {<<e, sent'[e]>>} ELSE must
    /\ early' = (early \/ (e = "ini" /\ st[e] = "wait_cookie_ack"))
    /\ Put(e, <<DATA(seal(e), dp[e], sent'[e])>>)
    /\ UNCHANGED <<assocVars, timeVars, late, envVars, got>>

\* A DATA or handshake chunk cannot be sent.
SendFails(e) ==
    /\ st[e] \in Live /\ "send" \in Troubles /\ Happens("send")
    /\ Leave(e, "err")
    /\ UNCHANGED <<key, assoc, eph, answer, lastTs, reph, dp, timeVars, msgVars>>

\* End of input: icsp_shutdown_send.
Shutdown(e) ==
    /\ st[e] \in Live
    /\ st' = [st EXCEPT ![e] = "shutdown"]
    /\ chan' = [chan EXCEPT ![e] = << >>,
                            ![Peer(e)] = @ \o (IF mac[e] THEN To(e, <<Chunk("SHUTDOWN")>>) ELSE << >>)]
    /\ late' = [late EXCEPT ![e] = {}]
    /\ UNCHANGED <<key, assoc, eph, answer, lastTs, reph, dp, timeVars, envVars, msgVars>>

-----------------------------------------------------------------------------
(* icsp_keepalive_tick: a receive has timed out.  Frames may be on their way.  *)

\* Mutant: not while a rekey is under way.
dead_due_settled(e) == st[e] = "established" /\ silence[e] >= DeadTimeout

dead_due(e) == silence[e] >= DeadTimeout
hb_due(e) == hbAge[e] >= HbInterval
rekey_due(e) == e = "ini" /\ st[e] = "established" /\ keyAge >= RekeyAfter /\ eph < MaxRekeys

Dead(e) ==
    /\ st[e] \in Live /\ dead_due(e)
    /\ Leave(e, "dead")
    /\ UNCHANGED <<key, assoc, eph, answer, lastTs, reph, dp, timeVars, envVars, msgVars>>

\* DATA on its way to e: once e starts a rekey, none of it opens.
Overtaken(e) == {<<Peer(e), chan[e][i].msg>> : i \in {j \in 1 .. Len(chan[e]) : chan[e][j].type = "DATA"}}

\* icsp_rekey_start: assoc_id and ephemeral are new before the INIT is sent.
KeepaliveTick(e) ==
    /\ st[e] \in Live /\ ~dead_due(e) /\ (hb_due(e) \/ rekey_due(e))
    /\ hbAge' = [hbAge EXCEPT ![e] = IF hb_due(e) THEN 0 ELSE @]
    /\ LET hb == IF hb_due(e) THEN <<Chunk("HEARTBEAT")>> ELSE << >> IN
       IF rekey_due(e)
       THEN /\ eph' = eph + 1 /\ assoc' = [assoc EXCEPT ![e] = eph']
            /\ must' = must \ Overtaken(e)
            /\ \/ /\ st' = [st EXCEPT ![e] = "wait_ack"]
                  /\ Put(e, hb \o <<INIT(eph')>>)
                  /\ UNCHANGED envVars
               \/ /\ "send" \in Troubles /\ Happens("send")
                  /\ Put(e, hb)
                  /\ UNCHANGED st
       ELSE Put(e, hb) /\ UNCHANGED <<st, eph, assoc, must, envVars>>
    /\ UNCHANGED <<key, answer, lastTs, reph, dp, silence, keyAge, mac, late, sent, got, early>>

\* Polls are short (200 or 250 ms): what is due is done before the next second.
Tick ==
    /\ \A e \in End : chan[e] = << >> /\ (st[e] \in Live => ~(dead_due(e) \/ hb_due(e) \/ rekey_due(e)))
    /\ \E e \in End : st[e] \in Live
    /\ silence' = [e \in End |-> IF silence[e] < DeadTimeout THEN silence[e] + 1 ELSE silence[e]]
    /\ hbAge' = [e \in End |-> IF hbAge[e] < HbInterval THEN hbAge[e] + 1 ELSE hbAge[e]]
    /\ keyAge' = IF keyAge < RekeyAfter THEN keyAge + 1 ELSE keyAge
    /\ UNCHANGED <<assocVars, dp, mac, chan, late, envVars, msgVars>>

-----------------------------------------------------------------------------
HandleFrame(e) ==
    \E m \in Arriving(e) :
        \/ RecvHeartbeat(e, m) \/ RecvOther(e, m) \/ RecvShutdown(e, m) \/ RecvData(e, m)
        \/ RekeyInit(e, m) \/ RekeyInitAck(e, m) \/ RekeyCookieEcho(e, m) \/ RekeyCookieAck(e, m)
        \/ RekeyRefuse(e, m)

Poll(e) == HandleFrame(e) \/ Dead(e) \/ KeepaliveTick(e)

Next ==
    \/ \E e \in End :
        \/ Poll(e) \/ DataSend(e) \/ SendFails(e) \/ Shutdown(e) \/ Stop(e) \/ StrayInit(e)
        \/ Delay(e)
    \/ Tick

Spec == Init /\ [][Next]_vars

\* Both ends poll, and time passes.
FairSpec == Spec /\ (\A e \in End : WF_vars(Poll(e))) /\ WF_vars(Tick)

-----------------------------------------------------------------------------
(* Properties.                                                               *)

\* Whenever both ends are out of their rekeys they seal with the same key and the same
\* assoc_id, whatever was lost, late, out of order or repeated on the way (a COOKIE-ACK that
\* comes again and an INIT that could not be sent excepted).
SealsAgree ==
    (\A e \in End : st[e] = "established") /\ "send" \notin happened => seal("ini") = seal("res")

\* The rekey never ends an association by itself: ICSP_POLL_ERR takes a repeated frame, another
\* station's INIT or a failing send.
ErrOnlyIfDisturbed ==
    (\E e \in End : st[e] = "err") => happened \cap {"dup", "stray", "send"} # {}

\* No message is given to the callback twice, although every rekey starts seqs and window
\* over.
DeliveredOnce ==
    \A e \in End : \A i, j \in 1 .. Len(got[e]) : got[e][i] = got[e][j] => i = j

\* A peer that polls is not declared dead, although frames are lost, as long as they are fewer
\* than the heartbeats and their answers in a DeadTimeout.
NoFalseDeath ==
    \A e \in End : st[e] = "dead" => st[Peer(e)] \notin Live \/ "stray" \in happened

\* Liveness: when one end is gone, for whatever reason, the other ends too.
GoneIsNoticed == (\E e \in End : st[e] \in Gone) ~> (\A e \in End : st[e] \in Gone)

Over == (\E e \in End : st[e] \in Gone) \/ happened # {}

\* Liveness: a rekey is completed when nothing is lost.
RekeyCompletes == st["ini"] = "wait_ack" ~> (\A e \in End : st[e] = "established") \/ Over

\* Liveness: a message sent while both ends are established arrives when nothing is lost,
\* however many rekeys there have been, unless the initiator starts a rekey while it is on its
\* way there, or sent DATA between its last COOKIE-ECHO and the COOKIE-ACK and so moved the
\* responder's new window to where the old TSNs were.
Arrived == \A em \in must : \E i \in 1 .. Len(got[Peer(em[1])]) : got[Peer(em[1])][i] = em[2]
Flows == ~Arrived ~> (Arrived \/ Over)
=============================================================================
