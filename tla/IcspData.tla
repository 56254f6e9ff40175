------------------------------ MODULE IcspData ------------------------------
(***************************************************************************)
(* The ICSP data path (c/src/ICSP/icsp_data.c, icsp_life.c, and the DATA    *)
(* and SACK part of icsp_handle_frame): one sender and one receiver of an   *)
(* established association, in one direction, over a network that may lose, *)
(* duplicate and reorder.                                                   *)
(*                                                                          *)
(* A message is a number, its place in the order of the icsp_data_send      *)
(* calls; 0 is a payload all of whose bytes are 0.  Encryption is not       *)
(* shown: the keys are in place on both sides and every frame opens.        *)
(***************************************************************************)
EXTENDS Integers, Sequences, FiniteSets

CONSTANTS
    Stream,       \* stream ids the sender's application uses
    PeerStreams,  \* streams the receiver's application already sends on
    MaxStreams,   \* ICSP_MAX_STREAMS, 8
    SendQ,        \* ICSP_SENDQ, 16
    RcvQ,         \* ICSP_RCVQ, 16
    Window,       \* replay window, 32 bits
    TsnMod,       \* 2^32
    SeqMod,       \* 2^16
    InitTsn,      \* the values randombytes may give the first TSN
    Retransmits,  \* the application calls icsp_data_retransmit (bite, icsp_test; not icsp_relay)
    Timely,       \* frames arrive in the order sent, and within the retransmission timeout
    Faults,       \* what may go wrong, see FaultKind
    LossStreams,  \* streams whose DATA the network may lose
    ForeignTsn,   \* TSNs of DATA frames heard that do not open with recv_key
    MaxFaults,    \* bound: faults
    MaxMsg        \* bound: messages per stream

ASSUME SizeAssumption ==
    /\ MaxStreams \in Nat /\ SendQ \in Nat /\ RcvQ \in Nat
    /\ Window \in Nat \ {0} /\ TsnMod \in Nat \ {0} /\ SeqMod \in Nat \ {0}
\* A DATA frame or a SACK lost (sack_loss_pct), a frame delivered once more, an
\* icsp_stream_reset call, an icsp_send_pkt failure, a DATA frame not meant for us.
FaultKind == {"data", "sack", "dup", "reset", "fail", "foreign"}

ASSUME TsnAssumption == InitTsn \cup ForeignTsn \subseteq 0 .. TsnMod - 1
ASSUME ModeAssumption == Retransmits \in BOOLEAN /\ Timely \in BOOLEAN
ASSUME BoundAssumption == Faults \subseteq FaultKind /\ MaxFaults \in Nat /\ MaxMsg \in Nat

VARIABLES
    \* sender
    nextTsn,    \* next_tsn
    sstreams,   \* the sender's stream table
    sendSeq,    \* [Stream -> next_send_seq]
    sendq,      \* sendq[0 .. n_sendq-1]
    \* receiver
    rstreams,   \* the receiver's stream table
    recvSeq,    \* [Stream -> next_recv_seq]
    rwTsn,      \* replay window: highest TSN seen
    rwMask,     \* replay window: offsets below rwTsn whose bit is set
    cumTsn,     \* cum_tsn
    rcvq,       \* rcvq[0 .. n_rcvq-1]
    \* network
    net,        \* DATA and STREAM-RESET frames in flight
    sacks,      \* SACKs in flight: their cumulative TSNs
    faults,     \* faults so far
    \* history
    calls,      \* icsp_data_send and icsp_stream_reset calls so far
    sent,       \* [Stream -> messages given to icsp_data_send]
    wired,      \* the messages whose packet left the sender
    delivered   \* [Stream -> on_data calls]

senderVars == <<nextTsn, sstreams, sendSeq, sendq>>
receiverVars == <<rstreams, recvSeq, rwTsn, rwMask, cumTsn, rcvq>>
netVars == <<net, sacks, faults>>
histVars == <<calls, sent, wired, delivered>>
vars == <<senderVars, receiverVars, netVars, histVars>>

Tsn == 0 .. TsnMod - 1
SeqNo == 0 .. SeqMod - 1
TsnAfter(t) == (t + 1) % TsnMod     \* uint32_t ++
SeqAfter(q) == (q + 1) % SeqMod     \* uint16_t ++
Blank == 0      \* the zero bytes of a sendq slot whose data was never written

Frame == [kind : {"DATA", "STREAM_RESET"}, id : Nat, tsn : Tsn, stream : Stream, seq : SeqNo, data : Nat]
SendEntry == [tsn : Tsn, stream : Stream, seq : SeqNo, id : Nat, acked : BOOLEAN]
RcvEntry == [tsn : Tsn, stream : Stream, seq : SeqNo, data : Nat]
Delivery == [tsn : Tsn, id : Nat, data : Nat]

TypeOK ==
    /\ nextTsn \in Tsn /\ sstreams \subseteq Stream
    /\ sendSeq \in [Stream -> SeqNo] /\ sendq \in Seq(SendEntry)
    /\ rstreams \subseteq (Stream \cup PeerStreams)
    /\ recvSeq \in [Stream -> SeqNo]
    /\ rwTsn \in Tsn /\ rwMask \subseteq 0 .. Window - 1
    /\ cumTsn \in Tsn /\ rcvq \in Seq(RcvEntry)
    /\ net \subseteq Frame /\ sacks \subseteq Tsn
    /\ faults \in Nat
    /\ calls \in Nat /\ wired \subseteq Nat
    /\ sent \in [Stream -> Seq(Nat)] /\ delivered \in [Stream -> Seq(Delivery)]

Init ==
    /\ nextTsn \in InitTsn /\ sstreams = {}
    /\ sendSeq = [s \in Stream |-> 0] /\ sendq = <<>>
    /\ rstreams = PeerStreams /\ recvSeq = [s \in Stream |-> 0]
    /\ rwTsn = 0 /\ rwMask = {} /\ cumTsn = 0 /\ rcvq = <<>>
    /\ net = {} /\ sacks = {} /\ faults = 0
    /\ calls = 0 /\ wired = {}
    /\ sent = [s \in Stream |-> <<>>] /\ delivered = [s \in Stream |-> <<>>]

\* One more fault of this kind.
Fault(kind) == kind \in Faults /\ faults < MaxFaults /\ faults' = faults + 1

-----------------------------------------------------------------------------
(* The stream table: at most MaxStreams entries, shared by both directions.  *)

get_stream(table, s) == s \in table \/ Cardinality(table) < MaxStreams

-----------------------------------------------------------------------------
(* Sender.                                                                   *)

DATA(e, data) ==
    [kind |-> "DATA", id |-> e.id, tsn |-> e.tsn, stream |-> e.stream, seq |-> e.seq, data |-> data]

\* What icsp_data_send writes into a sendq slot: everything but the bytes.
SendEntryOf(s) ==
    [tsn |-> nextTsn, stream |-> s, seq |-> sendSeq[s], id |-> calls + 1, acked |-> FALSE]

\* icsp_data_send.  A full sendq only loses the chance to retransmit.  icsp_send_pkt
\* comes last: when it fails (a packet over ICSP_MAX_PAYLOAD, a full device queue)
\* the call returns -1 with the TSN and the stream's seq already used up.
DataSend(s) ==
    LET e == SendEntryOf(s) IN
    /\ Len(sent[s]) < MaxMsg
    /\ get_stream(sstreams, s)
    /\ sstreams' = sstreams \cup {s}
    /\ nextTsn' = TsnAfter(nextTsn)
    /\ sendSeq' = [sendSeq EXCEPT ![s] = SeqAfter(@)]
    /\ sendq' = IF Len(sendq) < SendQ THEN Append(sendq, e) ELSE sendq
    /\ calls' = calls + 1
    /\ sent' = [sent EXCEPT ![s] = Append(@, e.id)]
    /\ \/ net' = net \cup {DATA(e, e.id)} /\ wired' = wired \cup {e.id} /\ UNCHANGED faults
       \/ Fault("fail") /\ UNCHANGED <<net, wired>>
    /\ UNCHANGED <<receiverVars, sacks, delivered>>

\* Mutant: the loop over the sendq stops one entry short.
Unacked_short == {i \in DOMAIN sendq : i < Len(sendq) /\ ~sendq[i].acked}

Unacked == {i \in DOMAIN sendq : ~sendq[i].acked}

\* icsp_data_retransmit, when the entries "old" have waited for timeout_s: same
\* TSN, stream and seq, and whatever the slot's data array holds.
DataRetransmit(old) ==
    /\ Retransmits /\ (Timely => net = {} /\ sacks = {})
    /\ net' = net \cup {DATA(sendq[i], Blank) : i \in old}
    /\ UNCHANGED <<senderVars, receiverVars, sacks, faults, histVars>>

\* The SACK branch of icsp_data_handle.
RecvSack(cum) ==
    /\ sendq' = [i \in DOMAIN sendq |->
                    [sendq[i] EXCEPT !.acked = @ \/ sendq[i].tsn <= cum]]
    /\ sacks' = sacks \ {cum}
    /\ UNCHANGED <<nextTsn, sstreams, sendSeq, receiverVars, net, faults, histVars>>

icsp_all_acked == Unacked = {}

STREAM_RESET(id, s) ==
    [kind |-> "STREAM_RESET", id |-> id, tsn |-> 0, stream |-> s, seq |-> 0, data |-> 0]

\* icsp_stream_reset only tells the peer; the caller's own counters stay.
StreamReset(s) ==
    /\ Fault("reset")
    /\ calls' = calls + 1
    /\ net' = net \cup {STREAM_RESET(calls + 1, s)}
    /\ UNCHANGED <<senderVars, receiverVars, sacks, sent, wired, delivered>>

-----------------------------------------------------------------------------
(* Network.                                                                  *)

Arrives(m) == Timely => \A x \in net : m.id <= x.id

Taken(m) ==
    \/ net' = net \ {m} /\ UNCHANGED faults
    \/ Fault("dup") /\ UNCHANGED net

Lose(m) ==
    /\ m.kind = "DATA" /\ m.stream \in LossStreams /\ Fault("data")
    /\ net' = net \ {m}
    /\ UNCHANGED <<senderVars, receiverVars, sacks, histVars>>

LoseSack(cum) ==
    /\ Fault("sack") /\ sacks' = sacks \ {cum}
    /\ UNCHANGED <<senderVars, receiverVars, net, histVars>>

-----------------------------------------------------------------------------
(* Receiver: icsp_handle_frame, icsp_data_handle, icsp_life_handle.          *)

\* Mutant: the window one TSN too wide.
Replayed_wide(t) == t <= rwTsn /\ (rwTsn - t > Window \/ rwTsn - t \in rwMask)

\* The sliding window: comparisons are on plain uint32 values.
Replayed(t) == t <= rwTsn /\ (rwTsn - t >= Window \/ rwTsn - t \in rwMask)

\* Mutant: the shifted mask without the bit of the new TSN.
rw_mark_unset(t) ==
    IF t > rwTsn
    THEN /\ rwTsn' = t
         /\ rwMask' = {o \in 0 .. Window - 1 : o - (t - rwTsn) \in rwMask}
    ELSE /\ rwTsn' = rwTsn
         /\ rwMask' = rwMask \cup {rwTsn - t}

rw_mark(t) ==
    IF t > rwTsn
    THEN /\ rwTsn' = t
         /\ rwMask' = {0} \cup {o \in 0 .. Window - 1 : o - (t - rwTsn) \in rwMask}
    ELSE /\ rwTsn' = rwTsn
         /\ rwMask' = rwMask \cup {rwTsn - t}

\* Mutants: cum_before read too late, so that no SACK is ever due; the SACK names
\* the next TSN expected instead of the last one received.
cum_and_sack_late(t) ==
    cumTsn' = (IF t > cumTsn THEN t ELSE cumTsn) /\ UNCHANGED sacks
cum_and_sack_next(t) ==
    /\ cumTsn' = IF t > cumTsn THEN t ELSE cumTsn
    /\ sacks' = IF t > cumTsn THEN sacks \cup {TsnAfter(t)} ELSE sacks

\* cum_tsn follows the highest TSN opened, gaps or not; when it moved, a SACK.
cum_and_sack(t) ==
    /\ cumTsn' = IF t > cumTsn THEN t ELSE cumTsn
    /\ sacks' = IF t > cumTsn THEN sacks \cup {t} ELSE sacks

\* Mutants: any later seq; head-of-line blocking across streams.
Expected_later(m) == get_stream(rstreams, m.stream) /\ m.seq >= recvSeq[m.stream]
Expected_hol(m) == get_stream(rstreams, m.stream) /\ m.seq = recvSeq[m.stream] /\ rcvq = <<>>

\* The ordered delivery gate of a stream.
Expected(m) == get_stream(rstreams, m.stream) /\ m.seq = recvSeq[m.stream]

\* Outside the window, or seen before: skipped, and not acknowledged again.
RecvReplay(m) ==
    /\ m.kind = "DATA" /\ Arrives(m) /\ Replayed(m.tsn)
    /\ Taken(m)
    /\ UNCHANGED <<senderVars, receiverVars, sacks, histVars>>

\* The expected seq of its stream: delivered to on_data.
RecvInOrder(m) ==
    /\ m.kind = "DATA" /\ Arrives(m) /\ ~Replayed(m.tsn)
    /\ Expected(m)
    /\ rw_mark(m.tsn) /\ cum_and_sack(m.tsn)
    /\ rstreams' = rstreams \cup {m.stream}
    /\ recvSeq' = [recvSeq EXCEPT ![m.stream] = SeqAfter(@)]
    /\ delivered' = [delivered EXCEPT ![m.stream] = Append(@, [tsn |-> m.tsn, id |-> m.id, data |-> m.data])]
    /\ Taken(m)
    /\ UNCHANGED <<senderVars, rcvq, calls, sent, wired>>

\* Another seq, or no room in the stream table: kept in rcvq while it has room
\* (nothing ever reads it back), and acknowledged all the same.
RecvOutOfOrder(m) ==
    /\ m.kind = "DATA" /\ Arrives(m) /\ ~Replayed(m.tsn)
    /\ ~Expected(m)
    /\ rw_mark(m.tsn) /\ cum_and_sack(m.tsn)
    /\ IF get_stream(rstreams, m.stream)
       THEN /\ rstreams' = rstreams \cup {m.stream}
            /\ rcvq' = IF Len(rcvq) < RcvQ
                       THEN Append(rcvq, [tsn |-> m.tsn, stream |-> m.stream, seq |-> m.seq, data |-> m.data])
                       ELSE rcvq
       ELSE UNCHANGED <<rstreams, rcvq>>
    /\ Taken(m)
    /\ UNCHANGED <<senderVars, recvSeq, histVars>>

\* icsp_life_handle: a known stream starts over at seq 0.
RecvStreamReset(m) ==
    /\ m.kind = "STREAM_RESET" /\ Arrives(m)
    /\ recvSeq' = IF m.stream \in rstreams THEN [recvSeq EXCEPT ![m.stream] = 0] ELSE recvSeq
    /\ Taken(m)
    /\ UNCHANGED <<senderVars, rstreams, rwTsn, rwMask, cumTsn, rcvq, sacks, histVars>>

\* A DATA frame that is not for this association (the host's own frame looped
\* back, another association's): the window is moved before the box fails to open.
RecvForeign(t) ==
    /\ Fault("foreign")
    /\ ~Replayed(t) /\ rw_mark(t)
    /\ UNCHANGED <<senderVars, rstreams, recvSeq, cumTsn, rcvq, net, sacks, histVars>>

Recv(m) == RecvReplay(m) \/ RecvInOrder(m) \/ RecvOutOfOrder(m) \/ RecvStreamReset(m)

-----------------------------------------------------------------------------
Next ==
    \/ \E s \in Stream : DataSend(s) \/ StreamReset(s)
    \/ \E old \in SUBSET Unacked : DataRetransmit(old)
    \/ \E m \in net : Recv(m) \/ Lose(m)
    \/ \E cum \in sacks : RecvSack(cum) \/ LoseSack(cum)
    \/ \E t \in ForeignTsn : RecvForeign(t)

Spec == Init /\ [][Next]_vars

\* Both ends poll for frames, and the sender retransmits when polling times out.
FairSpec ==
    /\ Spec
    /\ WF_vars(\E m \in net : Recv(m))
    /\ WF_vars(\E cum \in sacks : RecvSack(cum))
    /\ WF_vars(DataRetransmit(Unacked))
-----------------------------------------------------------------------------
(* Properties.                                                               *)

\* The application's view of a stream, message for message.
Fifo == INSTANCE StreamFifo WITH
            delivered <- [s \in Stream |-> [i \in DOMAIN delivered[s] |-> delivered[s][i].id]]

\* Before the 16-bit seq wraps, a stream is a FIFO: whatever the network loses,
\* repeats or reorders and whatever is retransmitted or reset, the callback gets the
\* messages of a prefix of what was sent, each once (payloads apart).
IsFifo == Fifo!Spec

\* The replay window lets no TSN through twice: no message reaches the callback
\* again, whether the network, a retransmission or a stream reset brings it back.
DeliveredOnce ==
    \A s, t \in Stream : \A i \in DOMAIN delivered[s], j \in DOMAIN delivered[t] :
        delivered[s][i].tsn = delivered[t][j].tsn => s = t /\ i = j

\* The messages whose turn at the callback has come, with whatever payload; and
\* those that came with their own.
Arrived == UNION {{delivered[s][i].id : i \in DOMAIN delivered[s]} : s \in Stream}
Intact == UNION {{delivered[s][i].data : i \in DOMAIN delivered[s]} : s \in Stream}
Messages == 1 .. (Cardinality(Stream) * MaxMsg + MaxFaults)
SentOn(s) == {sent[s][i] : i \in DOMAIN sent[s]}

\* An acknowledged message of a stream the network spares is one the peer's
\* application got (icsp_all_acked is read as "delivered" by icsp_test).
AckedIsDelivered ==
    \A i \in DOMAIN sendq :
        sendq[i].acked /\ sendq[i].stream \notin LossStreams => sendq[i].id \in Arrived

\* Liveness, and icsp_data.c 10, "stream A never blocks stream B": on a network that
\* keeps order, every message of a stream it spares reaches the callback, whatever
\* happens to the others.
EveryMessageArrives ==
    \A s \in Stream \ LossStreams : \A x \in Messages : x \in SentOn(s) ~> x \in Arrived

\* Liveness: everything queued is acknowledged, so that icsp_all_acked comes true.
EverythingAcked == []<>icsp_all_acked

\* Liveness: the loss of the latest message is always made good: while nothing was
\* sent after it and everything before it has arrived, it arrives.
TailLossRecovered ==
    \A x \in Messages :
        (x \in wired /\ x = calls /\ wired \ {x} \subseteq Arrived) ~> (x \in Arrived \/ calls > x)

\* docs/icsp-spec.md, Phase 2, "synthetic loss is recovered": every message that left
\* the sender is in the end delivered, as it was sent.
LossRecovered == \A x \in Messages : x \in wired ~> x \in Intact
-----------------------------------------------------------------------------
(* What DeliveredOnce and IsFifo rest on; proved in IcspDataProofs.          *)

\* Every TSN that reached the callback is still refused by the replay window.
WindowInv == \A s \in Stream : \A i \in DOMAIN delivered[s] : Replayed(delivered[s][i].tsn)

\* What the copies of a message say, in flight and in the sendq.
CopyOf(x) == [stream |-> x.stream, seq |-> x.seq, tsn |-> x.tsn, id |-> x.id]
Copies == {CopyOf(m) : m \in {f \in net : f.kind = "DATA"}} \cup {CopyOf(sendq[i]) : i \in DOMAIN sendq}

\* The seq of a message is its place in its stream, and its copies agree on its TSN.
\* The receiver's counter is the number of messages it has delivered, or, after a
\* reset, 0: the message with seq 0 was then delivered under the TSN its copies have.
AtItsPlace(x) == x.seq + 1 \in DOMAIN sent[x.stream] /\ sent[x.stream][x.seq + 1] = x.id
KeepsTsn(x) == x.seq = 0 /\ delivered[x.stream] # <<>> => x.tsn = delivered[x.stream][1].tsn

SeqInv ==
    /\ \A s \in Stream :
          /\ Len(sent[s]) <= MaxMsg /\ sendSeq[s] = Len(sent[s])
          /\ Len(delivered[s]) <= Len(sent[s]) /\ recvSeq[s] \in {0, Len(delivered[s])}
    /\ \A x \in Copies : AtItsPlace(x) /\ KeepsTsn(x)
    /\ \A x, y \in Copies : x.stream = y.stream /\ x.seq = y.seq => x.tsn = y.tsn
=============================================================================
