--------------------------- MODULE IcspDataProofs ---------------------------
(***************************************************************************)
(* Proofs about the ICSP data path, for every number of streams, every      *)
(* table, queue and window size, and every fault budget.                    *)
(***************************************************************************)
EXTENDS IcspData, FiniteSetTheorems, TLAPS

LEMMA BoundTypes ==
    /\ MaxFaults \in Nat /\ MaxMsg \in Nat
    /\ Window \in Nat \ {0} /\ TsnMod \in Nat \ {0} /\ SeqMod \in Nat \ {0}
    /\ SendQ \in Nat /\ RcvQ \in Nat
    /\ 0 \in Tsn /\ 0 \in SeqNo
BY SizeAssumption, BoundAssumption DEF Tsn, SeqNo

LEMMA AfterTypes ==
    /\ \A t \in Tsn : TsnAfter(t) \in Tsn
    /\ \A q \in SeqNo : SeqAfter(q) \in SeqNo
BY SizeAssumption DEF Tsn, SeqNo, TsnAfter, SeqAfter

\* rw_mark keeps the window within its type.
LEMMA MarkType ==
    ASSUME TypeOK, NEW t \in Tsn, ~Replayed(t), rw_mark(t)
    PROVE  rwTsn' \in Tsn /\ rwMask' \subseteq 0 .. Window - 1
<1>1. rwTsn \in Nat /\ t \in Nat /\ Window \in Nat /\ rwMask \subseteq 0 .. Window - 1
  BY BoundTypes DEF TypeOK, Tsn
<1>2. CASE t > rwTsn
  BY <1>1, <1>2, BoundTypes DEF rw_mark
<1>3. CASE ~(t > rwTsn)
  <2>1. rwTsn - t \in 0 .. Window - 1
    BY <1>1, <1>3 DEF Replayed
  <2> QED BY <1>1, <1>3, <2>1 DEF rw_mark, TypeOK
<1> QED BY <1>2, <1>3

\* What rw_mark has marked, and what was refused before, is refused.
LEMMA MarkRefuses ==
    ASSUME TypeOK, NEW t \in Tsn, ~Replayed(t), rw_mark(t)
    PROVE  /\ Replayed(t)'
           /\ \A u \in Tsn : Replayed(u) => Replayed(u)'
<1>0. rwTsn \in Nat /\ t \in Nat /\ Window \in Nat \ {0}
  BY BoundTypes DEF TypeOK, Tsn
<1>1. Replayed(t)'
  <2>1. CASE t > rwTsn
    BY <1>0, <2>1 DEF rw_mark, Replayed
  <2>2. CASE ~(t > rwTsn)
    BY <1>0, <2>2 DEF rw_mark, Replayed
  <2> QED BY <2>1, <2>2
<1>2. ASSUME NEW u \in Tsn, Replayed(u) PROVE Replayed(u)'
  <2>1. CASE t > rwTsn
    <3>1. rwTsn' = t /\ rwMask' = {0} \cup {o \in 0 .. Window - 1 : o - (t - rwTsn) \in rwMask}
      BY <2>1 DEF rw_mark
    <3>2. CASE t - u >= Window
      BY <3>1, <3>2, <2>1, <1>2 DEF Replayed, TypeOK, Tsn
    <3>3. CASE ~(t - u >= Window)
      <4>1. rwTsn - u \in rwMask
        BY <3>3, <2>1, <1>2, BoundTypes DEF Replayed, TypeOK, Tsn
      <4>2. t - u \in 0 .. Window - 1 /\ (t - u) - (t - rwTsn) = rwTsn - u
        BY <3>3, <2>1, <1>2, BoundTypes DEF Replayed, TypeOK, Tsn
      <4> QED BY <4>1, <4>2, <3>1, <2>1, <1>2 DEF Replayed, TypeOK, Tsn
    <3> QED BY <3>2, <3>3
  <2>2. CASE ~(t > rwTsn)
    BY <2>2, <1>2 DEF rw_mark, Replayed
  <2> QED BY <2>1, <2>2
<1> QED BY <1>1, <1>2

-----------------------------------------------------------------------------
(* Type correctness.                                                         *)

LEMMA InitType == Init => TypeOK
<1>1. InitTsn \subseteq Tsn
  BY TsnAssumption DEF Tsn
<1> QED BY <1>1, BoundTypes DEF Init, TypeOK

LEMMA NextType == TypeOK /\ [Next]_vars => TypeOK'
<1> SUFFICES ASSUME TypeOK, [Next]_vars PROVE TypeOK'
  OBVIOUS
<1> USE BoundTypes
<1>1. ASSUME NEW s \in Stream, DataSend(s) PROVE TypeOK'
  <2> DEFINE e == SendEntryOf(s)
  <2>1. e \in SendEntry /\ e.id \in Nat /\ calls + 1 \in Nat
    BY DEF TypeOK, SendEntry, SendEntryOf
  <2>2. DATA(e, e.id) \in Frame
    BY <2>1 DEF DATA, Frame, SendEntry
  <2>3. nextTsn' \in Tsn /\ sstreams' \subseteq Stream /\ sendSeq' \in [Stream -> SeqNo]
    BY <1>1, AfterTypes DEF DataSend, TypeOK
  <2>4. sendq' \in Seq(SendEntry)
    BY <1>1, <2>1 DEF DataSend, TypeOK
  <2>5. net' \subseteq Frame /\ wired' \subseteq Nat /\ faults' \in Nat
    <3>1. \/ net' = net \cup {DATA(e, e.id)} /\ wired' = wired \cup {e.id} /\ faults' = faults
          \/ net' = net /\ wired' = wired /\ faults' = faults + 1
      BY <1>1 DEF DataSend, Fault
    <3>2. net \subseteq Frame /\ wired \subseteq Nat /\ faults \in Nat
      BY DEF TypeOK
    <3>3. CASE net' = net \cup {DATA(e, e.id)} /\ wired' = wired \cup {e.id} /\ faults' = faults
      BY <3>2, <3>3, <2>1, <2>2
    <3>4. CASE net' = net /\ wired' = wired /\ faults' = faults + 1
      BY <3>2, <3>4
    <3> QED BY <3>1, <3>3, <3>4
  <2>6. calls' \in Nat /\ sent' \in [Stream -> Seq(Nat)]
    BY <1>1, <2>1 DEF DataSend, TypeOK
  <2> QED BY <1>1, <2>3, <2>4, <2>5, <2>6 DEF DataSend, TypeOK, receiverVars
<1>2. ASSUME NEW s \in Stream, StreamReset(s) PROVE TypeOK'
  <2>1. STREAM_RESET(calls + 1, s) \in Frame
    BY DEF STREAM_RESET, Frame, TypeOK
  <2> QED BY <1>2, <2>1 DEF StreamReset, Fault, TypeOK, senderVars, receiverVars
<1>3. ASSUME NEW old \in SUBSET Unacked, DataRetransmit(old) PROVE TypeOK'
  <2>1. \A i \in old : DATA(sendq[i], Blank) \in Frame
    <3>1. \A i \in old : sendq[i] \in SendEntry
      BY DEF Unacked, TypeOK
    <3> QED BY <3>1 DEF SendEntry, DATA, Frame, Blank
  <2> QED BY <1>3, <2>1 DEF DataRetransmit, TypeOK, senderVars, receiverVars, histVars
<1>4. ASSUME NEW cum \in sacks, RecvSack(cum) PROVE TypeOK'
  <2>1. sendq' \in Seq(SendEntry)
    <3>1. ASSUME NEW i \in DOMAIN sendq, NEW x \in BOOLEAN
          PROVE  [sendq[i] EXCEPT !.acked = x] \in SendEntry
      <4>1. sendq[i] \in SendEntry
        BY DEF TypeOK
      <4> QED BY <4>1 DEF SendEntry
    <3>2. sendq \in Seq(SendEntry) /\ DOMAIN sendq = 1 .. Len(sendq) /\ Len(sendq) \in Nat
      BY DEF TypeOK
    <3>3. \A i \in DOMAIN sendq : (sendq[i].acked \/ sendq[i].tsn <= cum) \in BOOLEAN
      OBVIOUS
    <3>4. \A i \in DOMAIN sendq : [sendq[i] EXCEPT !.acked = @ \/ sendq[i].tsn <= cum] \in SendEntry
      BY <3>1, <3>3
    <3> QED BY <1>4, <3>2, <3>4 DEF RecvSack
  <2> QED BY <1>4, <2>1 DEF RecvSack, TypeOK, receiverVars, histVars
<1>5. ASSUME NEW cum \in sacks, LoseSack(cum) PROVE TypeOK'
  BY <1>5 DEF LoseSack, Fault, TypeOK, senderVars, receiverVars, histVars
<1>6. ASSUME NEW m \in net, Lose(m) PROVE TypeOK'
  BY <1>6 DEF Lose, Fault, TypeOK, senderVars, receiverVars, histVars
<1>7. ASSUME NEW t \in ForeignTsn, RecvForeign(t) PROVE TypeOK'
  <2>1. t \in Tsn
    BY TsnAssumption DEF Tsn
  <2>2. rwTsn' \in Tsn /\ rwMask' \subseteq 0 .. Window - 1
    BY <1>7, <2>1, MarkType DEF RecvForeign
  <2> QED BY <1>7, <2>2 DEF RecvForeign, Fault, TypeOK, senderVars, histVars
<1>8. ASSUME NEW m \in net PROVE /\ m \in Frame
                                 /\ Taken(m) => net' \subseteq Frame /\ faults' \in Nat
  BY <1>8 DEF TypeOK, Taken, Fault
<1>9. ASSUME NEW m \in net, RecvReplay(m) PROVE TypeOK'
  BY <1>9, <1>8 DEF RecvReplay, TypeOK, senderVars, receiverVars, histVars
<1>10. ASSUME NEW m \in net, m.tsn \in Tsn, cum_and_sack(m.tsn) PROVE cumTsn' \in Tsn /\ sacks' \subseteq Tsn
  BY <1>10 DEF cum_and_sack, TypeOK
<1>11. ASSUME NEW m \in net, RecvInOrder(m) PROVE TypeOK'
  <2>1. m \in Frame /\ m.tsn \in Tsn /\ m.stream \in Stream /\ m.data \in Nat /\ m.id \in Nat
    BY <1>8 DEF Frame
  <2>2. rwTsn' \in Tsn /\ rwMask' \subseteq 0 .. Window - 1
    BY <1>11, <2>1, MarkType DEF RecvInOrder
  <2>3. cumTsn' \in Tsn /\ sacks' \subseteq Tsn /\ net' \subseteq Frame /\ faults' \in Nat
    BY <1>11, <2>1, <1>8, <1>10 DEF RecvInOrder
  <2>4. recvSeq' \in [Stream -> SeqNo] /\ rstreams' \subseteq (Stream \cup PeerStreams)
    BY <1>11, <2>1, AfterTypes DEF RecvInOrder, TypeOK
  <2>5. delivered' \in [Stream -> Seq(Delivery)]
    <3>1. [tsn |-> m.tsn, id |-> m.id, data |-> m.data] \in Delivery
      BY <2>1 DEF Delivery
    <3> QED BY <1>11, <2>1, <3>1 DEF RecvInOrder, TypeOK
  <2> QED BY <1>11, <2>2, <2>3, <2>4, <2>5 DEF RecvInOrder, TypeOK, senderVars
<1>12. ASSUME NEW m \in net, RecvOutOfOrder(m) PROVE TypeOK'
  <2>1. m \in Frame /\ m.tsn \in Tsn /\ m.stream \in Stream /\ m.data \in Nat /\ m.seq \in SeqNo
    BY <1>8 DEF Frame
  <2>2. rwTsn' \in Tsn /\ rwMask' \subseteq 0 .. Window - 1
    BY <1>12, <2>1, MarkType DEF RecvOutOfOrder
  <2>3. cumTsn' \in Tsn /\ sacks' \subseteq Tsn /\ net' \subseteq Frame /\ faults' \in Nat
    BY <1>12, <2>1, <1>8, <1>10 DEF RecvOutOfOrder
  <2>4. rcvq' \in Seq(RcvEntry) /\ rstreams' \subseteq (Stream \cup PeerStreams)
    <3>1. [tsn |-> m.tsn, stream |-> m.stream, seq |-> m.seq, data |-> m.data] \in RcvEntry
      BY <2>1 DEF RcvEntry
    <3>2. CASE get_stream(rstreams, m.stream)
      <4> DEFINE e == [tsn |-> m.tsn, stream |-> m.stream, seq |-> m.seq, data |-> m.data]
      <4>1. rstreams' = rstreams \cup {m.stream} /\ (rcvq' = Append(rcvq, e) \/ rcvq' = rcvq)
        BY <1>12, <3>2 DEF RecvOutOfOrder
      <4>2. e \in RcvEntry /\ rcvq \in Seq(RcvEntry) /\ rstreams \subseteq (Stream \cup PeerStreams)
        BY <3>1 DEF TypeOK
      <4> HIDE DEF e
      <4> QED BY <4>1, <4>2, <2>1
    <3>3. CASE ~get_stream(rstreams, m.stream)
      BY <1>12, <3>3 DEF RecvOutOfOrder, TypeOK
    <3> QED BY <3>2, <3>3
  <2> QED BY <1>12, <2>2, <2>3, <2>4 DEF RecvOutOfOrder, TypeOK, senderVars, histVars
<1>13. ASSUME NEW m \in net, RecvStreamReset(m) PROVE TypeOK'
  <2>1. recvSeq' \in [Stream -> SeqNo]
    BY <1>13 DEF RecvStreamReset, TypeOK
  <2> QED BY <1>13, <2>1, <1>8 DEF RecvStreamReset, TypeOK, senderVars, histVars
<1>14. CASE UNCHANGED vars
  BY <1>14 DEF vars, senderVars, receiverVars, netVars, histVars, TypeOK
<1> QED
  BY <1>1, <1>2, <1>3, <1>4, <1>5, <1>6, <1>7, <1>9, <1>11, <1>12, <1>13, <1>14 DEF Next, Recv

\* Type correctness of the data path: counters stay within their width, the window
\* mask within the window, and every frame and queue entry is well formed.
THEOREM DataTypeCorrect == Spec => []TypeOK
<1>1. Init => TypeOK BY InitType
<1>2. TypeOK /\ [Next]_vars => TypeOK' BY NextType
<1> QED BY <1>1, <1>2, PTL DEF Spec

-----------------------------------------------------------------------------
(* The replay window.                                                        *)

LEMMA WindowStep == TypeOK /\ WindowInv /\ DeliveredOnce /\ [Next]_vars => WindowInv' /\ DeliveredOnce'
<1> SUFFICES ASSUME TypeOK, WindowInv, DeliveredOnce, [Next]_vars
             PROVE  WindowInv' /\ DeliveredOnce'
  OBVIOUS
<1>0. \A s \in Stream : \A i \in DOMAIN delivered[s] : delivered[s][i].tsn \in Tsn
  <2> SUFFICES ASSUME NEW s \in Stream, NEW i \in DOMAIN delivered[s]
               PROVE  delivered[s][i].tsn \in Tsn
    OBVIOUS
  <2>1. delivered[s][i] \in Delivery
    BY DEF TypeOK
  <2> QED BY <2>1 DEF Delivery
<1>1. CASE UNCHANGED <<rwTsn, rwMask, delivered>>
  BY <1>1 DEF WindowInv, DeliveredOnce, Replayed
<1>2. ASSUME NEW t \in Tsn, ~Replayed(t), rw_mark(t), UNCHANGED delivered
      PROVE  WindowInv' /\ DeliveredOnce'
  <2>1. \A u \in Tsn : Replayed(u) => Replayed(u)'
    BY <1>2, MarkRefuses
  <2> QED BY <2>1, <1>0, <1>2 DEF WindowInv, DeliveredOnce, Replayed
<1>3. ASSUME NEW m \in net, RecvInOrder(m) PROVE WindowInv' /\ DeliveredOnce'
  <2> DEFINE d == [tsn |-> m.tsn, id |-> m.id, data |-> m.data]
             w == m.stream
  <2>1. m.tsn \in Tsn /\ w \in Stream
    BY DEF TypeOK, Frame
  <2>2. Replayed(m.tsn)' /\ \A u \in Tsn : Replayed(u) => Replayed(u)'
    BY <1>3, <2>1, MarkRefuses DEF RecvInOrder
  <2>3. ~Replayed(m.tsn)
    BY <1>3 DEF RecvInOrder
  <2>4. /\ delivered' = [delivered EXCEPT ![w] = Append(@, d)]
        /\ \A s \in Stream : delivered[s] \in Seq(Delivery)
    BY <1>3 DEF RecvInOrder, TypeOK
  <2>5. d.tsn = m.tsn
    OBVIOUS
  <2> HIDE DEF d, w
  <2>6. \A s \in Stream : s # w => delivered'[s] = delivered[s]
    BY <2>4 DEF TypeOK
  <2>7. /\ DOMAIN delivered'[w] = 1 .. Len(delivered[w]) + 1
        /\ DOMAIN delivered[w] = 1 .. Len(delivered[w]) /\ Len(delivered[w]) \in Nat
        /\ delivered'[w][Len(delivered[w]) + 1] = d
        /\ \A i \in DOMAIN delivered[w] : delivered'[w][i] = delivered[w][i]
    BY <2>1, <2>4 DEF TypeOK
  <2>8. \A s \in Stream : \A i \in DOMAIN delivered'[s] :
            \/ s = w /\ i = Len(delivered[w]) + 1 /\ delivered'[s][i].tsn = m.tsn
            \/ i \in DOMAIN delivered[s] /\ delivered'[s][i] = delivered[s][i]
    BY <2>5, <2>6, <2>7
  <2>9. WindowInv'
    BY <2>8, <2>2, <1>0 DEF WindowInv
  <2>10. DeliveredOnce'
    BY <2>8, <2>3 DEF WindowInv, DeliveredOnce
  <2> QED BY <2>9, <2>10
<1>4. ASSUME NEW m \in net, RecvOutOfOrder(m) PROVE WindowInv' /\ DeliveredOnce'
  <2>1. m.tsn \in Tsn
    BY DEF TypeOK, Frame
  <2> QED BY <1>4, <2>1, <1>2 DEF RecvOutOfOrder, histVars
<1>5. ASSUME NEW t \in ForeignTsn, RecvForeign(t) PROVE WindowInv' /\ DeliveredOnce'
  <2>1. t \in Tsn
    BY TsnAssumption DEF Tsn
  <2> QED BY <1>5, <2>1, <1>2 DEF RecvForeign, histVars
<1>6. CASE \E s \in Stream : DataSend(s) \/ StreamReset(s)
  BY <1>6, <1>1 DEF DataSend, StreamReset, receiverVars
<1>7. CASE \E old \in SUBSET Unacked : DataRetransmit(old)
  BY <1>7, <1>1 DEF DataRetransmit, receiverVars, histVars
<1>8. CASE \E cum \in sacks : RecvSack(cum) \/ LoseSack(cum)
  BY <1>8, <1>1 DEF RecvSack, LoseSack, receiverVars, histVars
<1>9. CASE \E m \in net : RecvReplay(m) \/ RecvStreamReset(m) \/ Lose(m)
  BY <1>9, <1>1 DEF RecvReplay, RecvStreamReset, Lose, receiverVars, histVars
<1>10. CASE UNCHANGED vars
  BY <1>10, <1>1 DEF vars, receiverVars, histVars
<1> QED BY <1>3, <1>4, <1>5, <1>6, <1>7, <1>8, <1>9, <1>10 DEF Next, Recv

LEMMA WindowInit == Init => WindowInv /\ DeliveredOnce
BY DEF Init, WindowInv, DeliveredOnce

\* No message reaches the application twice, whatever is duplicated, retransmitted
\* or reset: once a TSN has been delivered the window of icsp_data_handle refuses it
\* for as long as the association lives.
THEOREM NeverDeliveredTwice == Spec => []DeliveredOnce
<1>1. Init => TypeOK /\ WindowInv /\ DeliveredOnce
  BY WindowInit, InitType
<1>2. TypeOK /\ WindowInv /\ DeliveredOnce /\ [Next]_vars => (TypeOK /\ WindowInv /\ DeliveredOnce)'
  BY NextType, WindowStep
<1> QED BY <1>1, <1>2, PTL DEF Spec

-----------------------------------------------------------------------------
(* The stream order.                                                         *)

LEMMA SeqAfterSmall == \A q \in Nat : q + 1 < SeqMod => SeqAfter(q) = q + 1
BY SizeAssumption DEF SeqAfter

LEMMA SeqInit == Init => SeqInv
BY BoundTypes DEF Init, SeqInv, Copies

LEMMA CopyTypes ==
    ASSUME TypeOK
    PROVE  /\ \A x \in Copies : x.stream \in Stream /\ x.seq \in Nat /\ x.tsn \in Tsn /\ x.id \in Nat
           /\ \A s \in Stream : sent[s] \in Seq(Nat) /\ Len(sent[s]) \in Nat
           /\ \A s \in Stream : delivered[s] \in Seq(Delivery) /\ Len(delivered[s]) \in Nat
<1>1. \A m \in net : m \in Frame
  BY DEF TypeOK
<1>2. \A i \in DOMAIN sendq : sendq[i] \in SendEntry
  BY DEF TypeOK
<1>3. \A s \in Stream : sent[s] \in Seq(Nat) /\ delivered[s] \in Seq(Delivery)
  BY DEF TypeOK
<1> QED BY <1>1, <1>2, <1>3, BoundTypes DEF Frame, SendEntry, SeqNo, Copies, CopyOf

\* Retransmissions are copies of what is queued, and acknowledgements change none.
LEMMA CopiesKept ==
    ASSUME \A m \in net' : m.kind = "DATA" => m \in net \/ \E i \in DOMAIN sendq : m = DATA(sendq[i], Blank),
           DOMAIN sendq' = DOMAIN sendq,
           \A i \in DOMAIN sendq : CopyOf(sendq'[i]) = CopyOf(sendq[i])
    PROVE  Copies' \subseteq Copies
<1>1. \A i \in DOMAIN sendq : CopyOf(DATA(sendq[i], Blank)) = CopyOf(sendq[i])
  BY DEF CopyOf, DATA
<1> HIDE DEF CopyOf, DATA
<1>2. ASSUME NEW m \in net', m.kind = "DATA" PROVE CopyOf(m) \in Copies
  BY <1>1, <1>2 DEF Copies
<1>3. \A i \in DOMAIN sendq : CopyOf(sendq[i]) \in Copies
  BY DEF Copies
<1>4. Copies' = {CopyOf(m) : m \in {f \in net' : f.kind = "DATA"}} \cup {CopyOf(sendq'[i]) : i \in DOMAIN sendq'}
  BY DEF Copies, CopyOf
<1> QED BY <1>2, <1>3, <1>4

\* A message adds its own copy to those there are.
LEMMA SendCopies ==
    ASSUME TypeOK, NEW s \in Stream, DataSend(s)
    PROVE  Copies' \subseteq Copies \cup {CopyOf(SendEntryOf(s))}
<1> DEFINE e == SendEntryOf(s)
<1>1. CopyOf(DATA(e, e.id)) = CopyOf(e)
  BY DEF DATA, CopyOf
<1>2. \A m \in net' : m \in net \/ m = DATA(e, e.id)
  BY DEF DataSend
<1>3. sendq' = Append(sendq, e) \/ sendq' = sendq
  BY DEF DataSend
<1>4. sendq \in Seq(SendEntry) /\ e \in SendEntry
  BY DEF TypeOK, SendEntry, SendEntryOf
<1> HIDE DEF e
<1>5. \A i \in DOMAIN sendq' : sendq'[i] = e \/ (i \in DOMAIN sendq /\ sendq'[i] = sendq[i])
  BY <1>3, <1>4
<1>6. Copies' = {CopyOf(m) : m \in {f \in net' : f.kind = "DATA"}} \cup {CopyOf(sendq'[i]) : i \in DOMAIN sendq'}
  BY DEF Copies, CopyOf
<1>7. ASSUME NEW m \in net', m.kind = "DATA" PROVE CopyOf(m) \in Copies \cup {CopyOf(e)}
  BY <1>1, <1>2, <1>7 DEF Copies
<1>8. ASSUME NEW i \in DOMAIN sendq' PROVE CopyOf(sendq'[i]) \in Copies \cup {CopyOf(e)}
  BY <1>5 DEF Copies
<1> QED BY <1>6, <1>7, <1>8 DEF e

\* The next message of a stream is the one the receiver's gate lets through.
LEMMA NextInLine ==
    ASSUME TypeOK, WindowInv, SeqInv, NEW m \in net, RecvInOrder(m)
    PROVE  m.seq = Len(delivered[m.stream])
<1> DEFINE w == m.stream
           x0 == CopyOf(m)
<1>1. w \in Stream /\ m.seq = recvSeq[w] /\ ~Replayed(m.tsn)
  BY DEF RecvInOrder, Expected, TypeOK, Frame
<1>2. x0 \in Copies /\ x0.stream = w /\ x0.seq = m.seq /\ x0.tsn = m.tsn
  BY DEF RecvInOrder, Copies, CopyOf
<1> HIDE DEF x0
<1>3. SUFFICES ASSUME recvSeq[w] = 0, delivered[w] # <<>> PROVE FALSE
  BY <1>1, CopyTypes DEF SeqInv
<1>4. m.tsn = delivered[w][1].tsn
  BY <1>3, <1>1, <1>2 DEF SeqInv, KeepsTsn
<1>5. 1 \in DOMAIN delivered[w]
  BY <1>3, <1>1, CopyTypes
<1> QED BY <1>4, <1>5, <1>1 DEF WindowInv

LEMMA SeqStep ==
    ASSUME MaxMsg < SeqMod, TypeOK, WindowInv, SeqInv, [Next]_vars
    PROVE  SeqInv'
<1>0. MaxMsg \in Nat /\ SeqMod \in Nat
  BY BoundTypes
<1>1. ASSUME NEW s \in Stream, DataSend(s) PROVE SeqInv'
  <2> DEFINE e == SendEntryOf(s)
             n == Len(sent[s])
  <2>1. e.stream = s /\ e.seq = sendSeq[s] /\ e.id = calls + 1 /\ e.id \in Nat
    BY DEF SendEntryOf, TypeOK
  <2>2. n \in Nat /\ n < MaxMsg /\ sendSeq[s] = n
    BY <1>1, CopyTypes DEF DataSend, SeqInv
  <2>3. sent' = [sent EXCEPT ![s] = Append(@, e.id)]
    BY <1>1 DEF DataSend
  <2>4. /\ \A u \in Stream : u # s => sent'[u] = sent[u]
        /\ sent'[s] = Append(sent[s], e.id)
    BY <2>3 DEF TypeOK
  <2>5. /\ Len(sent'[s]) = n + 1 /\ DOMAIN sent'[s] = 1 .. n + 1 /\ DOMAIN sent[s] = 1 .. n
        /\ sent'[s][n + 1] = e.id
        /\ \A k \in DOMAIN sent[s] : sent'[s][k] = sent[s][k]
    BY <2>1, <2>4, CopyTypes
  <2>6. sendSeq' = [sendSeq EXCEPT ![s] = SeqAfter(@)] /\ UNCHANGED <<recvSeq, delivered>>
    BY <1>1 DEF DataSend, receiverVars
  <2>7. /\ sendSeq'[s] = n + 1
        /\ \A u \in Stream : u # s => sendSeq'[u] = sendSeq[u]
    BY <2>2, <2>6, <1>0, SeqAfterSmall DEF TypeOK
  <2>8. \A u \in Stream : /\ Len(sent'[u]) <= MaxMsg /\ sendSeq'[u] = Len(sent'[u])
                          /\ Len(delivered'[u]) <= Len(sent'[u]) /\ recvSeq'[u] \in {0, Len(delivered'[u])}
    BY <2>2, <2>4, <2>5, <2>6, <2>7, <1>0, CopyTypes DEF SeqInv
  <2>9. ASSUME NEW x \in Copies PROVE AtItsPlace(x)' /\ KeepsTsn(x)' /\ (x.stream = s => x.seq < n)
    <3>1. AtItsPlace(x) /\ KeepsTsn(x) /\ x.stream \in Stream /\ x.seq \in Nat
      BY CopyTypes DEF SeqInv
    <3>2. x.stream = s => x.seq < n
      BY <3>1, <2>2, <2>5 DEF AtItsPlace
    <3>3. AtItsPlace(x)'
      <4>1. CASE x.stream = s
        BY <4>1, <3>1, <3>2, <2>2, <2>5 DEF AtItsPlace
      <4>2. CASE x.stream # s
        BY <4>2, <3>1, <2>4 DEF AtItsPlace
      <4> QED BY <4>1, <4>2
    <3>4. KeepsTsn(x)'
      BY <3>1, <2>6 DEF KeepsTsn
    <3> QED BY <3>2, <3>3, <3>4
  <2>10. CopyOf(e).stream = s /\ CopyOf(e).seq = n /\ CopyOf(e).id = calls + 1
    BY <2>1, <2>2 DEF CopyOf
  <2>11. ASSUME NEW x, x.stream = s, x.seq = n, x.id = calls + 1
         PROVE  AtItsPlace(x)' /\ KeepsTsn(x)'
    <3>1. AtItsPlace(x)'
      BY <2>11, <2>1, <2>2, <2>5 DEF AtItsPlace
    <3>2. n = 0 => delivered[s] = <<>>
      <4>1. n = 0 => Len(delivered[s]) = 0
        BY <2>2, CopyTypes DEF SeqInv
      <4> QED BY <4>1, CopyTypes
    <3>3. KeepsTsn(x)'
      BY <2>11, <2>6, <3>2 DEF KeepsTsn
    <3> QED BY <3>1, <3>3
  <2>13. Copies' \subseteq Copies \cup {CopyOf(e)}
    BY <1>1, SendCopies
  <2> HIDE DEF e
  <2>14. ASSUME NEW x \in Copies', NEW y \in Copies', x.stream = y.stream, x.seq = y.seq
         PROVE  x.tsn = y.tsn
    <3>1. CASE x \in Copies /\ y \in Copies
      BY <3>1, <2>14 DEF SeqInv
    <3>2. CASE x = CopyOf(e) /\ y = CopyOf(e)
      BY <3>2
    <3> QED BY <2>2, <2>9, <2>10, <2>13, <2>14, <3>1, <3>2, CopyTypes
  <2>15. \A x \in Copies' : AtItsPlace(x)' /\ KeepsTsn(x)'
    <3> SUFFICES ASSUME NEW x \in Copies' PROVE AtItsPlace(x)' /\ KeepsTsn(x)'
      OBVIOUS
    <3>1. CASE x \in Copies
      BY <3>1, <2>9
    <3>2. CASE x = CopyOf(e)
      BY <3>2, <2>10, <2>11
    <3> QED BY <2>13, <3>1, <3>2
  <2> QED BY <2>8, <2>14, <2>15 DEF SeqInv
<1>2. ASSUME Copies' \subseteq Copies, UNCHANGED <<sent, delivered, sendSeq>>,
             \A s \in Stream : recvSeq'[s] \in {0, recvSeq[s]}
      PROVE  SeqInv'
  <2>1. \A x \in Copies : (AtItsPlace(x) => AtItsPlace(x)') /\ (KeepsTsn(x) => KeepsTsn(x)')
    BY <1>2 DEF AtItsPlace, KeepsTsn
  <2> QED BY <1>2, <2>1 DEF SeqInv
<1>3. ASSUME NEW m \in net, Taken(m) PROVE net' \subseteq net
  BY <1>3 DEF Taken
<1>4. ASSUME NEW m \in net, RecvInOrder(m) PROVE SeqInv'
  <2> DEFINE w == m.stream
             d == [tsn |-> m.tsn, id |-> m.id, data |-> m.data]
             x0 == CopyOf(m)
  <2>1. w \in Stream /\ m.seq \in Nat /\ m.seq = recvSeq[w] /\ ~Replayed(m.tsn)
    BY <1>4 DEF RecvInOrder, Expected, TypeOK, Frame, SeqNo
  <2>2. x0 \in Copies /\ x0.stream = w /\ x0.seq = m.seq /\ x0.tsn = m.tsn
    BY <1>4 DEF RecvInOrder, Copies, CopyOf
  <2> HIDE DEF x0
  <2>3. recvSeq[w] = Len(delivered[w])
    BY <1>4, <2>1, NextInLine
  <2>4. m.seq + 1 \in DOMAIN sent[w] /\ Len(delivered[w]) + 1 <= Len(sent[w]) /\ Len(sent[w]) <= MaxMsg
    BY <2>1, <2>2, <2>3, CopyTypes DEF SeqInv, AtItsPlace
  <2>5. /\ recvSeq' = [recvSeq EXCEPT ![w] = SeqAfter(@)]
        /\ delivered' = [delivered EXCEPT ![w] = Append(@, d)]
        /\ UNCHANGED <<sent, sendSeq, sendq>> /\ net' \subseteq net
    BY <1>4, <1>3 DEF RecvInOrder, senderVars
  <2>6. d.tsn = m.tsn
    OBVIOUS
  <2> HIDE DEF d
  <2>7. recvSeq'[w] = Len(delivered[w]) + 1 /\ Len(delivered'[w]) = Len(delivered[w]) + 1
    BY <2>1, <2>3, <2>4, <2>5, <1>0, SeqAfterSmall, CopyTypes DEF TypeOK
  <2>8. \A u \in Stream : u # w => recvSeq'[u] = recvSeq[u] /\ delivered'[u] = delivered[u]
    BY <2>5 DEF TypeOK
  <2>9. delivered'[w][1].tsn = IF delivered[w] = <<>> THEN m.tsn ELSE delivered[w][1].tsn
    BY <2>1, <2>5, <2>6, CopyTypes DEF TypeOK
  <2>10. Copies' \subseteq Copies
    BY <2>5, CopiesKept
  <2>11. ASSUME NEW x \in Copies' PROVE AtItsPlace(x)' /\ KeepsTsn(x)'
    <3>1. x \in Copies /\ AtItsPlace(x) /\ KeepsTsn(x) /\ x.stream \in Stream
      BY <2>10, CopyTypes DEF SeqInv
    <3>2. AtItsPlace(x)'
      BY <3>1, <2>5 DEF AtItsPlace
    <3>3. x.stream = w /\ x.seq = 0 /\ delivered[w] = <<>> => x.tsn = m.tsn
      <4>1. delivered[w] = <<>> => m.seq = 0
        BY <2>1, <2>3, CopyTypes
      <4> QED BY <4>1, <3>1, <2>2 DEF SeqInv
    <3>4. KeepsTsn(x)'
      BY <3>1, <3>3, <2>8, <2>9 DEF KeepsTsn
    <3> QED BY <3>2, <3>4
  <2>12. \A x, y \in Copies' : x.stream = y.stream /\ x.seq = y.seq => x.tsn = y.tsn
    BY <2>10 DEF SeqInv
  <2>13. \A s \in Stream : /\ Len(sent'[s]) <= MaxMsg /\ sendSeq'[s] = Len(sent'[s])
                           /\ Len(delivered'[s]) <= Len(sent'[s]) /\ recvSeq'[s] \in {0, Len(delivered'[s])}
    BY <2>1, <2>4, <2>5, <2>7, <2>8, CopyTypes DEF SeqInv
  <2> QED BY <2>11, <2>12, <2>13 DEF SeqInv
<1>5. ASSUME NEW cum \in sacks, RecvSack(cum) PROVE SeqInv'
  <2>1. DOMAIN sendq' = DOMAIN sendq /\ net' = net
    BY <1>5 DEF RecvSack
  <2>2. ASSUME NEW i \in DOMAIN sendq PROVE CopyOf(sendq'[i]) = CopyOf(sendq[i])
    <3>1. sendq[i] \in SendEntry
      BY DEF TypeOK
    <3> QED BY <1>5, <3>1 DEF RecvSack, SendEntry, CopyOf
  <2>3. Copies' \subseteq Copies
    BY <2>1, <2>2, CopiesKept
  <2> QED BY <1>5, <2>3, <1>2 DEF RecvSack, receiverVars, histVars
<1>6. ASSUME UNCHANGED <<sent, delivered, sendSeq, sendq>>,
             \A s \in Stream : recvSeq'[s] \in {0, recvSeq[s]},
             \A m \in net' : m.kind = "DATA" => m \in net \/ \E i \in DOMAIN sendq : m = DATA(sendq[i], Blank)
      PROVE  SeqInv'
  <2>1. Copies' \subseteq Copies
    BY <1>6, CopiesKept
  <2> QED BY <1>6, <2>1, <1>2
<1>7. ASSUME NEW s \in Stream, StreamReset(s) PROVE SeqInv'
  BY <1>7, <1>6 DEF StreamReset, STREAM_RESET, senderVars, receiverVars
<1>8. ASSUME NEW old \in SUBSET Unacked, DataRetransmit(old) PROVE SeqInv'
  BY <1>8, <1>6 DEF DataRetransmit, Unacked, senderVars, receiverVars, histVars
<1>9. ASSUME NEW m \in net, RecvReplay(m) \/ RecvOutOfOrder(m) \/ Lose(m) PROVE SeqInv'
  <2>1. UNCHANGED <<sent, delivered, sendSeq, recvSeq, sendq>> /\ net' \subseteq net
    BY <1>9, <1>3 DEF RecvReplay, RecvOutOfOrder, Lose, senderVars, receiverVars, histVars
  <2> QED BY <2>1, <1>6
<1>10. ASSUME NEW m \in net, RecvStreamReset(m) PROVE SeqInv'
  <2>1. UNCHANGED <<sent, delivered, sendSeq, sendq>> /\ net' \subseteq net
    BY <1>10, <1>3 DEF RecvStreamReset, senderVars, histVars
  <2>2. \A s \in Stream : recvSeq'[s] \in {0, recvSeq[s]}
    BY <1>10 DEF RecvStreamReset, TypeOK
  <2> QED BY <2>1, <2>2, <1>6
<1>11. CASE (\E t \in ForeignTsn : RecvForeign(t)) \/ (\E cum \in sacks : LoseSack(cum)) \/ UNCHANGED vars
  <2>1. UNCHANGED <<sent, delivered, sendSeq, recvSeq, sendq, net>>
    BY <1>11 DEF RecvForeign, LoseSack, vars, senderVars, receiverVars, netVars, histVars
  <2> QED BY <2>1, <1>6
<1> QED BY <1>1, <1>4, <1>5, <1>7, <1>8, <1>9, <1>10, <1>11 DEF Next, Recv

\* The messages of delivered, as the refinement mapping sees them.
deliveredIds == [s \in Stream |-> [i \in DOMAIN delivered[s] |-> delivered[s][i].id]]

LEMMA FifoInit == Init => Fifo!Init
BY DEF Init, Fifo!Init

LEMMA FifoStep ==
    ASSUME MaxMsg < SeqMod, TypeOK, WindowInv, SeqInv, [Next]_vars
    PROVE  [Fifo!Next]_<<sent, deliveredIds>>
<1>1. ASSUME NEW s \in Stream, DataSend(s) PROVE Fifo!Send(s)
  <2>1. sent[s] \in Seq(Nat) /\ calls + 1 \in Nat /\ sent \in [Stream -> Seq(Nat)]
    BY DEF TypeOK
  <2>2. sent' = [sent EXCEPT ![s] = Append(@, calls + 1)] /\ delivered' = delivered
    BY <1>1 DEF DataSend, SendEntryOf
  <2>3. sent'[s] = Append(sent[s], calls + 1)
    BY <2>1, <2>2
  <2>4. Len(sent'[s]) = Len(sent[s]) + 1 /\ sent'[s][Len(sent[s]) + 1] = calls + 1
    BY <2>1, <2>3
  <2> QED BY <2>2, <2>4 DEF Fifo!Send
<1>2. ASSUME NEW m \in net, RecvInOrder(m) PROVE Fifo!Deliver(m.stream)
  <2> DEFINE w == m.stream
             d == [tsn |-> m.tsn, id |-> m.id, data |-> m.data]
             n == Len(delivered[w])
  <2>1. w \in Stream /\ m.seq \in Nat /\ m.id \in Nat /\ delivered[w] \in Seq(Delivery) /\ n \in Nat
    BY DEF TypeOK, Frame, SeqNo
  <2>2. m.seq = n /\ n + 1 \in DOMAIN sent[w] /\ sent[w][n + 1] = m.id
    <3>1. CopyOf(m) \in Copies /\ CopyOf(m).stream = w /\ CopyOf(m).seq = m.seq /\ CopyOf(m).id = m.id
      BY <1>2 DEF RecvInOrder, Copies, CopyOf
    <3>2. m.seq = n
      BY <1>2, NextInLine
    <3> HIDE DEF CopyOf
    <3> QED BY <3>1, <3>2, <2>1 DEF SeqInv, AtItsPlace
  <2>3. delivered' = [delivered EXCEPT ![w] = Append(@, d)] /\ sent' = sent
    BY <1>2 DEF RecvInOrder
  <2>4. d.id = m.id
    OBVIOUS
  <2> HIDE DEF d
  <2>5. delivered'[w] = Append(delivered[w], d) /\ \A u \in Stream : u # w => delivered'[u] = delivered[u]
    BY <2>1, <2>3 DEF TypeOK
  <2>6. /\ DOMAIN delivered[w] = 1 .. n /\ DOMAIN delivered'[w] = 1 .. n + 1
        /\ delivered'[w][n + 1] = d /\ \A i \in 1 .. n : delivered'[w][i] = delivered[w][i]
    BY <2>1, <2>5
  <2>7. Len(deliveredIds[w]) = n /\ deliveredIds[w] \in Seq(Nat)
    <3>1. \A i \in 1 .. n : delivered[w][i] \in Delivery
      BY <2>1
    <3>2. \A i \in 1 .. n : delivered[w][i].id \in Nat
      BY <3>1 DEF Delivery
    <3>3. deliveredIds[w] = [i \in 1 .. n |-> delivered[w][i].id]
      BY <2>1, <2>6 DEF deliveredIds
    <3> QED BY <3>2, <3>3, <2>1
  <2>8. deliveredIds'[w] = [i \in 1 .. n + 1 |-> IF i = n + 1 THEN m.id ELSE deliveredIds[w][i]]
    <3>1. deliveredIds'[w] = [i \in 1 .. n + 1 |-> delivered'[w][i].id]
      BY <2>1, <2>6 DEF deliveredIds
    <3>2. deliveredIds[w] = [i \in 1 .. n |-> delivered[w][i].id]
      BY <2>1, <2>6 DEF deliveredIds
    <3>3. \A i \in 1 .. n + 1 : delivered'[w][i].id = IF i = n + 1 THEN m.id ELSE deliveredIds[w][i]
      BY <2>1, <2>4, <2>6, <3>2
    <3> QED BY <3>1, <3>3
  <2>9. deliveredIds'[w] = Append(deliveredIds[w], m.id)
    BY <2>1, <2>7, <2>8
  <2>10. \A u \in Stream : u # w => deliveredIds'[u] = deliveredIds[u]
    BY <2>5 DEF deliveredIds
  <2>11. deliveredIds' = [deliveredIds EXCEPT ![w] = Append(@, sent[w][Len(@) + 1])]
    BY <2>1, <2>2, <2>7, <2>9, <2>10 DEF deliveredIds
  <2>12. Len(deliveredIds[w]) < Len(sent[w])
    BY <2>1, <2>2, <2>7 DEF TypeOK
  <2> QED BY <2>3, <2>11, <2>12 DEF Fifo!Deliver, deliveredIds
<1>3. CASE UNCHANGED <<sent, delivered>>
  BY <1>3 DEF deliveredIds
<1>4. ASSUME NEW m \in net, RecvInOrder(m) PROVE m.stream \in Stream
  BY DEF TypeOK, Frame
<1>5. CASE \/ \E s \in Stream : StreamReset(s)
           \/ \E old \in SUBSET Unacked : DataRetransmit(old)
           \/ \E m \in net : RecvReplay(m) \/ RecvOutOfOrder(m) \/ RecvStreamReset(m) \/ Lose(m)
           \/ \E cum \in sacks : RecvSack(cum) \/ LoseSack(cum)
           \/ \E t \in ForeignTsn : RecvForeign(t)
           \/ UNCHANGED vars
  BY <1>5, <1>3 DEF StreamReset, DataRetransmit, RecvReplay, RecvOutOfOrder, RecvStreamReset, Lose,
                    RecvSack, LoseSack, RecvForeign, vars, histVars
<1> QED BY <1>1, <1>2, <1>4, <1>5 DEF Next, Recv, Fifo!Next

\* ICSP streams implement a FIFO: as long as no stream carries 2^16 messages, the
\* on_data callback gets the messages given to icsp_data_send, in order and without
\* gaps, over a network that loses, repeats and reorders at will, resets included.
THEOREM StreamsAreFifo ==
    ASSUME MaxMsg < SeqMod
    PROVE  Spec => IsFifo
<1> DEFINE Inv == TypeOK /\ WindowInv /\ DeliveredOnce /\ SeqInv
<1>1. Init => Inv
  BY InitType, WindowInit, SeqInit
<1>2. Inv /\ [Next]_vars => Inv'
  BY NextType, WindowStep, SeqStep
<1>3. Inv /\ [Next]_vars => [Fifo!Next]_<<sent, deliveredIds>>
  BY FifoStep
<1> QED BY <1>1, <1>2, <1>3, FifoInit, PTL DEF Spec, IsFifo, Fifo!Spec, deliveredIds
-----------------------------------------------------------------------------
(* What an acknowledgement says.  On a network that keeps order and spares a   *)
(* stream, a message of that stream is delivered or still on its way, ahead of *)
(* everything the receiver has marked or acknowledged.                         *)

\* A network that keeps order and only loses or repeats, a receiver with room for every
\* stream, and no stream so long that its seq wraps.
Orderly ==
    /\ Timely /\ Faults \subseteq {"data", "sack", "dup"} /\ MaxMsg < SeqMod
    /\ IsFiniteSet(Stream \cup PeerStreams) /\ Cardinality(Stream \cup PeerStreams) <= MaxStreams

\* Before the TSN wraps.
NoWrap == calls <= nextTsn

Ahead(t) == (\A k \in sacks : k < t) /\ (rwTsn < t \/ (rwTsn = 0 /\ rwMask = {}))

Coming(s, j) ==
    \E f \in net : f.kind = "DATA" /\ f.stream = s /\ f.seq = j - 1 /\ f.id = sent[s][j] /\ Ahead(f.tsn)

\* The TSN follows the calls, and a call has one stream, seq and TSN.
Numbered ==
    /\ \A x \in Copies : x.id \in 1 .. calls /\ x.tsn = x.id + (nextTsn - calls - 1)
    /\ \A x, y \in Copies : x.id = y.id => x = y
    /\ \A s \in Stream : \A j \in DOMAIN sent[s] : sent[s][j] \in 1 .. calls
    /\ \A s \in Stream : \A i, j \in DOMAIN sent[s] : i < j => sent[s][i] < sent[s][j]

InTurn ==
    /\ \A m \in net : m.kind = "DATA"
    /\ \A s \in Stream : recvSeq[s] = Len(delivered[s])
    /\ \A s \in Stream : \A i \in DOMAIN delivered[s] : delivered[s][i].id = sent[s][i]

Undelivered(s) == Len(delivered[s]) + 1 .. Len(sent[s])
NotLost == Ahead(nextTsn) /\ \A s \in Stream \ LossStreams : \A j \in Undelivered(s) : Coming(s, j)

AckedInTurn ==
    \A i \in DOMAIN sendq :
        sendq[i].acked /\ sendq[i].stream \notin LossStreams => sendq[i].seq < Len(delivered[sendq[i].stream])

AckInv == NoWrap => Numbered /\ InTurn /\ NotLost /\ AckedInTurn

LEMMA Lengths ==
    ASSUME TypeOK, SeqInv, NEW s \in Stream
    PROVE  /\ Len(sent[s]) \in Nat /\ Len(delivered[s]) \in Nat /\ Len(delivered[s]) <= Len(sent[s])
           /\ DOMAIN sent[s] = 1 .. Len(sent[s]) /\ DOMAIN delivered[s] = 1 .. Len(delivered[s])
           /\ calls \in Nat /\ nextTsn \in Nat /\ rwTsn \in Nat /\ sacks \subseteq Nat
<1>1. sent[s] \in Seq(Nat) /\ delivered[s] \in Seq(Delivery)
  BY DEF TypeOK
<1> QED BY <1>1 DEF SeqInv, TypeOK, Tsn

LEMMA AckSend ==
    ASSUME Orderly, TypeOK, SeqInv, AckInv, NEW s \in Stream, DataSend(s)
    PROVE  AckInv'
<1> SUFFICES ASSUME NoWrap' PROVE Numbered' /\ InTurn' /\ NotLost' /\ AckedInTurn'
  BY DEF AckInv
<1> DEFINE e == SendEntryOf(s)
           n == Len(sent[s])
<1>1. e.stream = s /\ e.seq = sendSeq[s] /\ e.id = calls + 1 /\ e.tsn = nextTsn /\ ~e.acked
  BY DEF SendEntryOf
<1>2. calls \in Nat /\ nextTsn \in Nat /\ n \in Nat /\ sendSeq[s] = n
  BY Lengths DEF SeqInv
<1>3. calls' = calls + 1 /\ nextTsn' = nextTsn + 1 /\ NoWrap
  <2>1. calls' = calls + 1 /\ nextTsn' = TsnAfter(nextTsn) /\ nextTsn \in 0 .. TsnMod - 1
    BY DEF DataSend, TypeOK, Tsn
  <2>2. nextTsn' = IF nextTsn + 1 < TsnMod THEN nextTsn + 1 ELSE 0
    BY <2>1, SizeAssumption DEF TsnAfter
  <2> QED BY <1>2, <2>1, <2>2 DEF NoWrap
<1>4. Numbered /\ InTurn /\ NotLost /\ AckedInTurn
  BY <1>3 DEF AckInv
<1>5. /\ net' = net \cup {DATA(e, e.id)} /\ sent' = [sent EXCEPT ![s] = Append(@, e.id)]
      /\ sendq' = Append(sendq, e) \/ sendq' = sendq
      /\ UNCHANGED <<receiverVars, sacks, delivered>>
  BY DEF DataSend, Fault, Orderly
<1>6. /\ \A u \in Stream : u # s => sent'[u] = sent[u]
      /\ Len(sent'[s]) = n + 1 /\ DOMAIN sent'[s] = 1 .. n + 1 /\ DOMAIN sent[s] = 1 .. n
      /\ sent'[s][n + 1] = calls + 1
      /\ \A k \in 1 .. n : sent'[s][k] = sent[s][k]
  <2>1. sent[s] \in Seq(Nat) /\ calls + 1 \in Nat /\ sent \in [Stream -> Seq(Nat)]
    BY DEF TypeOK
  <2>2. sent'[s] = Append(sent[s], calls + 1) /\ \A u \in Stream : u # s => sent'[u] = sent[u]
    BY <1>1, <1>5, <2>1
  <2> QED BY <2>1, <2>2
<1>7. sendq \in Seq(SendEntry) /\ e \in SendEntry
  BY DEF TypeOK, SendEntry, SendEntryOf
<1>8. Copies' \subseteq Copies \cup {CopyOf(e)}
  BY SendCopies
<1>9. /\ CopyOf(e).id = calls + 1 /\ CopyOf(e).tsn = nextTsn
      /\ DATA(e, e.id).kind = "DATA" /\ DATA(e, e.id).stream = s /\ DATA(e, e.id).seq = n /\ DATA(e, e.id).id = calls + 1 /\ DATA(e, e.id).tsn = nextTsn
  BY <1>1, <1>2 DEF CopyOf, DATA
<1> HIDE DEF e
<1>10. Numbered'
  <2>1. \A x \in Copies : x.id \in 1 .. calls /\ x.tsn = x.id + (nextTsn - calls - 1) /\ x.id \in Nat
    BY <1>4, CopyTypes DEF Numbered
  <2>2. \A x \in Copies' : x.id \in 1 .. calls' /\ x.tsn = x.id + (nextTsn' - calls' - 1)
    <3> SUFFICES ASSUME NEW x \in Copies' PROVE x.id \in 1 .. calls' /\ x.tsn = x.id + (nextTsn' - calls' - 1)
      OBVIOUS
    <3>1. CASE x \in Copies
      BY <1>2, <1>3, <2>1, <3>1
    <3>2. CASE x = CopyOf(e)
      BY <1>2, <1>3, <1>9, <3>2
    <3> QED BY <1>8, <3>1, <3>2
  <2>3. \A x, y \in Copies' : x.id = y.id => x = y
    <3>1. \A x \in Copies : x.id # calls + 1
      BY <1>2, <2>1
    <3> QED BY <1>4, <1>8, <1>9, <3>1 DEF Numbered
  <2>4. \A u \in Stream : \A j \in DOMAIN sent'[u] : sent'[u][j] \in 1 .. calls'
    <3> SUFFICES ASSUME NEW u \in Stream, NEW j \in DOMAIN sent'[u] PROVE sent'[u][j] \in 1 .. calls + 1
      BY <1>3
    <3>1. CASE u = s /\ j = n + 1
      BY <1>2, <1>6, <3>1
    <3>2. CASE ~(u = s /\ j = n + 1)
      <4>1. j \in DOMAIN sent[u] /\ sent'[u][j] = sent[u][j]
        BY <1>2, <1>6, <3>2
      <4>2. sent[u][j] \in 1 .. calls
        BY <1>4, <4>1 DEF Numbered
      <4> QED BY <1>2, <4>1, <4>2
    <3> QED BY <3>1, <3>2
  <2>5. \A u \in Stream : \A i, j \in DOMAIN sent'[u] : i < j => sent'[u][i] < sent'[u][j]
    <3> SUFFICES ASSUME NEW u \in Stream, NEW i \in DOMAIN sent'[u], NEW j \in DOMAIN sent'[u], i < j
                 PROVE  sent'[u][i] < sent'[u][j]
      OBVIOUS
    <3>1. CASE u # s
      BY <1>4, <1>6, <3>1 DEF Numbered
    <3>2. CASE u = s /\ j # n + 1
      <4>1. i \in 1 .. n /\ j \in 1 .. n
        <5>1. DOMAIN sent'[u] = 1 .. n + 1 /\ n \in Nat
          BY <1>2, <1>6, <3>2
        <5> HIDE DEF n
        <5> QED BY <3>2, <5>1
      <4>2. sent[s][i] < sent[s][j]
        BY <1>4, <1>6, <4>1 DEF Numbered
      <4> QED BY <1>6, <3>2, <4>1, <4>2
    <3>3. CASE u = s /\ j = n + 1
      <4>1. i \in 1 .. n /\ sent[s][i] \in 1 .. calls
        BY <1>2, <1>4, <1>6, <3>3 DEF Numbered
      <4> QED BY <1>2, <1>6, <3>3, <4>1
    <3> QED BY <3>1, <3>2, <3>3
  <2> QED BY <2>2, <2>3, <2>4, <2>5 DEF Numbered
<1>11. InTurn'
  <2>1. \A u \in Stream : \A i \in DOMAIN delivered[u] : sent'[u][i] = sent[u][i]
    <3>1. \A i \in DOMAIN delivered[s] : i \in 1 .. n
      BY Lengths
    <3> SUFFICES ASSUME NEW u \in Stream, NEW i \in DOMAIN delivered[u] PROVE sent'[u][i] = sent[u][i]
      OBVIOUS
    <3> HIDE DEF n
    <3>2. CASE u = s
      BY <1>6, <3>1, <3>2
    <3>3. CASE u # s
      BY <1>6, <3>3
    <3> QED BY <3>2, <3>3
  <2>2. \A x \in net' : x.kind = "DATA"
    BY <1>4, <1>5, <1>9 DEF InTurn
  <2>3. recvSeq' = recvSeq /\ delivered' = delivered
    BY <1>5 DEF receiverVars
  <2>4. \A u \in Stream : \A i \in DOMAIN delivered[u] : delivered[u][i].id = sent'[u][i]
    BY <1>4, <2>1 DEF InTurn
  <2>5. \A u \in Stream : recvSeq[u] = Len(delivered[u])
    BY <1>4 DEF InTurn
  <2> QED BY <2>2, <2>3, <2>4, <2>5 DEF InTurn
<1>12. NotLost'
  <2>1. \A t : Ahead(t)' <=> Ahead(t)
    BY <1>5 DEF Ahead, receiverVars
  <2>2. Ahead(nextTsn)'
    <3>1. Ahead(nextTsn) /\ rwTsn \in Nat /\ \A k \in sacks : k \in Nat
      BY <1>4, Lengths DEF NotLost
    <3> QED BY <1>2, <1>3, <1>5, <3>1 DEF Ahead, receiverVars
  <2>3. ASSUME NEW u \in Stream \ LossStreams, NEW j \in Undelivered(u)' PROVE Coming(u, j)'
    <3>1. CASE u = s /\ j = n + 1
      <4>0. PICK f \in net' : f = DATA(e, e.id)
        BY <1>5
      <4>1. f.tsn = nextTsn /\ Ahead(f.tsn)
        BY <1>4, <1>9, <4>0 DEF NotLost
      <4>2. f.kind = "DATA" /\ f.stream = u /\ f.seq = j - 1 /\ f.id = sent'[u][j]
        BY <1>2, <1>6, <1>9, <3>1, <4>0
      <4>3. Ahead(f.tsn)'
        BY <2>1, <4>1
      <4> QED BY <4>3, <4>1, <4>2 DEF Coming
    <3>2. CASE ~(u = s /\ j = n + 1)
      <4>1. j \in Undelivered(u) /\ sent'[u][j] = sent[u][j]
        BY <1>5, <1>6, <2>3, <3>2, Lengths DEF Undelivered
      <4>2. Coming(u, j)
        BY <1>4, <4>1 DEF NotLost
      <4>3. PICK f \in net : f.kind = "DATA" /\ f.stream = u /\ f.seq = j - 1 /\ f.id = sent[u][j] /\ Ahead(f.tsn)
        BY <4>2 DEF Coming
      <4>4. f \in net' /\ Ahead(f.tsn)'
        BY <1>5, <2>1, <4>3
      <4> QED BY <4>1, <4>3, <4>4 DEF Coming
    <3> QED BY <3>1, <3>2
  <2> QED BY <2>2, <2>3 DEF NotLost
<1>13. AckedInTurn'
  <2>1. \A i \in DOMAIN sendq' : sendq'[i] = e \/ (i \in DOMAIN sendq /\ sendq'[i] = sendq[i])
    BY <1>5, <1>7
  <2> QED BY <1>1, <1>4, <1>5, <2>1 DEF AckedInTurn
<1> QED BY <1>10, <1>11, <1>12, <1>13

LEMMA NumberedKept ==
    ASSUME Numbered, Copies' \subseteq Copies, UNCHANGED <<calls, nextTsn, sent>>
    PROVE  Numbered'
BY DEF Numbered

LEMMA FrameCopy ==
    ASSUME TypeOK, NEW m \in net, m.kind = "DATA"
    PROVE  /\ CopyOf(m) \in Copies
           /\ CopyOf(m).stream = m.stream /\ CopyOf(m).seq = m.seq /\ CopyOf(m).tsn = m.tsn /\ CopyOf(m).id = m.id
           /\ m.stream \in Stream /\ m.seq \in Nat /\ m.tsn \in Nat /\ m.id \in Nat /\ m.tsn \in Tsn
BY DEF Copies, CopyOf, TypeOK, Frame, SeqNo, Tsn

\* The receiver has room for every stream.
LEMMA Room ==
    ASSUME Orderly, TypeOK, NEW s \in Stream
    PROVE  get_stream(rstreams, s)
<1> SUFFICES ASSUME s \notin rstreams PROVE Cardinality(rstreams) < MaxStreams
  BY DEF get_stream
<1> DEFINE All == Stream \cup PeerStreams
<1>1. IsFiniteSet(All) /\ rstreams \cup {s} \subseteq All /\ rstreams \subseteq All
  BY DEF Orderly, TypeOK
<1>2. IsFiniteSet(rstreams) /\ Cardinality(rstreams \cup {s}) <= Cardinality(All)
  BY <1>1, FS_Subset
<1>3. Cardinality(rstreams \cup {s}) = Cardinality(rstreams) + 1
  BY <1>2, FS_AddElement
<1>4. Cardinality(rstreams) \in Nat /\ Cardinality(All) \in Nat /\ Cardinality(All) <= MaxStreams /\ MaxStreams \in Nat
  BY <1>1, <1>2, FS_CardinalityType, SizeAssumption DEF Orderly
<1> QED BY <1>2, <1>3, <1>4

\* A frame that arrives comes before what a spared stream still waits for, or it is the
\* very message whose turn it is, and the receiver takes it.
LEMMA Turn ==
    ASSUME Orderly, TypeOK, SeqInv, Numbered, InTurn, NotLost,
           NEW m \in net, Arrives(m), NEW s \in Stream \ LossStreams, NEW j \in Undelivered(s),
           NEW f \in net, f.stream = s, f.seq = j - 1, f.id = sent[s][j], Ahead(f.tsn)
    PROVE  \/ m.tsn < f.tsn
           \/ m.stream = s /\ j = Len(delivered[s]) + 1 /\ ~Replayed(m.tsn) /\ Expected(m)
<1> DEFINE n == Len(delivered[s])
<1>1. m.kind = "DATA" /\ f.kind = "DATA" /\ m.id <= f.id
  BY DEF InTurn, Arrives, Orderly
<1>2. /\ n \in Nat /\ Len(sent[s]) \in Nat /\ DOMAIN sent[s] = 1 .. Len(sent[s])
      /\ calls \in Nat /\ nextTsn \in Nat /\ rwTsn \in Nat /\ j \in n + 1 .. Len(sent[s])
  BY Lengths DEF Undelivered
<1>3. m.tsn = m.id + (nextTsn - calls - 1) /\ f.tsn = f.id + (nextTsn - calls - 1)
  <2>1. \A g \in net : g.kind = "DATA" => g.tsn = g.id + (nextTsn - calls - 1)
    BY FrameCopy DEF Numbered
  <2> QED BY <1>1, <2>1
<1>4. m.tsn \in Nat /\ f.tsn \in Nat /\ m.id \in Nat /\ f.id \in Nat
  BY <1>1, FrameCopy
<1>5. CASE m.id < f.id
  <2> DEFINE k == nextTsn - calls - 1
  <2>1. k \in Int
    BY <1>2
  <2>2. m.tsn = m.id + k /\ f.tsn = f.id + k
    BY <1>3
  <2> HIDE DEF k
  <2> QED BY <1>4, <1>5, <2>1, <2>2
<1>6. CASE m.id = f.id
  <2>1. m.stream = s /\ m.seq = j - 1 /\ m.tsn = f.tsn
    <3>1. CopyOf(m) = CopyOf(f)
      BY <1>1, <1>6, FrameCopy DEF Numbered
    <3> QED BY <1>1, <3>1, FrameCopy
  <2>2. j = n + 1
    <3> SUFFICES ASSUME j # n + 1 PROVE FALSE
      OBVIOUS
    <3>1. n + 1 \in Undelivered(s) /\ n + 1 < j /\ n + 1 \in DOMAIN sent[s] /\ j \in DOMAIN sent[s]
      BY <1>2 DEF Undelivered
    <3>2. PICK g \in net : g.id = sent[s][n + 1]
      BY <3>1 DEF NotLost, Coming
    <3>3. m.id <= g.id
      BY DEF Arrives, Orderly
    <3>4. sent[s][n + 1] < sent[s][j]
      BY <3>1 DEF Numbered
    <3> HIDE DEF n
    <3>5. g.id < m.id /\ g.id \in Nat
      BY <1>6, <3>2, <3>4, FrameCopy DEF InTurn
    <3> QED BY <1>4, <3>3, <3>5
  <2>3. Expected(m)
    BY <1>2, <2>1, <2>2, Room DEF Expected, InTurn
  <2>4. ~Replayed(m.tsn)
    <3>1. rwTsn < m.tsn \/ (rwTsn = 0 /\ rwMask = {})
      BY <2>1 DEF Ahead
    <3> QED BY <1>2, <1>4, <3>1, BoundTypes DEF Replayed
  <2> QED BY <2>1, <2>2, <2>3, <2>4
<1> QED BY <1>1, <1>4, <1>5, <1>6

\* Marking and acknowledging a TSN leaves later ones ahead.
LEMMA AheadKept ==
    ASSUME TypeOK, NEW t \in Nat, NEW u \in Nat, u < t, Ahead(t), rw_mark(u), cum_and_sack(u)
    PROVE  Ahead(t)'
<1>1. rwTsn \in Nat
  BY DEF TypeOK, Tsn
<1>2. \A k \in sacks' : k \in sacks \/ k = u
  BY DEF cum_and_sack
<1>3. rwTsn' < t
  <2>1. CASE u > rwTsn
    BY <2>1 DEF rw_mark
  <2>2. CASE ~(u > rwTsn)
    BY <1>1, <2>2 DEF rw_mark, Ahead
  <2> QED BY <2>1, <2>2
<1> QED BY <1>2, <1>3 DEF Ahead

\* What a step keeps on its way when it takes from the network only what no spared
\* stream waits for, and delivers nothing out of turn.
LEMMA NotLostKept ==
    ASSUME NotLost, UNCHANGED <<sent, nextTsn>>, Ahead(nextTsn)',
           \A s \in Stream : \A j \in Undelivered(s)' : j \in Undelivered(s),
           \A s \in Stream \ LossStreams : \A j \in Undelivered(s)' : \A f \in net :
               f.stream = s /\ f.seq = j - 1 /\ f.id = sent[s][j] /\ Ahead(f.tsn) => f \in net' /\ Ahead(f.tsn)'
    PROVE  NotLost'
<1> SUFFICES ASSUME NEW s \in Stream \ LossStreams, NEW j \in Undelivered(s)' PROVE Coming(s, j)'
  BY DEF NotLost
<1>1. Coming(s, j)
  BY DEF NotLost
<1>2. PICK f \in net : f.kind = "DATA" /\ f.stream = s /\ f.seq = j - 1 /\ f.id = sent[s][j] /\ Ahead(f.tsn)
  BY <1>1 DEF Coming
<1>3. f \in net' /\ Ahead(f.tsn)'
  BY <1>2
<1> QED BY <1>2, <1>3 DEF Coming

\* Every TSN in flight is below the next one.
LEMMA BelowNext ==
    ASSUME TypeOK, Numbered, NEW m \in net, m.kind = "DATA"
    PROVE  m.tsn < nextTsn /\ m.tsn \in Nat /\ nextTsn \in Nat
<1>1. calls \in Nat /\ nextTsn \in Nat
  BY DEF TypeOK, Tsn
<1>2. m.id \in 1 .. calls /\ m.tsn = m.id + (nextTsn - calls - 1) /\ m.tsn \in Nat
  BY FrameCopy DEF Numbered
<1> QED BY <1>1, <1>2

\* What arrives and is not delivered is nothing a spared stream waits for.
LEMMA AckSkip ==
    ASSUME Orderly, TypeOK, SeqInv, AckInv, NEW m \in net, RecvReplay(m) \/ RecvOutOfOrder(m)
    PROVE  AckInv'
<1>0. UNCHANGED <<senderVars, recvSeq, histVars>> /\ Taken(m) /\ Arrives(m) /\ m.kind = "DATA"
  BY DEF RecvReplay, RecvOutOfOrder, receiverVars
<1>1. UNCHANGED <<nextTsn, sendq, calls, sent, delivered, recvSeq>> /\ net \ {m} \subseteq net' /\ net' \subseteq net
  BY <1>0 DEF senderVars, histVars, Taken
<1> SUFFICES ASSUME NoWrap' PROVE Numbered' /\ InTurn' /\ NotLost' /\ AckedInTurn'
  BY DEF AckInv
<1>2. Numbered /\ InTurn /\ NotLost /\ AckedInTurn
  BY <1>1 DEF AckInv, NoWrap
<1>3. Numbered'
  BY <1>1, <1>2, CopiesKept, NumberedKept
<1>4. InTurn'
  BY <1>1, <1>2 DEF InTurn
<1>5. AckedInTurn'
  BY <1>1, <1>2 DEF AckedInTurn
<1>6. ASSUME NEW t \in Nat, m.tsn < t, Ahead(t) PROVE Ahead(t)'
  <2>1. CASE RecvReplay(m)
    BY <1>6, <2>1 DEF RecvReplay, receiverVars, Ahead
  <2>2. CASE RecvOutOfOrder(m)
    BY <1>0, <1>6, <2>2, AheadKept, FrameCopy DEF RecvOutOfOrder
  <2> QED BY <2>1, <2>2
<1>7. Ahead(nextTsn)'
  <2>1. PICK t \in Nat : t = nextTsn
    BY <1>0, <1>2, BelowNext
  <2>2. Ahead(t)'
    BY <1>0, <1>2, <1>6, <2>1, BelowNext DEF NotLost
  <2> QED BY <1>1, <2>1, <2>2
<1>8. ASSUME NEW s \in Stream \ LossStreams, NEW j \in Undelivered(s), NEW f \in net,
             f.stream = s, f.seq = j - 1, f.id = sent[s][j], Ahead(f.tsn)
      PROVE  f \in net' /\ Ahead(f.tsn)'
  <2>1. ~(~Replayed(m.tsn) /\ Expected(m))
    BY DEF RecvReplay, RecvOutOfOrder
  <2>2. m.tsn < f.tsn /\ f.tsn \in Nat /\ m.tsn \in Nat
    BY <1>0, <1>2, <1>8, <2>1, Turn, FrameCopy DEF InTurn
  <2> QED BY <1>1, <1>6, <1>8, <2>2
<1>9. \A s : Undelivered(s)' = Undelivered(s)
  BY <1>1 DEF Undelivered
<1>10. NotLost'
  BY <1>1, <1>2, <1>7, <1>8, <1>9, NotLostKept
<1> QED BY <1>3, <1>4, <1>5, <1>10

\* A message delivered in its turn.
LEMMA AckTake ==
    ASSUME Orderly, TypeOK, SeqInv, AckInv, NEW m \in net, RecvInOrder(m)
    PROVE  AckInv'
<1> DEFINE w == m.stream
           d == [tsn |-> m.tsn, id |-> m.id, data |-> m.data]
           n == Len(delivered[w])
<1>0. /\ UNCHANGED <<senderVars, calls, sent>> /\ Taken(m) /\ Arrives(m) /\ m.kind = "DATA" /\ Expected(m)
      /\ recvSeq' = [recvSeq EXCEPT ![w] = SeqAfter(@)] /\ delivered' = [delivered EXCEPT ![w] = Append(@, d)]
      /\ rw_mark(m.tsn) /\ cum_and_sack(m.tsn)
  BY DEF RecvInOrder
<1>1. UNCHANGED <<nextTsn, sendq, calls, sent>> /\ net \ {m} \subseteq net' /\ net' \subseteq net
  BY <1>0 DEF senderVars, Taken
<1> SUFFICES ASSUME NoWrap' PROVE Numbered' /\ InTurn' /\ NotLost' /\ AckedInTurn'
  BY DEF AckInv
<1>2. Numbered /\ InTurn /\ NotLost /\ AckedInTurn
  BY <1>1 DEF AckInv, NoWrap
<1>3. Numbered'
  BY <1>1, <1>2, CopiesKept, NumberedKept
<1>4. w \in Stream /\ n \in Nat /\ delivered[w] \in Seq(Delivery) /\ delivered \in [Stream -> Seq(Delivery)] /\ d \in Delivery /\ d.id = m.id
  BY <1>0, FrameCopy, Lengths DEF TypeOK, Delivery, Frame
<1>5. m.seq = n /\ n + 1 \in DOMAIN sent[w] /\ sent[w][n + 1] = m.id /\ n + 1 < SeqMod
  <2>1. m.seq = n
    BY <1>0, <1>2, <1>4 DEF Expected, InTurn
  <2>2. AtItsPlace(CopyOf(m))
    BY <1>0, FrameCopy DEF SeqInv
  <2>3. n + 1 \in DOMAIN sent[w] /\ sent[w][n + 1] = m.id
    BY <1>0, <2>1, <2>2, FrameCopy DEF AtItsPlace
  <2>4. Len(sent[w]) <= MaxMsg /\ n + 1 <= Len(sent[w])
    BY <1>4, <2>3, Lengths DEF SeqInv
  <2> QED BY <1>4, <2>1, <2>3, <2>4, BoundTypes, Lengths DEF Orderly
<1> HIDE DEF d
<1>6. /\ delivered'[w] = Append(delivered[w], d)
      /\ \A u \in Stream : u # w => delivered'[u] = delivered[u] /\ recvSeq'[u] = recvSeq[u]
      /\ recvSeq'[w] = n + 1
  BY <1>0, <1>2, <1>4, <1>5, SeqAfterSmall DEF TypeOK, InTurn
<1>7. /\ Len(delivered'[w]) = n + 1 /\ DOMAIN delivered'[w] = 1 .. n + 1 /\ DOMAIN delivered[w] = 1 .. n
      /\ delivered'[w][n + 1].id = m.id /\ \A i \in 1 .. n : delivered'[w][i] = delivered[w][i]
  BY <1>4, <1>6
<1> HIDE DEF n, w
<1>8. InTurn'
  <2>1. \A u \in Stream : recvSeq'[u] = Len(delivered'[u])
    BY <1>2, <1>6, <1>7 DEF InTurn
  <2>2. ASSUME NEW u \in Stream, NEW i \in DOMAIN delivered'[u] PROVE delivered'[u][i].id = sent[u][i]
    <3>1. CASE u # w
      BY <1>2, <1>6, <2>2, <3>1 DEF InTurn
    <3>2. CASE u = w /\ i = n + 1
      BY <1>5, <1>7, <3>2
    <3>3. CASE u = w /\ i # n + 1
      <4>1. i \in 1 .. n
        BY <1>4, <1>7, <2>2, <3>3
      <4> QED BY <1>2, <1>4, <1>7, <3>3, <4>1 DEF InTurn
    <3> QED BY <3>1, <3>2, <3>3
  <2> QED BY <1>1, <1>2, <2>1, <2>2 DEF InTurn
<1>9. \A u \in Stream : Len(delivered[u]) <= Len(delivered'[u]) /\ Len(delivered[u]) \in Nat /\ Len(delivered'[u]) \in Nat
  <2>1. \A u \in Stream : Len(delivered[u]) \in Nat
    BY Lengths
  <2> QED BY <1>4, <1>6, <1>7, <2>1 DEF n
<1>10. AckedInTurn'
  <2>1. \A i \in DOMAIN sendq : sendq[i].stream \in Stream /\ sendq[i].seq \in Nat
    <3>1. \A i \in DOMAIN sendq : sendq[i] \in SendEntry
      BY DEF TypeOK
    <3> QED BY <3>1, BoundTypes DEF SendEntry, SeqNo
  <2> QED BY <1>1, <1>2, <1>9, <2>1 DEF AckedInTurn
<1>11. ASSUME NEW t \in Nat, m.tsn < t, Ahead(t) PROVE Ahead(t)'
  BY <1>0, <1>11, AheadKept, FrameCopy
<1>12. Ahead(nextTsn)'
  <2>1. PICK t \in Nat : t = nextTsn
    BY <1>0, <1>2, BelowNext
  <2>2. Ahead(t)'
    BY <1>0, <1>2, <1>11, <2>1, BelowNext DEF NotLost
  <2> QED BY <1>1, <2>1, <2>2
<1>13. ASSUME NEW s \in Stream, NEW j \in Undelivered(s)'
       PROVE  j \in Undelivered(s) /\ (s = w => j # n + 1)
  BY <1>1, <1>4, <1>6, <1>7, <1>9, <1>13, Lengths DEF Undelivered
<1>14. ASSUME NEW s \in Stream \ LossStreams, NEW j \in Undelivered(s)', NEW f \in net,
              f.stream = s, f.seq = j - 1, f.id = sent[s][j], Ahead(f.tsn)
       PROVE  f \in net' /\ Ahead(f.tsn)'
  <2>1. j \in Undelivered(s) /\ (s = w => j # n + 1)
    BY <1>13, <1>14
  <2>2. m.tsn < f.tsn
    <3>1. \/ m.tsn < f.tsn
          \/ m.stream = s /\ j = Len(delivered[s]) + 1
      BY <1>0, <1>2, <1>14, <2>1, Turn
    <3> QED BY <2>1, <3>1 DEF n, w
  <2>3. f.tsn \in Nat /\ m.tsn \in Nat
    BY <1>0, <1>2, FrameCopy DEF InTurn
  <2> QED BY <1>1, <1>11, <1>14, <2>2, <2>3
<1>15. NotLost'
  BY <1>1, <1>2, <1>12, <1>13, <1>14, NotLostKept
<1> QED BY <1>3, <1>8, <1>10, <1>15

\* The sender and the network: nothing is delivered, the window stays, SACKs only go.
LEMMA AckQuiet ==
    ASSUME TypeOK, SeqInv, AckInv, Copies' \subseteq Copies,
           UNCHANGED <<nextTsn, calls, sent, delivered, recvSeq, rwTsn, rwMask>>, sacks' \subseteq sacks,
           \A f \in net : f.stream \notin LossStreams => f \in net',
           NoWrap => (\A m \in net' : m.kind = "DATA") /\ AckedInTurn'
    PROVE  AckInv'
<1> SUFFICES ASSUME NoWrap' PROVE Numbered' /\ InTurn' /\ NotLost' /\ AckedInTurn'
  BY DEF AckInv
<1>1. NoWrap /\ Numbered /\ InTurn /\ NotLost /\ AckedInTurn'
  BY DEF AckInv, NoWrap
<1>2. Numbered'
  BY <1>1, NumberedKept
<1>3. InTurn'
  BY <1>1 DEF InTurn
<1>4. \A t : Ahead(t) => Ahead(t)'
  BY DEF Ahead
<1>5. Ahead(nextTsn)'
  BY <1>1 DEF NotLost, Ahead
<1>6. \A s : Undelivered(s)' = Undelivered(s)
  BY DEF Undelivered
<1>7. NotLost'
  BY <1>1, <1>4, <1>5, <1>6, NotLostKept
<1> QED BY <1>1, <1>2, <1>3, <1>7

\* A SACK covers no message a spared stream still waits for.
LEMMA AckSack ==
    ASSUME TypeOK, SeqInv, AckInv, NEW cum \in sacks, RecvSack(cum)
    PROVE  AckInv'
<1>1. /\ DOMAIN sendq' = DOMAIN sendq /\ sacks' \subseteq sacks
      /\ UNCHANGED <<nextTsn, calls, sent, delivered, recvSeq, rwTsn, rwMask, net>>
  BY DEF RecvSack, receiverVars, histVars
<1>2. ASSUME NEW i \in DOMAIN sendq
      PROVE  /\ CopyOf(sendq'[i]) = CopyOf(sendq[i])
             /\ sendq'[i].stream = sendq[i].stream /\ sendq'[i].seq = sendq[i].seq
             /\ sendq'[i].acked => sendq[i].acked \/ sendq[i].tsn <= cum
  <2>1. sendq[i] \in SendEntry
    BY DEF TypeOK
  <2> QED BY <2>1 DEF RecvSack, SendEntry, CopyOf
<1>3. Copies' \subseteq Copies
  BY <1>1, <1>2, CopiesKept
<1>4. ASSUME NoWrap PROVE AckedInTurn'
  <2>1. Numbered /\ InTurn /\ NotLost /\ AckedInTurn
    BY <1>4 DEF AckInv
  <2> SUFFICES ASSUME NEW i \in DOMAIN sendq, sendq[i].stream \notin LossStreams, sendq[i].tsn <= cum
               PROVE  sendq[i].seq < Len(delivered[sendq[i].stream])
    BY <1>1, <1>2, <2>1 DEF AckedInTurn
  <2> DEFINE x == CopyOf(sendq[i])
             s == sendq[i].stream
             j == sendq[i].seq + 1
  <2>2. x \in Copies /\ x.stream = s /\ x.seq = sendq[i].seq /\ x.tsn = sendq[i].tsn /\ x.id = sendq[i].id
    BY DEF Copies, CopyOf
  <2> HIDE DEF x
  <2>3. s \in Stream /\ sendq[i].seq \in Nat /\ x.tsn \in Nat /\ cum \in Nat
    BY <2>2, CopyTypes DEF TypeOK, Tsn
  <2>4. j \in DOMAIN sent[s] /\ sent[s][j] = x.id
    BY <2>2 DEF SeqInv, AtItsPlace
  <2> SUFFICES ASSUME ~(sendq[i].seq < Len(delivered[s])) PROVE FALSE
    OBVIOUS
  <2>5. j \in Undelivered(s)
    BY <2>3, <2>4, Lengths DEF Undelivered
  <2>6. PICK f \in net : f.kind = "DATA" /\ f.id = sent[s][j] /\ Ahead(f.tsn)
    BY <2>1, <2>3, <2>5 DEF NotLost, Coming
  <2>7. CopyOf(f) = x
    BY <2>1, <2>2, <2>4, <2>6, FrameCopy DEF Numbered
  <2>8. cum < x.tsn
    BY <2>6, <2>7, FrameCopy DEF Ahead
  <2> QED BY <2>2, <2>3, <2>8
<1>5. NoWrap => \A m \in net' : m.kind = "DATA"
  BY <1>1 DEF AckInv, InTurn
<1> QED BY <1>1, <1>3, <1>4, <1>5, AckQuiet

LEMMA AckStep ==
    ASSUME Orderly, TypeOK, WindowInv, SeqInv, AckInv, [Next]_vars
    PROVE  AckInv'
<1>1. ASSUME NEW s \in Stream, DataSend(s) PROVE AckInv'
  BY <1>1, AckSend
<1>2. ASSUME UNCHANGED <<nextTsn, calls, sent, delivered, recvSeq, rwTsn, rwMask, sendq>>, sacks' \subseteq sacks,
             \A m \in net' : m \in net \/ \E i \in DOMAIN sendq : m = DATA(sendq[i], Blank),
             \A f \in net : f.stream \notin LossStreams => f \in net'
      PROVE  AckInv'
  <2>1. Copies' \subseteq Copies
    BY <1>2, CopiesKept
  <2>2. \A i \in DOMAIN sendq : DATA(sendq[i], Blank).kind = "DATA"
    BY DEF DATA
  <2>3. NoWrap => \A m \in net' : m.kind = "DATA"
    BY <1>2, <2>2 DEF AckInv, InTurn
  <2>4. NoWrap => AckedInTurn'
    BY <1>2 DEF AckInv, AckedInTurn
  <2> QED BY <1>2, <2>1, <2>3, <2>4, AckQuiet
<1>3. ASSUME NEW old \in SUBSET Unacked, DataRetransmit(old) PROVE AckInv'
  BY <1>3, <1>2 DEF DataRetransmit, Unacked, senderVars, receiverVars, histVars
<1>4. ASSUME NEW m \in net, Lose(m) PROVE AckInv'
  BY <1>4, <1>2 DEF Lose, senderVars, receiverVars, histVars
<1>5. ASSUME NEW cum \in sacks, LoseSack(cum) PROVE AckInv'
  BY <1>5, <1>2 DEF LoseSack, senderVars, receiverVars, histVars
<1>6. CASE UNCHANGED vars
  BY <1>6, <1>2 DEF vars, senderVars, receiverVars, netVars, histVars
<1>7. ASSUME NEW cum \in sacks, RecvSack(cum) PROVE AckInv'
  BY <1>7, AckSack
<1>8. ASSUME NEW m \in net, RecvReplay(m) \/ RecvOutOfOrder(m) PROVE AckInv'
  BY <1>8, AckSkip
<1>9. ASSUME NEW m \in net, RecvInOrder(m) PROVE AckInv'
  BY <1>9, AckTake
<1>10. ASSUME NEW m \in net, RecvStreamReset(m) PROVE AckInv'
  \* No STREAM-RESET was sent.
  <2>1. UNCHANGED <<calls, nextTsn>> /\ m.kind # "DATA"
    BY <1>10 DEF RecvStreamReset, senderVars, histVars
  <2> QED BY <2>1 DEF AckInv, InTurn, NoWrap
<1>11. ASSUME NEW s \in Stream, StreamReset(s) PROVE FALSE
  BY <1>11 DEF StreamReset, Fault, Orderly
<1>12. ASSUME NEW t \in ForeignTsn, RecvForeign(t) PROVE FALSE
  BY <1>12 DEF RecvForeign, Fault, Orderly
<1> QED
  BY <1>1, <1>3, <1>4, <1>5, <1>6, <1>7, <1>8, <1>9, <1>10, <1>11, <1>12 DEF Next, Recv

LEMMA AckInit == Init => AckInv
<1> SUFFICES ASSUME Init PROVE Numbered /\ InTurn /\ NotLost /\ AckedInTurn
  BY DEF AckInv
<1>1. Numbered /\ InTurn /\ AckedInTurn
  BY DEF Init, Numbered, InTurn, AckedInTurn, Copies
<1>2. Ahead(nextTsn)
  BY DEF Init, Ahead
<1>3. \A s \in Stream : Undelivered(s) = {}
  BY DEF Init, Undelivered
<1> QED BY <1>1, <1>2, <1>3 DEF NotLost

\* Delivered in its turn, a message is among those that arrived.
LEMMA AckedArrived ==
    ASSUME TypeOK, SeqInv, AckInv, NoWrap
    PROVE  AckedIsDelivered
<1> SUFFICES ASSUME NEW i \in DOMAIN sendq, sendq[i].acked, sendq[i].stream \notin LossStreams
             PROVE  sendq[i].id \in Arrived
  BY DEF AckedIsDelivered
<1> DEFINE x == CopyOf(sendq[i])
           s == sendq[i].stream
           j == sendq[i].seq + 1
<1>1. x \in Copies /\ x.stream = s /\ x.seq = sendq[i].seq /\ x.id = sendq[i].id
  BY DEF Copies, CopyOf
<1> HIDE DEF x
<1>2. s \in Stream /\ sendq[i].seq \in Nat
  BY <1>1, CopyTypes
<1>3. sent[s][j] = x.id
  BY <1>1 DEF SeqInv, AtItsPlace
<1>4. sendq[i].seq < Len(delivered[s])
  BY DEF AckInv, AckedInTurn
<1>5. j \in DOMAIN delivered[s]
  BY <1>2, <1>4, Lengths
<1>6. delivered[s][j].id = sendq[i].id
  BY <1>1, <1>2, <1>3, <1>5 DEF AckInv, InTurn
<1> QED BY <1>2, <1>5, <1>6 DEF Arrived

\* What icsp_all_acked promises on a network that keeps order: until the TSN wraps, an
\* acknowledged message of a stream whose DATA is not lost has reached the callback,
\* although icsp_data_handle acknowledges the highest TSN opened, gaps included, and
\* other streams and SACKs are lost and frames repeated at will.
THEOREM AckedMeansDelivered ==
    ASSUME Orderly
    PROVE  Spec => [](NoWrap => AckedIsDelivered)
<1> DEFINE Inv == TypeOK /\ WindowInv /\ DeliveredOnce /\ SeqInv /\ AckInv
<1>1. Init => Inv
  BY InitType, WindowInit, SeqInit, AckInit
<1>2. Inv /\ [Next]_vars => Inv'
  <2>1. MaxMsg < SeqMod
    BY DEF Orderly
  <2> QED BY <2>1, NextType, WindowStep, SeqStep, AckStep
<1>3. Inv => (NoWrap => AckedIsDelivered)
  BY AckedArrived
<1> QED BY <1>1, <1>2, <1>3, PTL DEF Spec
=============================================================================
