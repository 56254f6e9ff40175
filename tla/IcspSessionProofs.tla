------------------------- MODULE IcspSessionProofs -------------------------
(***************************************************************************)
(* Theorems about IcspSession: types, and that the two ends of an           *)
(* association seal with the same key and assoc_id whenever both are out of *)
(* their rekeys, for any number of rekeys, messages, late frames, repeated  *)
(* frames (but COOKIE-ACK), kills and foreign INITs; that no message is     *)
(* delivered twice; that only a disturbance ends an association with an     *)
(* error; and that a peer that lives is not declared dead unless more       *)
(* frames are lost than it takes.                                           *)
(***************************************************************************)
EXTENDS IcspSession, TLAPS

-----------------------------------------------------------------------------
(* Types, in parts.                                                          *)

AssocType ==
    /\ st \in [End -> Live \cup Gone]
    /\ key \in [End -> Key] /\ assoc \in [End -> Nat]
    /\ eph \in Nat /\ answer \in [n : Nat, eph : Nat] /\ lastTs \in Nat /\ reph \in Nat
PlaneOK(d) ==
    /\ d \in DataPlane
    /\ d.cum <= d.top /\ d.seen \subseteq d.top - Window + 1 .. d.top
DataType == DOMAIN dp = End /\ dp = [e \in End |-> dp[e]] /\ \A e \in End : PlaneOK(dp[e])
SilenceType == silence \in [End -> 0 .. DeadTimeout] /\ mac \in [End -> BOOLEAN]
AgeType == hbAge \in [End -> 0 .. HbInterval] /\ keyAge \in 0 .. RekeyAfter
LinkType == chan \in [End -> Seq(Frame)] /\ late \in [End -> SUBSET Frame]
EnvType == trouble \in Nat /\ happened \subseteq Trouble \cup {"late", "dup"}
MsgType == sent \in [End -> Nat] /\ got \in [End -> Seq(Nat)] /\ must \subseteq End \X Nat /\ early \in BOOLEAN

\* TypeOK is the conjunction of its parts.
LEMMA TypeParts ==
    TypeOK <=> /\ AssocType /\ DataType /\ SilenceType /\ AgeType
               /\ LinkType /\ EnvType /\ MsgType
BY DEF TypeOK, AssocType, DataType, PlaneOK, SilenceType, AgeType, LinkType, EnvType, MsgType

\* And so in the next state.
LEMMA TypePartsNext ==
    TypeOK' <=> /\ AssocType' /\ DataType' /\ SilenceType' /\ AgeType'
                /\ LinkType' /\ EnvType' /\ MsgType'
BY DEF TypeOK, AssocType, DataType, PlaneOK, SilenceType, AgeType, LinkType, EnvType, MsgType

\* Every chunk the ends build is a Frame.
LEMMA ChunkTypes ==
    /\ \A t \in ChunkType : Chunk(t) \in Frame /\ Chunk(t).type = t
    /\ \A n \in Nat : INIT(n) \in Frame /\ INIT(n).type = "INIT" /\ INIT(n).n = n
    /\ \A n, r \in Nat : /\ INIT_ACK(n, r) \in Frame /\ INIT_ACK(n, r).type = "INIT_ACK"
                         /\ INIT_ACK(n, r).n = n /\ INIT_ACK(n, r).eph = r
    /\ \A n \in Nat : COOKIE_ECHO(n) \in Frame /\ COOKIE_ECHO(n).type = "COOKIE_ECHO" /\ COOKIE_ECHO(n).n = n
    /\ \A s \in Seal, d \in DataPlane, m \in Nat : DATA(s, d, m) \in Frame /\ DATA(s, d, m).type = "DATA"
BY DEF Chunk, INIT, INIT_ACK, COOKIE_ECHO, DATA, Frame, ChunkType, NoSeal, Seal, Key, DataPlane

-----------------------------------------------------------------------------
(* Sequences and frames in flight.                                           *)

Members(s) == {s[i] : i \in 1 .. Len(s)}

\* What a concatenation holds.
LEMMA MembersCat ==
    ASSUME NEW S, NEW s \in Seq(S), NEW t \in Seq(S)
    PROVE  s \o t \in Seq(S) /\ Members(s \o t) = Members(s) \cup Members(t)
<1>1. s \o t \in Seq(S) /\ Len(s \o t) = Len(s) + Len(t) /\ Len(s) \in Nat /\ Len(t) \in Nat
  OBVIOUS
<1>2. \A i \in 1 .. Len(s) : (s \o t)[i] = s[i] /\ i \in 1 .. Len(s \o t)
  BY <1>1
<1>3. \A i \in 1 .. Len(t) : (s \o t)[Len(s) + i] = t[i] /\ Len(s) + i \in 1 .. Len(s \o t)
  BY <1>1
<1>4. \A i \in 1 .. Len(s \o t) : i \in 1 .. Len(s) \/ (i - Len(s) \in 1 .. Len(t) /\ i = Len(s) + (i - Len(s)))
  BY <1>1
<1>5. Members(s \o t) \subseteq Members(s) \cup Members(t)
  BY <1>2, <1>3, <1>4 DEF Members
<1>6. Members(s) \cup Members(t) \subseteq Members(s \o t)
  BY <1>2, <1>3 DEF Members
<1> QED BY <1>1, <1>5, <1>6

\* What the rest of a sequence holds.
LEMMA MembersTail ==
    ASSUME NEW S, NEW s \in Seq(S), s # << >>
    PROVE  /\ Tail(s) \in Seq(S) /\ Head(s) \in S
           /\ Head(s) \in Members(s) /\ Members(Tail(s)) \subseteq Members(s)
<1>1. Len(s) \in Nat \ {0} /\ Tail(s) \in Seq(S) /\ Len(Tail(s)) = Len(s) - 1 /\ Head(s) = s[1] /\ s[1] \in S
  OBVIOUS
<1>2. \A i \in 1 .. Len(Tail(s)) : Tail(s)[i] = s[i + 1] /\ i + 1 \in 1 .. Len(s)
  BY <1>1
<1> QED BY <1>1, <1>2 DEF Members

-----------------------------------------------------------------------------
(* The inductive invariant.                                                  *)

\* The frames on their way to e.
Flying(e) == late[e] \cup Members(chan[e])

Ack == Chunk("COOKIE_ACK")
NoAck(F) == \A m \in F : m.type # "COOKIE_ACK"
AckOnce(s) == \A i, j \in 1 .. Len(s) : s[i].type = "COOKIE_ACK" /\ s[j].type = "COOKIE_ACK" => i = j

\* Each end only waits for what its side of a rekey waits for, and gets only the other side's
\* frames.
RoleInv ==
    /\ st["ini"] # "wait_cookie" /\ st["res"] \notin {"wait_ack", "wait_cookie_ack"}
    /\ \A m \in Flying("ini") : m.type \notin {"INIT", "COOKIE_ECHO"}
    /\ \A m \in Flying("res") : m.type \notin {"INIT_ACK", "COOKIE_ACK"}

\* The assoc_ids and the responder's key follow the INITs; during a rekey the initiator's key is
\* still an earlier one.
Behind == key["ini"].init < eph
NumberInv ==
    /\ lastTs <= eph
    /\ assoc["ini"] = eph /\ assoc["res"] = lastTs
    /\ key["res"] = [init |-> lastTs, resp |-> reph] /\ key["ini"].init <= eph
    /\ st["ini"] \in {"wait_ack", "wait_cookie_ack"} => Behind
    /\ st["res"] = "wait_cookie" => lastTs = eph /\ Behind

\* An INIT the responder would answer is the latest one.  A cookie names an INIT the responder
\* has answered, and the one that names its last INIT came with its last ephemeral.
CookieInv ==
    /\ \A m \in Flying("res") : m.type \in {"INIT", "COOKIE_ECHO"} => m.n <= eph
    /\ \A m \in Flying("res") : m.type = "INIT" /\ init_fresh(m.n) =>
           m.n = eph /\ Behind /\ st["ini"] # "established"
    /\ \A m \in Flying("ini") : m.type = "INIT_ACK" => m.n <= lastTs /\ (m.n = lastTs => m.eph = reph)
    /\ st["ini"] = "wait_cookie_ack" => answer.n <= lastTs /\ (answer.n = lastTs => answer.eph = reph)
    /\ \A m \in Flying("res") : m.type = "COOKIE_ECHO" /\ m.n = eph =>
           /\ lastTs = eph
           /\ st["ini"] # "wait_ack"
           /\ st["ini"] = "wait_cookie_ack" => answer.n = eph

\* There is at most one COOKIE-ACK, and it answers the latest INIT.
OneAck ==
    /\ \A m \in Flying("ini") : m.type = "COOKIE_ACK" => m = Ack
    /\ AckOnce(chan["ini"])
    /\ ~NoAck(late["ini"]) => NoAck(Members(chan["ini"]))
AckInv ==
    /\ OneAck
    /\ ~NoAck(Flying("ini")) =>
           /\ st["ini"] = "wait_cookie_ack" /\ st["res"] # "wait_cookie"
           /\ answer.n = eph /\ lastTs = eph

\* The initiator is out of its rekeys only when the responder is.
AgreeInv ==
    st["ini"] = "established" =>
        /\ st["res"] # "wait_cookie"
        /\ "send" \notin happened => lastTs = eph /\ seal("ini") = seal("res")

\* A COOKIE-ACK came again, which ends all this.
AckRepeats == "COOKIE_ACK" \in DupKinds /\ "dup" \in happened

Parts == RoleInv /\ NumberInv /\ CookieInv /\ AckInv /\ AgreeInv
SealInv == AckRepeats \/ Parts
IndInv == TypeOK /\ SealInv

-----------------------------------------------------------------------------
(* What the operations on frames do.                                         *)

\* There are two ends.
LEMMA PeerEnd == /\ \A e \in End : Peer(e) \in End /\ Peer(e) # e
                 /\ Peer("ini") = "res" /\ Peer("res") = "ini" /\ End = {"ini", "res"}
BY DEF Peer, End

\* Nothing is in the empty sequence.
LEMMA EmptyMembers == \A S : << >> \in Seq(S) /\ Members(<< >>) = {}
BY DEF Members

\* One frame is in the sequence of one.
LEMMA OneMember == \A S : \A x \in S : <<x>> \in Seq(S) /\ Members(<<x>>) = {x}
BY DEF Members

\* Frames put to the peer, or nobody.
LEMMA ToFrames ==
    ASSUME NEW e \in End, NEW fs \in Seq(Frame)
    PROVE  To(e, fs) \in Seq(Frame) /\ ((To(e, fs) = fs /\ st[Peer(e)] \in Live) \/ To(e, fs) = << >>)
BY EmptyMembers DEF To

\* e receives m and sends fs.
LEMMA TakeFrames ==
    ASSUME LinkType, EnvType, NEW e \in End, NEW m \in Arriving(e), NEW fs \in Seq(Frame),
           Take(e, m, fs)
    PROVE  /\ LinkType' /\ EnvType' /\ m \in Frame /\ m \in Flying(e)
           /\ Flying(e)' \subseteq Flying(e)
           /\ Flying(Peer(e))' \subseteq Flying(Peer(e)) \cup Members(To(e, fs))
           /\ "send" \in happened' => "send" \in happened
<1> DEFINE p == Peer(e)  ts == To(e, fs)
<1>1. p \in End /\ p # e
  BY PeerEnd
<1>2. ts \in Seq(Frame)
  BY ToFrames
<1>3. chan[e] \in Seq(Frame) /\ chan[p] \in Seq(Frame) /\ late[e] \subseteq Frame /\ late[p] \subseteq Frame
  BY <1>1 DEF LinkType
<1>4. chan[p] \o ts \in Seq(Frame) /\ Members(chan[p] \o ts) = Members(chan[p]) \cup Members(ts)
  BY <1>2, <1>3, MembersCat
<1>5. m \in Flying(e) /\ m \in Frame
  <2>1. CASE m \in late[e]
    BY <2>1, <1>3 DEF Flying
  <2>2. CASE chan[e] # << >> /\ m = Head(chan[e])
    BY <2>2, <1>3, MembersTail DEF Flying
  <2> QED BY <2>1, <2>2 DEF Arriving
<1>6. CASE /\ m \in late[e]
           /\ late' = [late EXCEPT ![e] = @ \ {m}] /\ UNCHANGED envVars
           /\ chan' = [chan EXCEPT ![p] = @ \o ts]
  <2>1. late'[e] = late[e] \ {m} /\ late'[p] = late[p] /\ chan'[e] = chan[e] /\ chan'[p] = chan[p] \o ts
    BY <1>6, <1>1 DEF LinkType
  <2>2. LinkType' /\ EnvType'
    BY <1>6, <1>1, <1>3, <1>4 DEF LinkType, EnvType, envVars
  <2>3. Flying(e)' \subseteq Flying(e) /\ Flying(p)' \subseteq Flying(p) \cup Members(ts)
    BY <2>1, <1>4 DEF Flying
  <2> QED BY <2>2, <2>3, <1>5, <1>6 DEF envVars
<1>7. CASE /\ chan[e] # << >> /\ m = Head(chan[e])
           /\ \/ UNCHANGED <<late, envVars>>
              \/ /\ m.type \in DupKinds /\ Happens("dup")
                 /\ late' = [late EXCEPT ![e] = @ \cup {m}]
           /\ chan' = [chan EXCEPT ![e] = Tail(@), ![p] = @ \o ts]
  <2>1. chan'[e] = Tail(chan[e]) /\ chan'[p] = chan[p] \o ts
    BY <1>7, <1>1 DEF LinkType
  <2>2. Tail(chan[e]) \in Seq(Frame) /\ Members(Tail(chan[e])) \subseteq Members(chan[e])
    BY <1>7, <1>3, MembersTail
  <2>3. chan' \in [End -> Seq(Frame)]
    BY <1>7, <1>1, <1>3, <1>4, <2>2 DEF LinkType
  <2>4. late' \in [End -> SUBSET Frame] /\ late'[p] = late[p] /\ late'[e] \subseteq late[e] \cup {m}
    BY <1>7, <1>1, <1>3, <1>5 DEF LinkType
  <2>5. EnvType' /\ ("send" \in happened' => "send" \in happened)
    BY <1>7 DEF EnvType, envVars, Happens
  <2>6. Flying(e)' \subseteq Flying(e) /\ Flying(p)' \subseteq Flying(p) \cup Members(ts)
    BY <2>1, <2>2, <2>4, <1>4, <1>5 DEF Flying
  <2> QED BY <2>3, <2>4, <2>5, <2>6, <1>5 DEF LinkType
<1> QED BY <1>6, <1>7 DEF Take

\* e sends fs.
LEMMA PutFrames ==
    ASSUME LinkType, NEW e \in End, NEW fs \in Seq(Frame), Put(e, fs), UNCHANGED late
    PROVE  /\ LinkType' /\ Flying(e)' = Flying(e)
           /\ Flying(Peer(e))' \subseteq Flying(Peer(e)) \cup Members(fs)
<1> DEFINE p == Peer(e)  ts == IF mac[e] THEN To(e, fs) ELSE << >>
<1>1. p \in End /\ p # e
  BY PeerEnd
<1>2. ts \in Seq(Frame) /\ Members(ts) \subseteq Members(fs)
  BY ToFrames, EmptyMembers
<1>3. chan[p] \o ts \in Seq(Frame) /\ Members(chan[p] \o ts) = Members(chan[p]) \cup Members(ts)
  <2>1. chan[p] \in Seq(Frame)
    BY <1>1 DEF LinkType
  <2> HIDE DEF ts, p
  <2> QED BY <2>1, <1>2, MembersCat
<1>4. chan' = [chan EXCEPT ![p] = chan[p] \o ts]
  BY DEF Put
<1>5. chan'[e] = chan[e] /\ chan'[p] = chan[p] \o ts /\ LinkType'
  BY <1>1, <1>3, <1>4 DEF LinkType
<1> QED BY <1>1, <1>2, <1>3, <1>5 DEF Flying

\* e leaves its loop.
LEMMA LeaveFrames ==
    ASSUME LinkType, AssocType, NEW e \in End, NEW r \in Gone, Leave(e, r)
    PROVE  /\ LinkType' /\ Flying(e)' = {} /\ Flying(Peer(e))' = Flying(Peer(e))
           /\ st' \in [End -> Live \cup Gone] /\ st'[e] = r /\ st'[Peer(e)] = st[Peer(e)]
           /\ chan'[e] = << >> /\ chan'[Peer(e)] = chan[Peer(e)]
<1>1. Peer(e) \in End /\ Peer(e) # e
  BY PeerEnd
<1>2. << >> \in Seq(Frame) /\ Members(<< >>) = {}
  BY EmptyMembers
<1> QED BY <1>1, <1>2 DEF Leave, LinkType, AssocType, Flying

\* Taking the head of a sequence with at most one COOKIE-ACK.
LEMMA AckTail ==
    ASSUME NEW s \in Seq(Frame), s # << >>, AckOnce(s)
    PROVE  AckOnce(Tail(s)) /\ (Head(s).type = "COOKIE_ACK" => NoAck(Members(Tail(s))))
<1>1. Len(s) \in Nat \ {0} /\ Len(Tail(s)) = Len(s) - 1 /\ Head(s) = s[1]
  OBVIOUS
<1>2. \A i \in 1 .. Len(Tail(s)) : Tail(s)[i] = s[i + 1] /\ i + 1 \in 1 .. Len(s) /\ i + 1 # 1
  BY <1>1
<1>3. 1 \in 1 .. Len(s)
  BY <1>1
<1>4. AckOnce(Tail(s))
  <2> SUFFICES ASSUME NEW i \in 1 .. Len(Tail(s)), NEW j \in 1 .. Len(Tail(s)),
                      Tail(s)[i].type = "COOKIE_ACK", Tail(s)[j].type = "COOKIE_ACK"
               PROVE  i = j
    BY DEF AckOnce
  <2>1. i + 1 = j + 1
    BY <1>2 DEF AckOnce
  <2> QED BY <2>1
<1>5. Head(s).type = "COOKIE_ACK" => NoAck(Members(Tail(s)))
  BY <1>1, <1>2, <1>3 DEF AckOnce, NoAck, Members
<1> QED BY <1>4, <1>5

\* Appending frames without a COOKIE-ACK, or the only one.
LEMMA AckCat ==
    ASSUME NEW s \in Seq(Frame), NEW t \in Seq(Frame), AckOnce(s),
           NoAck(Members(t)) \/ (NoAck(Members(s)) /\ AckOnce(t))
    PROVE  AckOnce(s \o t)
<1>1. Len(s \o t) = Len(s) + Len(t) /\ Len(s) \in Nat /\ Len(t) \in Nat
  OBVIOUS
<1>2. \A i \in 1 .. Len(s) : (s \o t)[i] = s[i] /\ s[i] \in Members(s)
  BY <1>1 DEF Members
<1>3. \A i \in 1 .. Len(s \o t) : i \in 1 .. Len(s) \/
          (i - Len(s) \in 1 .. Len(t) /\ (s \o t)[i] = t[i - Len(s)] /\ t[i - Len(s)] \in Members(t))
  BY <1>1 DEF Members
<1> SUFFICES ASSUME NEW i \in 1 .. Len(s \o t), NEW j \in 1 .. Len(s \o t),
                    (s \o t)[i].type = "COOKIE_ACK", (s \o t)[j].type = "COOKIE_ACK"
             PROVE  i = j
  BY DEF AckOnce
<1>4. CASE NoAck(Members(t))
  <2>1. i \in 1 .. Len(s) /\ j \in 1 .. Len(s)
    BY <1>3, <1>4 DEF NoAck
  <2> QED BY <2>1, <1>2 DEF AckOnce
<1>5. CASE NoAck(Members(s)) /\ AckOnce(t)
  <2>1. i \notin 1 .. Len(s) /\ j \notin 1 .. Len(s)
    BY <1>2, <1>5 DEF NoAck
  <2>2. i - Len(s) = j - Len(s)
    BY <1>3, <1>5, <2>1 DEF AckOnce
  <2> QED BY <2>2, <1>1
<1> QED BY <1>4, <1>5

\* The initiator takes a frame: the COOKIE-ACK, if it is one, was the only one.
LEMMA TakeByIni ==
    ASSUME LinkType, EnvType, OneAck, ~AckRepeats',
           NEW m \in Arriving("ini"), NEW fs \in Seq(Frame), Take("ini", m, fs)
    PROVE  OneAck' /\ (m.type = "COOKIE_ACK" => NoAck(Flying("ini")'))
<1>1. Flying("ini")' \subseteq Flying("ini") /\ m \in Flying("ini")
  BY TakeFrames, PeerEnd
<1>2. chan["ini"] \in Seq(Frame) /\ chan["res"] \in Seq(Frame) /\ Peer("ini") = "res" /\ "ini" \in End /\ "res" \in End
  BY PeerEnd DEF LinkType
<1>3. CASE m \in late["ini"] /\ late'["ini"] = late["ini"] \ {m} /\ chan'["ini"] = chan["ini"]
  BY <1>1, <1>3 DEF OneAck, NoAck, Flying
<1>4. CASE /\ chan["ini"] # << >> /\ m = Head(chan["ini"]) /\ chan'["ini"] = Tail(chan["ini"])
           /\ late'["ini"] = late["ini"] \/ (m.type # "COOKIE_ACK" /\ late'["ini"] = late["ini"] \cup {m})
  <2>1. AckOnce(Tail(chan["ini"])) /\ (m.type = "COOKIE_ACK" => NoAck(Members(Tail(chan["ini"]))))
    BY <1>2, <1>4, AckTail DEF OneAck
  <2>2. Members(Tail(chan["ini"])) \subseteq Members(chan["ini"]) /\ m \in Members(chan["ini"])
    BY <1>2, <1>4, MembersTail
  <2>3. NoAck(late'["ini"]) <=> NoAck(late["ini"])
    BY <1>4 DEF NoAck
  <2>4. OneAck'
    BY <1>1, <1>4, <2>1, <2>2, <2>3 DEF OneAck, NoAck
  <2>5. m.type = "COOKIE_ACK" => NoAck(late["ini"])
    BY <2>2 DEF OneAck, NoAck
  <2>6. m.type = "COOKIE_ACK" => NoAck(Flying("ini")')
    BY <1>4, <2>1, <2>3, <2>5 DEF Flying, NoAck
  <2> QED BY <2>4, <2>6
<1>5. m.type \in DupKinds /\ Happens("dup") => m.type # "COOKIE_ACK"
  BY DEF AckRepeats, Happens
<1> QED BY <1>2, <1>3, <1>4, <1>5 DEF Take, LinkType

\* The responder takes a frame, and sends a COOKIE-ACK only when there is none.
LEMMA TakeByRes ==
    ASSUME LinkType, EnvType, OneAck,
           NEW m \in Arriving("res"), NEW fs \in Seq(Frame), Take("res", m, fs),
           NoAck(Members(To("res", fs))) \/ (To("res", fs) = <<Ack>> /\ NoAck(Flying("ini")))
    PROVE  OneAck'
<1> DEFINE ts == To("res", fs)
<1>1. ts \in Seq(Frame)
  BY ToFrames, PeerEnd
<1>2. chan["ini"] \in Seq(Frame) /\ chan["res"] \in Seq(Frame) /\ Peer("res") = "ini" /\ "ini" \in End /\ "res" \in End
  BY PeerEnd DEF LinkType
<1>3. late'["ini"] = late["ini"] /\ chan'["ini"] = chan["ini"] \o ts
  BY <1>2 DEF Take, LinkType
<1>4. Members(chan["ini"] \o ts) = Members(chan["ini"]) \cup Members(ts)
  <2> HIDE DEF ts
  <2> QED BY <1>1, <1>2, MembersCat
<1>5. CASE NoAck(Members(ts))
  <2> HIDE DEF ts
  <2>1. AckOnce(chan["ini"] \o ts)
    BY <1>1, <1>2, <1>5, AckCat DEF OneAck
  <2> QED BY <1>3, <1>4, <1>5, <2>1 DEF OneAck, NoAck, Flying
<1>6. CASE ts = <<Ack>> /\ NoAck(Flying("ini"))
  <2>1. AckOnce(ts) /\ Members(ts) = {Ack}
    BY <1>6 DEF AckOnce, Members
  <2> HIDE DEF ts
  <2>2. NoAck(Members(chan["ini"])) /\ NoAck(late["ini"])
    BY <1>6 DEF NoAck, Flying
  <2>3. AckOnce(chan["ini"] \o ts)
    BY <1>1, <1>2, <2>1, <2>2, AckCat DEF OneAck
  <2> QED BY <1>3, <1>4, <2>1, <2>2, <2>3 DEF OneAck, NoAck, Flying
<1> QED BY <1>5, <1>6

-----------------------------------------------------------------------------
(* Type correctness.                                                         *)

\* The first data plane, and every one after a rekey.
LEMMA FreshPlane == \A t \in InitTsn : PlaneOK(Fresh(t))
BY TsnAssumption DEF PlaneOK, Fresh, DataPlane

\* The window stays a window of its TSNs.
LEMMA SlidPlane ==
    ASSUME NEW d, PlaneOK(d), NEW t \in Nat
    PROVE  /\ PlaneOK(rw_slide(d, t)) /\ rw_slide(d, t).rseq = d.rseq /\ t <= rw_slide(d, t).top
           /\ \A r \in Nat : PlaneOK([rw_slide(d, t) EXCEPT !.cum = max(@, t), !.rseq = r])
<1> DEFINE top == max(d.top, t)
           seen == {u \in d.seen \cup {t} : top - u < Window}
<1>1. /\ d.top \in Nat /\ d.cum \in Nat /\ d.rseq \in Nat
      /\ d.seen \subseteq Nat /\ d.cum <= d.top /\ \A u \in d.seen : u <= d.top
  BY TsnAssumption DEF PlaneOK, DataPlane
<1>2. top \in Nat /\ d.top <= top /\ t <= top
  BY <1>1 DEF max
<1>3. seen \subseteq Nat /\ seen \subseteq top - Window + 1 .. top
  BY <1>1, <1>2, TsnAssumption
<1>4. max(d.cum, t) \in Nat /\ max(d.cum, t) <= top /\ d.cum <= top
  BY <1>1, <1>2 DEF max
<1>5. rw_slide(d, t) = [d EXCEPT !.top = top, !.seen = seen]
  BY DEF rw_slide
<1>6. d \in DataPlane
  BY DEF PlaneOK
<1> HIDE DEF top, seen
<1> DEFINE w == [d EXCEPT !.top = top, !.seen = seen]
<1>7. /\ w \in DataPlane /\ w.top = top /\ w.seen = seen /\ w.cum = d.cum /\ w.rseq = d.rseq
  BY <1>2, <1>3, <1>6 DEF DataPlane
<1> HIDE DEF w
<1>8. PlaneOK(w)
  BY <1>3, <1>4, <1>7 DEF PlaneOK
<1>9. ASSUME NEW r \in Nat
      PROVE  PlaneOK([w EXCEPT !.cum = max(@, t), !.rseq = r])
  <2> DEFINE v == [w EXCEPT !.cum = max(d.cum, t), !.rseq = r]
  <2>1. v \in DataPlane /\ v.cum = max(d.cum, t) /\ v.top = top /\ v.seen = seen
    BY <1>4, <1>7 DEF DataPlane
  <2>2. v = [w EXCEPT !.cum = max(@, t), !.rseq = r]
    BY <1>7
  <2> HIDE DEF v
  <2>3. PlaneOK(v)
    BY <2>1, <1>3, <1>4 DEF PlaneOK
  <2> QED BY <2>2, <2>3
<1>10. rw_slide(d, t) = w
  BY <1>5 DEF w
<1> QED BY <1>2, <1>7, <1>8, <1>9, <1>10

\* The states an end may be in.
LEMMA States == /\ {"established", "wait_ack", "wait_cookie", "wait_cookie_ack"} = Live
                /\ {"shutdown", "closed", "dead", "err", "stopped"} = Gone
BY DEF Live, Gone

\* Hearing a frame keeps the timers in range.
LEMMA HeardTypes ==
    ASSUME SilenceType, NEW e \in End, NEW m, Heard(e, m)
    PROVE  SilenceType'
<1>1. silence' = [silence EXCEPT ![e] = 0] /\ 0 \in 0 .. DeadTimeout
  BY TimeAssumption DEF Heard
<1>2. mac' = [mac EXCEPT ![e] = TRUE] /\ TRUE \in BOOLEAN
  BY DEF Heard
<1>3. silence' \in [End -> 0 .. DeadTimeout]
  BY <1>1 DEF SilenceType
<1>4. mac' \in [End -> BOOLEAN]
  BY <1>2 DEF SilenceType
<1> QED BY <1>3, <1>4 DEF SilenceType

\* A frame that is handled keeps the types.
LEMMA HandleTypes ==
    ASSUME TypeOK, NEW e \in End, HandleFrame(e)
    PROVE  TypeOK'
<1> USE TypePartsNext
<1>0. /\ AssocType /\ DataType /\ SilenceType /\ AgeType /\ LinkType /\ EnvType /\ MsgType
  BY TypeParts
<1>1. PICK m \in Arriving(e) :
        \/ RecvHeartbeat(e, m) \/ RecvOther(e, m) \/ RecvShutdown(e, m) \/ RecvData(e, m)
        \/ RekeyInit(e, m) \/ RekeyInitAck(e, m) \/ RekeyCookieEcho(e, m) \/ RekeyCookieAck(e, m)
        \/ RekeyRefuse(e, m)
  BY DEF HandleFrame
<1>e. << >> \in Seq(Frame) /\ \A t \in ChunkType : <<Chunk(t)>> \in Seq(Frame)
  BY EmptyMembers, OneMember, ChunkTypes
<1>t. {"HEARTBEAT_ACK", "COOKIE_ACK", "SACK"} \subseteq ChunkType
  BY DEF ChunkType
<1>h. ASSUME Heard(e, m), UNCHANGED keyAge
      PROVE  SilenceType' /\ AgeType'
  BY <1>0, <1>h, HeardTypes DEF Heard, AgeType
<1>m. m \in Frame
  <2>1. chan[e] # << >> => Head(chan[e]) \in Frame
    BY <1>0, MembersTail DEF LinkType
  <2> QED BY <1>0, <2>1 DEF Arriving, LinkType
<1>f. m.n \in Nat /\ m.eph \in Nat /\ m.tsn \in Nat /\ m.msg \in Nat
  BY <1>m DEF Frame
<1>2. CASE RecvHeartbeat(e, m)
  <2>1. LinkType' /\ EnvType'
    BY <1>0, <1>2, <1>e, <1>t, TakeFrames DEF RecvHeartbeat
  <2>2. AssocType' /\ DataType' /\ MsgType'
    BY <1>0, <1>2 DEF RecvHeartbeat, AssocType, DataType, MsgType, assocVars, msgVars
  <2> QED BY <1>2, <1>h, <2>1, <2>2 DEF RecvHeartbeat
<1>3. CASE RecvOther(e, m)
  <2>1. LinkType' /\ EnvType'
    BY <1>0, <1>3, <1>e, TakeFrames DEF RecvOther
  <2>2. AssocType' /\ DataType' /\ MsgType'
    BY <1>0, <1>3 DEF RecvOther, AssocType, DataType, MsgType, assocVars, msgVars
  <2> QED BY <1>3, <1>h, <2>1, <2>2 DEF RecvOther
<1>4. CASE RecvShutdown(e, m)
  <2>1. LinkType' /\ st' \in [End -> Live \cup Gone]
    BY <1>0, <1>4, LeaveFrames, States DEF RecvShutdown
  <2>2. AssocType' /\ DataType' /\ MsgType' /\ EnvType'
    BY <1>0, <1>4, <2>1 DEF RecvShutdown, AssocType, DataType, MsgType, EnvType, msgVars, envVars
  <2> QED BY <1>4, <1>h, <2>1, <2>2 DEF RecvShutdown
<1>5. CASE RekeyRefuse(e, m)
  <2>1. LinkType' /\ st' \in [End -> Live \cup Gone]
    BY <1>0, <1>5, LeaveFrames, States DEF RekeyRefuse
  <2>2. AssocType' /\ DataType' /\ MsgType' /\ EnvType'
    BY <1>0, <1>5, <2>1 DEF RekeyRefuse, AssocType, DataType, MsgType, EnvType, msgVars, envVars
  <2> QED BY <1>5, <1>h, <2>1, <2>2 DEF RekeyRefuse
<1>6. CASE RekeyInit(e, m)
  <2>1. reph' \in Nat
    BY <1>0, <1>6 DEF RekeyInit, AssocType
  <2>2. <<INIT_ACK(m.n, reph')>> \in Seq(Frame)
    BY <2>1, <1>f, ChunkTypes, OneMember
  <2>3. LinkType' /\ EnvType'
    BY <1>0, <1>6, <2>2, TakeFrames DEF RekeyInit
  <2>4. AssocType'
    BY <1>0, <1>6, <1>f, <2>1, States DEF RekeyInit, AssocType, Key
  <2>5. DataType' /\ MsgType'
    BY <1>0, <1>6 DEF RekeyInit, DataType, MsgType, msgVars
  <2> QED BY <1>6, <1>h, <2>3, <2>4, <2>5 DEF RekeyInit
<1>7. CASE RekeyInitAck(e, m)
  <2>1. <<COOKIE_ECHO(m.n)>> \in Seq(Frame)
    BY <1>f, ChunkTypes, OneMember
  <2>2. LinkType' /\ EnvType'
    BY <1>0, <1>7, <2>1, TakeFrames DEF RekeyInitAck
  <2>3. AssocType'
    BY <1>0, <1>7, <1>f, States DEF RekeyInitAck, AssocType
  <2>4. DataType' /\ MsgType'
    BY <1>0, <1>7 DEF RekeyInitAck, DataType, MsgType, msgVars
  <2> QED BY <1>7, <1>h, <2>2, <2>3, <2>4 DEF RekeyInitAck
<1>8. CASE RekeyCookieEcho(e, m)
  <2>1. LinkType' /\ EnvType'
    BY <1>0, <1>8, <1>e, <1>t, TakeFrames DEF RekeyCookieEcho
  <2>2. AssocType' /\ MsgType'
    BY <1>0, <1>8, States DEF RekeyCookieEcho, AssocType, MsgType, msgVars
  <2>3. PICK t \in InitTsn : dp' = [dp EXCEPT ![e] = Fresh(t)]
    BY <1>8 DEF RekeyCookieEcho, data_plane_reset
  <2>4. DataType'
    BY <1>0, <2>3, FreshPlane DEF DataType
  <2> QED BY <1>8, <1>h, <2>1, <2>2, <2>4 DEF RekeyCookieEcho
<1>9. CASE RekeyCookieAck(e, m)
  <2>1. LinkType' /\ EnvType'
    BY <1>0, <1>9, <1>e, TakeFrames DEF RekeyCookieAck
  <2>2. AssocType'
    BY <1>0, <1>9, States DEF RekeyCookieAck, AssocType, Key
  <2>3. MsgType'
    BY <1>0, <1>9 DEF RekeyCookieAck, MsgType, msgVars
  <2>4. PICK t \in InitTsn : dp' = [dp EXCEPT ![e] = Fresh(t)]
    BY <1>9 DEF RekeyCookieAck, data_plane_reset
  <2>5. DataType'
    BY <1>0, <2>4, FreshPlane DEF DataType
  <2>6. SilenceType'
    BY <1>0, <1>9, HeardTypes DEF RekeyCookieAck
  <2>7. AgeType'
    BY <1>0, <1>9, TimeAssumption DEF RekeyCookieAck, Heard, AgeType
  <2> QED BY <2>1, <2>2, <2>3, <2>5, <2>6, <2>7
<1>10. CASE RecvData(e, m)
  <2> DEFINE d == rw_slide(dp[e], m.tsn)
  <2>1. PlaneOK(dp[e]) /\ dp[e].rseq \in Nat
    BY <1>0 DEF DataType, PlaneOK, DataPlane
  <2>2. PlaneOK(d) /\ d.rseq \in Nat /\ \A r \in Nat : PlaneOK([d EXCEPT !.cum = max(@, m.tsn), !.rseq = r])
    BY <2>1, <1>f, SlidPlane
  <2>3. SilenceType' /\ AgeType' /\ AssocType'
    BY <1>0, <1>10, <1>h DEF RecvData, AssocType, assocVars
  <2>4. sent' = sent /\ must' = must /\ early' = early
    BY <1>10 DEF RecvData
  <2>5. CASE Take(e, m, << >>) /\ (dp' = dp \/ dp' = [dp EXCEPT ![e] = d]) /\ UNCHANGED got
    <3>1. LinkType' /\ EnvType'
      BY <1>0, <1>e, <2>5, TakeFrames
    <3>2. DataType'
      BY <1>0, <2>2, <2>5 DEF DataType
    <3>3. MsgType'
      BY <1>0, <2>4, <2>5 DEF MsgType
    <3> QED BY <2>3, <3>1, <3>2, <3>3
  <2>6. ASSUME NEW r \in Nat, NEW fs \in Seq(Frame), NEW g \in Seq(Nat),
               dp' = [dp EXCEPT ![e] = [d EXCEPT !.cum = max(@, m.tsn), !.rseq = r]],
               got' = [got EXCEPT ![e] = g], Take(e, m, fs)
        PROVE  TypeOK'
    <3>1. LinkType' /\ EnvType'
      BY <1>0, <2>6, TakeFrames
    <3>2. DataType'
      BY <1>0, <2>2, <2>6 DEF DataType
    <3>3. MsgType'
      BY <1>0, <2>4, <2>6 DEF MsgType
    <3> QED BY <2>3, <3>1, <3>2, <3>3
  <2>7. CASE /\ dp' = [dp EXCEPT ![e] = [d EXCEPT !.cum = max(@, m.tsn),
                                                 !.rseq = IF m.seq = d.rseq THEN @ + 1 ELSE @]]
             /\ got' = [got EXCEPT ![e] = IF m.seq = d.rseq THEN Append(@, m.msg) ELSE @]
             /\ Take(e, m, IF m.tsn > d.cum THEN <<Chunk("SACK")>> ELSE << >>)
    <3> DEFINE r == IF m.seq = d.rseq THEN d.rseq + 1 ELSE d.rseq
               g == IF m.seq = d.rseq THEN Append(got[e], m.msg) ELSE got[e]
               fs == IF m.tsn > d.cum THEN <<Chunk("SACK")>> ELSE << >>
    <3>1. r \in Nat
      <4>1. d.rseq \in Nat
        BY <2>2
      <4> HIDE DEF d
      <4> QED BY <4>1
    <3>2. got[e] \in Seq(Nat) /\ g \in Seq(Nat)
      BY <1>0, <1>f DEF MsgType
    <3>3. fs \in Seq(Frame)
      BY <1>e, <1>t
    <3>4. dp' = [dp EXCEPT ![e] = [d EXCEPT !.cum = max(@, m.tsn), !.rseq = r]] /\ got' = [got EXCEPT ![e] = g] /\ Take(e, m, fs)
      BY <2>7
    <3> HIDE DEF r, g, fs, d
    <3> QED BY <3>1, <3>2, <3>3, <3>4, <2>6
  <2> QED BY <1>10, <2>5, <2>7 DEF RecvData
<1> QED BY <1>1, <1>2, <1>3, <1>4, <1>5, <1>6, <1>7, <1>8, <1>9, <1>10

\* The frames of an end that sends SHUTDOWN and leaves.
LEMMA ShutdownFrames ==
    ASSUME LinkType, NEW e \in End, Shutdown(e)
    PROVE  /\ LinkType' /\ Flying(e)' = {} /\ chan'[e] = << >>
           /\ Flying(Peer(e))' \subseteq Flying(Peer(e)) \cup {Chunk("SHUTDOWN")}
           /\ late'[Peer(e)] = late[Peer(e)]
           /\ \E ts \in Seq(Frame) : /\ chan'[Peer(e)] = chan[Peer(e)] \o ts
                                     /\ Members(ts) \subseteq {Chunk("SHUTDOWN")}
<1> DEFINE p == Peer(e)
           ts == IF mac[e] THEN To(e, <<Chunk("SHUTDOWN")>>) ELSE << >>
<1>1. p \in End /\ p # e
  BY PeerEnd
<1>2. <<Chunk("SHUTDOWN")>> \in Seq(Frame) /\ Members(<<Chunk("SHUTDOWN")>>) = {Chunk("SHUTDOWN")}
  BY ChunkTypes, OneMember DEF ChunkType
<1>3. << >> \in Seq(Frame) /\ Members(<< >>) = {}
  BY EmptyMembers
<1>4. ts \in Seq(Frame) /\ Members(ts) \subseteq {Chunk("SHUTDOWN")}
  BY <1>2, <1>3, ToFrames
<1>5. chan' = [chan EXCEPT ![e] = << >>, ![p] = chan[p] \o ts] /\ late' = [late EXCEPT ![e] = {}]
  BY <1>1 DEF Shutdown, LinkType
<1>6. chan[p] \in Seq(Frame)
  BY <1>1 DEF LinkType
<1> HIDE DEF ts
<1>7. chan[p] \o ts \in Seq(Frame) /\ Members(chan[p] \o ts) = Members(chan[p]) \cup Members(ts)
  BY <1>4, <1>6, MembersCat
<1>8. chan'[e] = << >> /\ chan'[p] = chan[p] \o ts /\ late'[e] = {} /\ late'[p] = late[p] /\ LinkType'
  BY <1>1, <1>3, <1>5, <1>7 DEF LinkType
<1> QED BY <1>3, <1>4, <1>7, <1>8 DEF Flying

\* A frame that becomes late.
LEMMA DelayFrames ==
    ASSUME LinkType, EnvType, NEW e \in End, Delay(e)
    PROVE  /\ LinkType' /\ EnvType' /\ Flying(e)' \subseteq Flying(e) /\ Flying(Peer(e))' = Flying(Peer(e))
           /\ chan[e] # << >> /\ chan[e] \in Seq(Frame) /\ chan'[e] = Tail(chan[e])
           /\ late'[e] = late[e] \cup {Head(chan[e])}
           /\ chan'[Peer(e)] = chan[Peer(e)] /\ late'[Peer(e)] = late[Peer(e)]
           /\ "send" \in happened' => "send" \in happened
<1>1. Peer(e) \in End /\ Peer(e) # e
  BY PeerEnd
<1>2. chan[e] # << >> /\ chan[e] \in Seq(Frame)
  BY DEF Delay, LinkType
<1>3. /\ Tail(chan[e]) \in Seq(Frame) /\ Head(chan[e]) \in Frame
      /\ Head(chan[e]) \in Members(chan[e]) /\ Members(Tail(chan[e])) \subseteq Members(chan[e])
  BY <1>2, MembersTail
<1>4. /\ chan'[e] = Tail(chan[e]) /\ late'[e] = late[e] \cup {Head(chan[e])}
      /\ chan'[Peer(e)] = chan[Peer(e)] /\ late'[Peer(e)] = late[Peer(e)] /\ LinkType'
  BY <1>1, <1>3 DEF Delay, LinkType
<1>5. EnvType' /\ ("send" \in happened' => "send" \in happened)
  BY DEF Delay, Happens, EnvType
<1> QED BY <1>2, <1>3, <1>4, <1>5 DEF Flying

\* A trouble is counted.
LEMMA HappensTypes ==
    ASSUME EnvType, UNCHANGED envVars \/ \E k \in Trouble : Happens(k)
    PROVE  EnvType'
<1>1. CASE UNCHANGED envVars
  BY <1>1 DEF EnvType, envVars
<1>2. ASSUME NEW k \in Trouble, Happens(k) PROVE EnvType'
  BY <1>2 DEF EnvType, Happens
<1> QED BY <1>1, <1>2

\* An end that sends DATA, or whose timers are due, keeps the types.
LEMMA SendTypes ==
    ASSUME TypeOK, NEW e \in End, DataSend(e) \/ KeepaliveTick(e)
    PROVE  TypeOK'
<1> USE TypePartsNext
<1>0. /\ AssocType /\ DataType /\ SilenceType /\ AgeType /\ LinkType /\ EnvType /\ MsgType
  BY TypeParts
<1>1. CASE DataSend(e)
  <2>1. sent'[e] \in Nat /\ sent' \in [End -> Nat]
    BY <1>0, <1>1 DEF DataSend, MsgType
  <2>2. seal(e) \in Seal /\ dp[e] \in DataPlane
    BY <1>0 DEF seal, Seal, AssocType, DataType, PlaneOK
  <2>3. <<DATA(seal(e), dp[e], sent'[e])>> \in Seq(Frame)
    BY <2>1, <2>2, ChunkTypes, OneMember
  <2>4. LinkType'
    BY <1>0, <1>1, <2>3, PutFrames DEF DataSend
  <2>5. MsgType'
    BY <1>0, <1>1, <2>1 DEF DataSend, MsgType
  <2>6. DataType'
    <3> DEFINE d == [dp[e] EXCEPT !.tsn = @ + 1, !.sseq = @ + 1]
    <3>1. PlaneOK(dp[e])
      BY <1>0 DEF DataType
    <3>2. d \in DataPlane /\ d.cum = dp[e].cum /\ d.top = dp[e].top /\ d.seen = dp[e].seen
      <4>1. dp[e].tsn \in Nat /\ dp[e].sseq \in Nat
        BY <2>2 DEF DataPlane
      <4>2. dp[e].tsn + 1 \in Nat /\ dp[e].sseq + 1 \in Nat
        BY <4>1
      <4> QED BY <2>2, <4>2 DEF DataPlane
    <3>3. dp' = [dp EXCEPT ![e] = d]
      BY <1>0, <1>1 DEF DataSend, DataType
    <3> HIDE DEF d
    <3>4. PlaneOK(d)
      BY <3>1, <3>2 DEF PlaneOK
    <3> QED BY <1>0, <3>3, <3>4 DEF DataType
  <2>7. AssocType' /\ SilenceType' /\ AgeType' /\ EnvType'
    BY <1>0, <1>1 DEF DataSend, AssocType, SilenceType, AgeType, EnvType, assocVars, timeVars, envVars
  <2> QED BY <2>4, <2>5, <2>6, <2>7
<1>2. CASE KeepaliveTick(e)
  <2> DEFINE hb == IF hb_due(e) THEN <<Chunk("HEARTBEAT")>> ELSE << >>
  <2>1. hb \in Seq(Frame)
    BY ChunkTypes, OneMember, EmptyMembers DEF ChunkType
  <2>2. AgeType'
    BY <1>0, <1>2, TimeAssumption DEF KeepaliveTick, AgeType
  <2>3. DataType' /\ SilenceType' /\ MsgType'
    BY <1>0, <1>2 DEF KeepaliveTick, DataType, SilenceType, MsgType, msgVars
  <2>4. CASE rekey_due(e)
    <3>1. eph' \in Nat /\ assoc' \in [End -> Nat]
      BY <1>0, <1>2, <2>4 DEF KeepaliveTick, AssocType
    <3>2. AssocType'
      BY <1>0, <1>2, <2>4, <3>1, States DEF KeepaliveTick, AssocType
    <3>3. EnvType'
      <4>1. UNCHANGED envVars \/ Happens("send")
        BY <1>2, <2>4 DEF KeepaliveTick
      <4> QED BY <1>0, <4>1, HappensTypes DEF Trouble
    <3>4. <<INIT(eph')>> \in Seq(Frame)
      BY <3>1, ChunkTypes, OneMember
    <3>5. hb \o <<INIT(eph')>> \in Seq(Frame)
      <4> HIDE DEF hb
      <4> QED BY <2>1, <3>4, MembersCat
    <3>6. Put(e, hb \o <<INIT(eph')>>) \/ Put(e, hb)
      BY <1>2, <2>4 DEF KeepaliveTick
    <3>7. UNCHANGED late
      BY <1>2 DEF KeepaliveTick
    <3>8. LinkType'
      <4> HIDE DEF hb
      <4> QED BY <1>0, <2>1, <3>5, <3>6, <3>7, PutFrames
    <3> QED BY <2>2, <2>3, <3>2, <3>3, <3>8
  <2>5. CASE ~rekey_due(e)
    <3>1. Put(e, hb) /\ UNCHANGED late
      BY <1>2, <2>5 DEF KeepaliveTick
    <3>2. LinkType'
      <4> HIDE DEF hb
      <4> QED BY <1>0, <2>1, <3>1, PutFrames
    <3>3. AssocType' /\ EnvType'
      BY <1>0, <1>2, <2>5 DEF KeepaliveTick, AssocType, EnvType, envVars
    <3> QED BY <2>2, <2>3, <3>2, <3>3
  <2> QED BY <2>4, <2>5
<1> QED BY <1>1, <1>2

\* An end that leaves keeps the types.
LEMMA LeaveTypes ==
    ASSUME TypeOK, NEW e \in End, Dead(e) \/ SendFails(e) \/ Stop(e) \/ Shutdown(e) \/ StrayInit(e)
    PROVE  TypeOK'
<1> USE TypePartsNext
<1>0. /\ AssocType /\ DataType /\ SilenceType /\ AgeType /\ LinkType /\ EnvType /\ MsgType
  BY TypeParts
<1>1. AssocType' /\ LinkType'
  <2>1. CASE Leave(e, "dead") \/ Leave(e, "err") \/ Leave(e, "stopped")
    <3>1. LinkType' /\ st' \in [End -> Live \cup Gone]
      BY <1>0, <2>1, LeaveFrames, States
    <3> QED BY <1>0, <3>1 DEF Dead, SendFails, Stop, Shutdown, StrayInit, AssocType
  <2>2. CASE Shutdown(e)
    <3>1. LinkType'
      BY <1>0, <2>2, ShutdownFrames
    <3> QED BY <1>0, <2>2, <3>1, States DEF Shutdown, AssocType
  <2>3. CASE StrayInit(e) /\ UNCHANGED <<st, chan, late>>
    BY <1>0, <2>3 DEF StrayInit, AssocType, LinkType
  <2> QED BY <2>1, <2>2, <2>3 DEF Dead, SendFails, Stop, Shutdown, StrayInit
<1>2. DataType' /\ MsgType'
  BY <1>0 DEF Dead, SendFails, Stop, Shutdown, StrayInit, DataType, MsgType, msgVars
<1>3. EnvType'
  <2>1. UNCHANGED envVars \/ Happens("send") \/ Happens("stop") \/ Happens("stray")
    BY DEF Dead, SendFails, Stop, Shutdown, StrayInit
  <2> QED BY <1>0, <2>1, HappensTypes DEF Trouble
<1>4. AgeType'
  BY <1>0 DEF Dead, SendFails, Stop, Shutdown, StrayInit, AgeType, timeVars
<1>5. silence' \in [End -> 0 .. DeadTimeout]
  <2>1. silence' = silence \/ silence' = [silence EXCEPT ![e] = 0]
    BY DEF Dead, SendFails, Stop, Shutdown, StrayInit, timeVars
  <2>2. 0 \in 0 .. DeadTimeout
    BY TimeAssumption
  <2> QED BY <1>0, <2>1, <2>2 DEF SilenceType
<1>6. mac' \in [End -> BOOLEAN]
  <2>1. mac' = mac \/ mac' = [mac EXCEPT ![e] = FALSE]
    BY DEF Dead, SendFails, Stop, Shutdown, StrayInit, timeVars
  <2>2. mac \in [End -> BOOLEAN] /\ FALSE \in BOOLEAN
    BY <1>0 DEF SilenceType
  <2> QED BY <2>1, <2>2
<1> QED BY <1>1, <1>2, <1>3, <1>4, <1>5, <1>6 DEF SilenceType

\* A frame that is late and time that passes keep the types.
LEMMA OutsideTypes ==
    ASSUME TypeOK, Tick \/ \E e \in End : Delay(e)
    PROVE  TypeOK'
<1> USE TypePartsNext
<1>0. /\ AssocType /\ DataType /\ SilenceType /\ AgeType /\ LinkType /\ EnvType /\ MsgType
  BY TypeParts
<1>1. ASSUME NEW e \in End, Delay(e) PROVE TypeOK'
  <2>1. LinkType' /\ EnvType'
    BY <1>0, <1>1, DelayFrames
  <2>2. AssocType' /\ DataType' /\ SilenceType' /\ AgeType' /\ MsgType'
    BY <1>0, <1>1 DEF Delay, AssocType, DataType, SilenceType, AgeType, MsgType, assocVars, timeVars, msgVars
  <2> QED BY <2>1, <2>2
<1>2. CASE Tick
  <2>1. AssocType' /\ DataType' /\ LinkType' /\ EnvType' /\ MsgType' /\ mac' = mac
    BY <1>0, <1>2 DEF Tick, AssocType, DataType, LinkType, EnvType, MsgType, assocVars, envVars, msgVars
  <2>2. silence' \in [End -> 0 .. DeadTimeout] /\ AgeType'
    BY <1>0, <1>2, TimeAssumption DEF Tick, SilenceType, AgeType
  <2> QED BY <1>0, <2>1, <2>2 DEF SilenceType
<1> QED BY <1>1, <1>2

\* The first state.
LEMMA InitTypes == Init => TypeOK
<1> SUFFICES ASSUME Init PROVE TypeOK
  OBVIOUS
<1>1. AssocType
  BY States DEF Init, AssocType, Key
<1>2. DataType
  BY FreshPlane DEF Init, DataType
<1>3. silence \in [End -> 0 .. DeadTimeout] /\ AgeType
  BY TimeAssumption DEF Init, AgeType
<1>4. mac \in [End -> BOOLEAN]
  BY DEF Init
<1>5. LinkType
  BY EmptyMembers DEF Init, LinkType
<1>6. EnvType
  BY DEF Init, EnvType
<1>7. MsgType
  <2>1. sent \in [End -> Nat] /\ must \subseteq End \X Nat
    BY DEF Init
  <2>2. got \in [End -> Seq(Nat)]
    BY DEF Init
  <2>3. early \in BOOLEAN
    BY DEF Init
  <2> QED BY <2>1, <2>2, <2>3 DEF MsgType
<1> QED BY <1>1, <1>2, <1>3, <1>4, <1>5, <1>6, <1>7, TypeParts DEF SilenceType

\* Every step keeps the types.
LEMMA NextTypes == TypeOK /\ [Next]_vars => TypeOK'
<1> SUFFICES ASSUME TypeOK, [Next]_vars PROVE TypeOK'
  OBVIOUS
<1>1. CASE Next
  <2>1. ASSUME NEW e \in End, Poll(e) PROVE TypeOK'
    BY <2>1, HandleTypes, SendTypes, LeaveTypes DEF Poll
  <2>2. ASSUME NEW e \in End, DataSend(e) PROVE TypeOK'
    BY <2>2, SendTypes
  <2>3. ASSUME NEW e \in End, SendFails(e) \/ Stop(e) \/ Shutdown(e) \/ StrayInit(e) PROVE TypeOK'
    BY <2>3, LeaveTypes
  <2>4. ASSUME NEW e \in End, Delay(e) PROVE TypeOK'
    BY <2>4, OutsideTypes
  <2>5. CASE Tick
    BY <2>5, OutsideTypes
  <2> QED BY <1>1, <2>1, <2>2, <2>3, <2>4, <2>5 DEF Next
<1>2. CASE UNCHANGED vars
  BY <1>2 DEF vars, assocVars, timeVars, envVars, msgVars, TypeOK
<1> QED BY <1>1, <1>2

\* State, keys, counters, timers and frames keep their types through every rekey; the replay
\* window only holds TSNs it covers and nothing beyond it is acknowledged.
THEOREM SessionTypeCorrect == Spec => []TypeOK
BY InitTypes, NextTypes, PTL DEF Spec

-----------------------------------------------------------------------------
(* Both ends seal alike.                                                     *)

Handshake == {"INIT", "INIT_ACK", "COOKIE_ECHO", "COOKIE_ACK"}
Plain(F) == \A m \in F : m.type \notin Handshake

\* Frames that are no COOKIE-ACK are sent to the initiator, or it leaves.
LEMMA AckKept ==
    ASSUME LinkType, OneAck, NEW ts \in Seq(Frame), NoAck(Members(ts)),
           \/ chan'["ini"] = chan["ini"] \o ts /\ late'["ini"] = late["ini"]
           \/ chan'["ini"] = << >> /\ late'["ini"] = {}
    PROVE  OneAck'
<1>1. chan["ini"] \in Seq(Frame)
  BY PeerEnd DEF LinkType
<1>2. AckOnce(chan["ini"] \o ts) /\ Members(chan["ini"] \o ts) = Members(chan["ini"]) \cup Members(ts)
  BY <1>1, AckCat, MembersCat DEF OneAck
<1>3. CASE chan'["ini"] = chan["ini"] \o ts /\ late'["ini"] = late["ini"]
  BY <1>2, <1>3 DEF OneAck, NoAck, Flying
<1>4. CASE chan'["ini"] = << >> /\ late'["ini"] = {}
  BY <1>4, EmptyMembers DEF OneAck, NoAck, Flying, AckOnce
<1> QED BY <1>3, <1>4

\* An end takes a frame and sends no COOKIE-ACK.
LEMMA TakeAcks ==
    ASSUME LinkType, EnvType, OneAck, ~AckRepeats', NEW e \in End,
           NEW m \in Arriving(e), NEW fs \in Seq(Frame), Take(e, m, fs), NoAck(Members(fs))
    PROVE  OneAck'
<1>1. CASE e = "ini"
  BY <1>1, TakeByIni
<1>2. CASE e = "res"
  <2>1. NoAck(Members(To("res", fs)))
    BY EmptyMembers DEF To, NoAck
  <2> QED BY <1>2, <2>1, TakeByRes
<1> QED BY <1>1, <1>2, PeerEnd

\* An end sends frames that are no COOKIE-ACK.
LEMMA PutAcks ==
    ASSUME LinkType, OneAck, NEW e \in End, NEW fs \in Seq(Frame), Put(e, fs), UNCHANGED late, NoAck(Members(fs))
    PROVE  OneAck'
<1> DEFINE ts == IF e = "res" /\ mac[e] THEN To(e, fs) ELSE << >>
<1>1. ts \in Seq(Frame) /\ NoAck(Members(ts))
  BY ToFrames, EmptyMembers DEF NoAck
<1>2. chan["ini"] \in Seq(Frame) /\ chan["ini"] \o << >> = chan["ini"]
  BY PeerEnd DEF LinkType
<1>3. chan'["ini"] = chan["ini"] \o ts
  <2>1. CASE e = "res"
    BY <2>1, PeerEnd DEF Put, LinkType
  <2>2. CASE e = "ini"
    BY <2>2, <1>2, PeerEnd DEF Put, LinkType
  <2> QED BY <2>1, <2>2, PeerEnd
<1> HIDE DEF ts
<1> QED BY <1>1, <1>3, AckKept

\* A step that touches no rekey: nothing the ends know of it changes, but that an end may
\* leave, and no frame of it is new.
LEMMA PlainStep ==
    ASSUME Parts, OneAck', UNCHANGED <<key, assoc, eph, answer, lastTs, reph>>, happened \subseteq happened',
           \A e \in End : st'[e] = st[e] \/ (st'[e] \in Gone /\ Flying(e)' = {}),
           NEW F, Plain(F), \A e \in End : Flying(e)' \subseteq Flying(e) \cup F
    PROVE  Parts'
<1>1. /\ \A m \in Flying("ini")' : m \in Flying("ini") \/ m.type \notin Handshake
      /\ \A m \in Flying("res")' : m \in Flying("res") \/ m.type \notin Handshake
      /\ st'["ini"] = st["ini"] \/ (st'["ini"] \in Gone /\ Flying("ini")' = {})
      /\ st'["res"] = st["res"] \/ st'["res"] \in Gone
  BY PeerEnd DEF Plain
<1>2. RoleInv'
  BY <1>1 DEF Parts, RoleInv, Handshake, Gone
<1>3. NumberInv'
  BY <1>1 DEF Parts, NumberInv, Behind, Gone
<1>4. CookieInv'
  BY <1>1 DEF Parts, CookieInv, Behind, init_fresh, Handshake, Gone
<1>5. AckInv'
  <2>1. ~NoAck(Flying("ini")') => ~NoAck(Flying("ini")) /\ st'["ini"] = st["ini"]
    BY <1>1 DEF NoAck, Handshake
  <2> QED BY <1>1, <2>1 DEF Parts, AckInv, Gone
<1>6. AgreeInv'
  BY <1>1 DEF Parts, AgreeInv, Gone, seal
<1> QED BY <1>2, <1>3, <1>4, <1>5, <1>6 DEF Parts

\* What is in flight is frames.
LEMMA FlyingFrames ==
    ASSUME LinkType, NEW e \in End
    PROVE  Flying(e) \subseteq Frame /\ Arriving(e) \subseteq Flying(e)
<1>1. chan[e] \in Seq(Frame) /\ late[e] \subseteq Frame
  BY DEF LinkType
<1>2. Members(chan[e]) \subseteq Frame
  BY <1>1 DEF Members
<1>3. chan[e] # << >> => Head(chan[e]) \in Members(chan[e])
  BY <1>1, MembersTail
<1> QED BY <1>1, <1>2, <1>3 DEF Flying, Arriving

\* An end leaves.
LEMMA LeaveSeal ==
    ASSUME TypeOK, Parts, NEW e \in End, \E r \in Gone : Leave(e, r),
           UNCHANGED <<key, assoc, eph, answer, lastTs, reph>>, happened \subseteq happened'
    PROVE  Parts'
<1>0. AssocType /\ LinkType /\ OneAck
  BY TypeParts DEF Parts, AckInv
<1>1. PICK r \in Gone : Leave(e, r)
  OBVIOUS
<1>2. /\ Flying(e)' = {} /\ Flying(Peer(e))' = Flying(Peer(e)) /\ st'[e] = r /\ st'[Peer(e)] = st[Peer(e)]
      /\ chan'[e] = << >> /\ chan'[Peer(e)] = chan[Peer(e)]
  BY <1>0, <1>1, LeaveFrames
<1>3. late'[e] = {} /\ late'[Peer(e)] = late[Peer(e)]
  BY <1>0, <1>1, PeerEnd DEF Leave, LinkType
<1>4. \A f \in End : f = e \/ f = Peer(e)
  BY PeerEnd
<1>5. << >> \in Seq(Frame) /\ NoAck(Members(<< >>)) /\ chan["ini"] \o << >> = chan["ini"]
  BY <1>0, PeerEnd, EmptyMembers DEF NoAck, LinkType
<1>6. \/ chan'["ini"] = chan["ini"] \o << >> /\ late'["ini"] = late["ini"]
      \/ chan'["ini"] = << >> /\ late'["ini"] = {}
  BY <1>2, <1>3, <1>4, <1>5, PeerEnd
<1>7. OneAck'
  BY <1>0, <1>5, <1>6, AckKept
<1>8. Plain({})
  BY DEF Plain
<1> QED BY <1>1, <1>2, <1>4, <1>7, <1>8, PlainStep

\* Nothing about rekeys or frames changes.
LEMMA StillSeal ==
    ASSUME Parts, UNCHANGED <<key, assoc, eph, answer, lastTs, reph>>, UNCHANGED <<st, chan, late>>,
           happened \subseteq happened'
    PROVE  Parts'
BY DEF Parts, RoleInv, NumberInv, CookieInv, AckInv, OneAck, AgreeInv, Flying, seal, Behind, init_fresh

\* An end sends SHUTDOWN and leaves.
LEMMA ShutdownSeal ==
    ASSUME TypeOK, Parts, NEW e \in End, Shutdown(e), happened \subseteq happened'
    PROVE  Parts'
<1>0. AssocType /\ LinkType /\ OneAck
  BY TypeParts DEF Parts, AckInv
<1> DEFINE F == {Chunk("SHUTDOWN")}
<1>1. Plain(F) /\ NoAck(F)
  BY ChunkTypes DEF Plain, NoAck, ChunkType, Handshake
<1>2. /\ Flying(e)' = {} /\ Flying(Peer(e))' \subseteq Flying(Peer(e)) \cup F
      /\ chan'[e] = << >> /\ late'[Peer(e)] = late[Peer(e)]
  BY <1>0, ShutdownFrames
<1>3. PICK ts \in Seq(Frame) : chan'[Peer(e)] = chan[Peer(e)] \o ts /\ Members(ts) \subseteq F
  BY <1>0, ShutdownFrames
<1>4. late'[e] = {} /\ st'[e] = "shutdown" /\ st'[Peer(e)] = st[Peer(e)]
      /\ UNCHANGED <<key, assoc, eph, answer, lastTs, reph>>
  BY <1>0, PeerEnd DEF Shutdown, LinkType, AssocType
<1>5. \A f \in End : f = e \/ f = Peer(e)
  BY PeerEnd
<1>6. NoAck(Members(ts))
  BY <1>1, <1>3 DEF NoAck
<1>7. \/ chan'["ini"] = chan["ini"] \o ts /\ late'["ini"] = late["ini"]
      \/ chan'["ini"] = << >> /\ late'["ini"] = {}
  BY <1>2, <1>3, <1>4, <1>5, PeerEnd
<1>8. OneAck'
  BY <1>0, <1>6, <1>7, AckKept
<1> HIDE DEF F
<1>9. \A f \in End : Flying(f)' \subseteq Flying(f) \cup F
  BY <1>2, <1>5
<1>10. \A f \in End : st'[f] = st[f] \/ (st'[f] \in Gone /\ Flying(f)' = {})
  BY <1>2, <1>4, <1>5, States
<1> QED BY <1>1, <1>4, <1>8, <1>9, <1>10, PlainStep

\* An end sends a frame that has no part in a rekey.
LEMMA PutSeal ==
    ASSUME TypeOK, Parts, NEW e \in End, NEW x \in Frame, x.type \notin Handshake,
           Put(e, <<x>>), UNCHANGED late, UNCHANGED assocVars, happened \subseteq happened'
    PROVE  Parts'
<1>0. LinkType /\ OneAck
  BY TypeParts DEF Parts, AckInv
<1>1. <<x>> \in Seq(Frame) /\ Members(<<x>>) = {x}
  BY OneMember
<1>2. Plain({x}) /\ NoAck(Members(<<x>>))
  BY <1>1 DEF Plain, NoAck, Handshake
<1>3. OneAck'
  BY <1>0, <1>1, <1>2, PutAcks
<1>4. \A f \in End : Flying(f)' \subseteq Flying(f) \cup {x}
  <2>1. Flying(e)' = Flying(e) /\ Flying(Peer(e))' \subseteq Flying(Peer(e)) \cup {x}
    BY <1>0, <1>1, PutFrames
  <2>2. \A f \in End : f = e \/ f = Peer(e)
    BY PeerEnd
  <2> QED BY <2>1, <2>2
<1>5. UNCHANGED <<key, assoc, eph, answer, lastTs, reph>> /\ st' = st
  BY DEF assocVars
<1> QED BY <1>2, <1>3, <1>4, <1>5, PlainStep

\* A frame becomes late.
LEMMA DelaySeal ==
    ASSUME TypeOK, Parts, NEW e \in End, Delay(e), happened \subseteq happened'
    PROVE  Parts'
<1>0. LinkType /\ EnvType /\ OneAck
  BY TypeParts DEF Parts, AckInv
<1>1. /\ Flying(e)' \subseteq Flying(e) /\ Flying(Peer(e))' = Flying(Peer(e))
      /\ chan[e] # << >> /\ chan[e] \in Seq(Frame) /\ chan'[e] = Tail(chan[e])
      /\ late'[e] = late[e] \cup {Head(chan[e])}
      /\ chan'[Peer(e)] = chan[Peer(e)] /\ late'[Peer(e)] = late[Peer(e)]
  BY <1>0, DelayFrames
<1>2. OneAck'
  <2>1. CASE e = "ini"
    <3> DEFINE h == Head(chan["ini"])  t == Tail(chan["ini"])
    <3>1. h \in Members(chan["ini"]) /\ Members(t) \subseteq Members(chan["ini"])
      BY <1>1, <2>1, MembersTail
    <3>2. AckOnce(t) /\ (h.type = "COOKIE_ACK" => NoAck(Members(t)))
      BY <1>0, <1>1, <2>1, AckTail DEF OneAck
    <3>3. Flying("ini")' \subseteq Flying("ini") /\ chan'["ini"] = t /\ late'["ini"] = late["ini"] \cup {h}
      BY <1>1, <2>1
    <3> HIDE DEF h, t
    <3>4. ~NoAck(late["ini"] \cup {h}) => NoAck(Members(t))
      BY <1>0, <3>1, <3>2 DEF OneAck, NoAck
    <3> QED BY <1>0, <3>2, <3>3, <3>4 DEF OneAck
  <2>2. CASE e = "res"
    BY <1>0, <1>1, <2>2, PeerEnd DEF OneAck, Flying
  <2> QED BY <2>1, <2>2, PeerEnd
<1>3. \A f \in End : Flying(f)' \subseteq Flying(f) \cup {}
  BY <1>1, PeerEnd
<1>4. Plain({})
  BY DEF Plain
<1>5. UNCHANGED <<key, assoc, eph, answer, lastTs, reph>> /\ st' = st
  BY DEF Delay, assocVars
<1> QED BY <1>2, <1>3, <1>4, <1>5, PlainStep

\* The responder takes a rekey INIT.
LEMMA InitStep ==
    ASSUME TypeOK, Parts, ~AckRepeats', NEW e \in End, NEW m \in Arriving(e), RekeyInit(e, m),
           happened \subseteq happened'
    PROVE  Parts'
<1>0. AssocType /\ LinkType /\ EnvType
  BY TypeParts
<1>1. reph' \in Nat /\ reph' = reph + 1
  BY <1>0 DEF RekeyInit, AssocType
<1> DEFINE a == INIT_ACK(m.n, reph')
<1>m. m \in Frame /\ m \in Flying(e)
  BY <1>0, FlyingFrames
<1>2. m.n \in Nat /\ a \in Frame /\ a.type = "INIT_ACK" /\ a.n = m.n /\ a.eph = reph'
  <2>1. m.n \in Nat
    BY <1>m DEF Frame
  <2> QED BY <1>1, <2>1, ChunkTypes
<1> HIDE DEF a
<1>3. <<a>> \in Seq(Frame) /\ Members(<<a>>) = {a}
  BY <1>2, OneMember
<1>4. Take(e, m, <<a>>)
  BY DEF RekeyInit, a
<1>5. e = "res" /\ Peer(e) = "ini"
  BY <1>m, PeerEnd DEF RekeyInit, Parts, RoleInv
<1>6. Flying("res")' \subseteq Flying("res") /\ Flying("ini")' \subseteq Flying("ini") \cup {a}
  <2>1. Members(To(e, <<a>>)) \subseteq {a}
    BY <1>3, EmptyMembers DEF To
  <2> QED BY <1>0, <1>3, <1>4, <1>5, <2>1, TakeFrames
<1>7. m.n = eph /\ lastTs < eph /\ Behind /\ st["ini"] # "established"
  BY <1>0, <1>2, <1>m, <1>5 DEF RekeyInit, init_fresh, Parts, CookieInv, AssocType
<1>8. OneAck'
  BY <1>0, <1>2, <1>3, <1>4, TakeAcks DEF NoAck, Parts, AckInv
<1>9. /\ lastTs' = eph /\ eph' = eph /\ answer' = answer
      /\ st'["res"] = "wait_cookie" /\ st'["ini"] = st["ini"]
      /\ assoc'["res"] = eph /\ assoc'["ini"] = assoc["ini"]
      /\ key'["res"] = [init |-> eph, resp |-> reph'] /\ key'["ini"] = key["ini"]
  BY <1>0, <1>5, <1>7, PeerEnd DEF RekeyInit, AssocType
<1>10. NoAck(Flying("ini"))
  BY <1>0, <1>7 DEF Parts, AckInv, AssocType
<1>11. RoleInv'
  BY <1>2, <1>6, <1>9 DEF Parts, RoleInv
<1>12. NumberInv'
  BY <1>0, <1>7, <1>9 DEF Parts, NumberInv, AssocType, Behind
<1>13. CookieInv'
  <2>1. \A x \in Flying("ini") : x.type = "INIT_ACK" => x.n <= lastTs /\ x.n \in Nat
    <3>1. Flying("ini") \subseteq Frame
      BY <1>0, PeerEnd, FlyingFrames
    <3> QED BY <3>1 DEF Parts, CookieInv, Frame
  <2>2. \A x \in Flying("ini")' : x.type = "INIT_ACK" => x.n <= eph /\ (x.n = eph => x.eph = reph')
    BY <1>0, <1>2, <1>6, <1>7, <2>1 DEF AssocType
  <2>3. st["ini"] = "wait_cookie_ack" => answer.n <= lastTs
    BY DEF Parts, CookieInv
  <2>4. st["ini"] = "wait_cookie_ack" => answer.n <= eph /\ answer.n # eph
    BY <1>0, <1>7, <2>3 DEF AssocType
  <2>5. \A x \in Flying("res")' : x.type = "COOKIE_ECHO" => x.n # eph
    BY <1>0, <1>6, <1>7 DEF Parts, CookieInv, AssocType
  <2>6. \A x \in Flying("res")' : x.type \in {"INIT", "COOKIE_ECHO"} => x.n <= eph
    BY <1>6 DEF Parts, CookieInv
  <2>7. \A x \in Flying("res")' : x.type = "INIT" => ~init_fresh(x.n)'
    <3>1. Flying("res") \subseteq Frame
      BY <1>0, PeerEnd, FlyingFrames
    <3>2. \A x \in Flying("res")' : x.n \in Nat
      BY <1>6, <3>1 DEF Frame
    <3> QED BY <1>0, <1>9, <2>6, <3>2 DEF init_fresh, AssocType
  <2> QED BY <1>9, <2>2, <2>4, <2>5, <2>6, <2>7 DEF CookieInv
<1>14. AckInv'
  BY <1>2, <1>6, <1>8, <1>10 DEF AckInv, NoAck
<1>15. AgreeInv'
  BY <1>7, <1>9 DEF AgreeInv
<1> QED BY <1>11, <1>12, <1>13, <1>14, <1>15 DEF Parts

\* The initiator takes an INIT-ACK, of this rekey or an earlier one.
LEMMA InitAckStep ==
    ASSUME TypeOK, Parts, ~AckRepeats', NEW e \in End, NEW m \in Arriving(e), RekeyInitAck(e, m),
           happened \subseteq happened'
    PROVE  Parts'
<1>0. AssocType /\ LinkType /\ EnvType
  BY TypeParts
<1> DEFINE c == COOKIE_ECHO(m.n)
<1>m. m \in Frame /\ m \in Flying(e)
  BY <1>0, FlyingFrames
<1>1. m.n \in Nat /\ m.eph \in Nat
  BY <1>m DEF Frame
<1>2. c \in Frame /\ c.type = "COOKIE_ECHO" /\ c.n = m.n
  BY <1>1, ChunkTypes
<1> HIDE DEF c
<1>3. <<c>> \in Seq(Frame) /\ Members(<<c>>) = {c}
  BY <1>2, OneMember
<1>4. Take(e, m, <<c>>)
  BY DEF RekeyInitAck, c
<1>5. e = "ini" /\ Peer(e) = "res"
  BY <1>m, PeerEnd DEF RekeyInitAck, Parts, RoleInv
<1>6. Flying("ini")' \subseteq Flying("ini") /\ Flying("res")' \subseteq Flying("res") \cup {c}
  <2>1. Members(To(e, <<c>>)) \subseteq {c}
    BY <1>3, EmptyMembers DEF To
  <2> QED BY <1>0, <1>3, <1>4, <1>5, <2>1, TakeFrames
<1>7. m.n <= lastTs /\ (m.n = lastTs => m.eph = reph) /\ lastTs <= eph
  BY <1>m, <1>5 DEF RekeyInitAck, Parts, CookieInv, NumberInv
<1>8. OneAck'
  BY <1>0, <1>2, <1>3, <1>4, TakeAcks DEF NoAck, Parts, AckInv
<1>9. /\ lastTs' = lastTs /\ eph' = eph /\ reph' = reph /\ answer'.n = m.n /\ answer'.eph = m.eph
      /\ st["ini"] = "wait_ack" /\ st'["ini"] = "wait_cookie_ack" /\ st'["res"] = st["res"]
      /\ assoc' = assoc /\ key' = key
  BY <1>0, <1>5, PeerEnd DEF RekeyInitAck, AssocType
<1>10. NoAck(Flying("ini"))
  BY <1>9 DEF Parts, AckInv
<1>11. RoleInv'
  BY <1>2, <1>6, <1>9 DEF Parts, RoleInv
<1>12. NumberInv'
  BY <1>9 DEF Parts, NumberInv, Behind
<1>13. CookieInv'
  <2>1. m.n <= eph /\ (m.n = eph => lastTs = eph)
    BY <1>0, <1>1, <1>7 DEF AssocType
  <2>2. \A x \in Flying("res") : x.type = "COOKIE_ECHO" => x.n # eph
    BY <1>9 DEF Parts, CookieInv
  <2>3. \A x \in Flying("res")' : x.type = "COOKIE_ECHO" /\ x.n = eph => lastTs = eph /\ m.n = eph
    BY <1>2, <1>6, <2>1, <2>2
  <2>4. \A x \in Flying("res")' : x.type \in {"INIT", "COOKIE_ECHO"} => x.n <= eph
    BY <1>2, <1>6, <2>1 DEF Parts, CookieInv
  <2>5. \A x \in Flying("res")' : x.type = "INIT" /\ init_fresh(x.n)' => x.n = eph /\ Behind'
    BY <1>2, <1>6, <1>9 DEF Parts, CookieInv, init_fresh, Behind
  <2> QED BY <1>6, <1>7, <1>9, <2>3, <2>4, <2>5 DEF Parts, CookieInv
<1>14. AckInv'
  BY <1>6, <1>8, <1>10 DEF AckInv, NoAck
<1>15. AgreeInv'
  BY <1>9 DEF AgreeInv
<1> QED BY <1>11, <1>12, <1>13, <1>14, <1>15 DEF Parts

\* The responder takes a COOKIE-ECHO: its cookie is of the latest INIT, and so is the
\* initiator's answer.
LEMMA CookieEchoStep ==
    ASSUME TypeOK, Parts, ~AckRepeats', NEW e \in End, NEW m \in Arriving(e), RekeyCookieEcho(e, m),
           happened \subseteq happened'
    PROVE  Parts'
<1>0. AssocType /\ LinkType /\ EnvType
  BY TypeParts
<1>m. m \in Flying(e)
  BY <1>0, FlyingFrames
<1>1. Ack \in Frame /\ Ack.type = "COOKIE_ACK"
  BY ChunkTypes DEF Ack, ChunkType
<1>2. <<Ack>> \in Seq(Frame) /\ Members(<<Ack>>) = {Ack}
  BY <1>1, OneMember
<1>3. Take(e, m, <<Ack>>)
  BY DEF RekeyCookieEcho, Ack
<1>4. e = "res" /\ Peer(e) = "ini"
  BY <1>m, PeerEnd DEF RekeyCookieEcho, Parts, RoleInv
<1>5. /\ st["res"] = "wait_cookie" /\ st'["res"] = "established" /\ st'["ini"] = st["ini"]
      /\ UNCHANGED <<key, assoc, eph, answer, lastTs, reph>>
  BY <1>0, <1>4, PeerEnd DEF RekeyCookieEcho, AssocType
<1>6. m.n = eph /\ lastTs = eph
  BY <1>5 DEF RekeyCookieEcho, cookie_valid, Parts, NumberInv
<1>7. st["ini"] \notin {"wait_ack", "wait_cookie", "established"} /\ (st["ini"] = "wait_cookie_ack" => answer.n = eph)
  BY <1>m, <1>4, <1>5, <1>6 DEF RekeyCookieEcho, Parts, CookieInv, RoleInv, AgreeInv
<1>8. NoAck(Flying("ini"))
  BY <1>5 DEF Parts, AckInv
<1>9. To(e, <<Ack>>) = << >> \/ (To(e, <<Ack>>) = <<Ack>> /\ st["ini"] = "wait_cookie_ack")
  BY <1>4, <1>7 DEF To, Live
<1>10. Flying("res")' \subseteq Flying("res") /\ Flying("ini")' \subseteq Flying("ini") \cup Members(To(e, <<Ack>>))
  BY <1>0, <1>2, <1>3, <1>4, TakeFrames
<1>11. OneAck'
  <2>1. NoAck(Members(<< >>))
    BY EmptyMembers DEF NoAck
  <2> QED BY <1>0, <1>2, <1>3, <1>4, <1>8, <1>9, <2>1, TakeByRes DEF Parts, AckInv
<1>12. Members(To(e, <<Ack>>)) \subseteq {Ack} /\ (st["ini"] # "wait_cookie_ack" => Members(To(e, <<Ack>>)) = {})
  BY <1>2, <1>9, EmptyMembers
<1>13. RoleInv'
  BY <1>1, <1>5, <1>10, <1>12 DEF Parts, RoleInv
<1>14. NumberInv'
  BY <1>5 DEF Parts, NumberInv, Behind
<1>15. CookieInv'
  BY <1>1, <1>5, <1>10, <1>12 DEF Parts, CookieInv, Behind, init_fresh
<1>16. AckInv'
  <2>1. ~NoAck(Flying("ini")') => st["ini"] = "wait_cookie_ack"
    BY <1>8, <1>10, <1>12 DEF NoAck
  <2> QED BY <1>5, <1>6, <1>7, <1>11, <2>1 DEF AckInv
<1>17. AgreeInv'
  BY <1>5, <1>7 DEF AgreeInv
<1> QED BY <1>13, <1>14, <1>15, <1>16, <1>17 DEF Parts

\* The initiator takes the COOKIE-ACK and derives the responder's key.
LEMMA CookieAckStep ==
    ASSUME TypeOK, Parts, ~AckRepeats', NEW e \in End, NEW m \in Arriving(e), RekeyCookieAck(e, m),
           happened \subseteq happened'
    PROVE  Parts'
<1>0. AssocType /\ LinkType /\ EnvType
  BY TypeParts
<1>m. m \in Flying(e)
  BY <1>0, FlyingFrames
<1>2. << >> \in Seq(Frame) /\ Members(<< >>) = {}
  BY EmptyMembers
<1>3. Take(e, m, << >>) /\ m.type = "COOKIE_ACK"
  BY DEF RekeyCookieAck
<1>4. e = "ini" /\ Peer(e) = "res"
  BY <1>m, <1>3, PeerEnd DEF Parts, RoleInv
<1>5. Flying("ini")' \subseteq Flying("ini") /\ Flying("res")' \subseteq Flying("res")
  <2>1. Members(To(e, << >>)) = {}
    BY <1>2 DEF To
  <2> QED BY <1>0, <1>2, <1>3, <1>4, <2>1, TakeFrames
<1>6. OneAck' /\ NoAck(Flying("ini")')
  BY <1>0, <1>2, <1>3, <1>4, TakeByIni DEF Parts, AckInv
<1>7. st["res"] # "wait_cookie" /\ answer.n = eph /\ lastTs = eph /\ st["ini"] = "wait_cookie_ack"
  BY <1>m, <1>3, <1>4 DEF Parts, AckInv, NoAck
<1>8. answer.eph = reph
  BY <1>7 DEF Parts, CookieInv
<1>9. /\ st'["ini"] = "established" /\ st'["res"] = st["res"]
      /\ UNCHANGED <<assoc, eph, answer, lastTs, reph>>
      /\ key'["ini"] = [init |-> eph, resp |-> reph] /\ key'["res"] = key["res"]
  BY <1>0, <1>4, <1>8, PeerEnd DEF RekeyCookieAck, AssocType
<1>10. RoleInv'
  BY <1>5, <1>9 DEF Parts, RoleInv
<1>11. NumberInv'
  BY <1>0, <1>7, <1>9 DEF Parts, NumberInv, AssocType
<1>12. CookieInv'
  <2>1. \A x \in Flying("res") : x.n \in Nat
    BY <1>0, PeerEnd, FlyingFrames DEF Frame
  <2>2. \A x \in Flying("res")' : x.type = "INIT" => ~init_fresh(x.n)'
    BY <1>0, <1>5, <1>7, <1>9, <2>1 DEF Parts, CookieInv, init_fresh, AssocType
  <2> QED BY <1>5, <1>7, <1>9, <2>2 DEF Parts, CookieInv
<1>13. AckInv'
  BY <1>6 DEF AckInv
<1>14. AgreeInv'
  BY <1>7, <1>9 DEF Parts, NumberInv, AgreeInv, seal
<1> QED BY <1>10, <1>11, <1>12, <1>13, <1>14 DEF Parts

\* The initiator starts a rekey.
LEMMA StartStep ==
    ASSUME TypeOK, Parts, NEW e \in End, KeepaliveTick(e), rekey_due(e), UNCHANGED envVars
    PROVE  Parts' /\ Flying("ini")' = Flying("ini")
           /\ Flying("res")' \subseteq Flying("res") \cup {Chunk("HEARTBEAT"), INIT(eph + 1)}
<1>0. AssocType /\ LinkType /\ EnvType
  BY TypeParts
<1> DEFINE hb == IF hb_due(e) THEN <<Chunk("HEARTBEAT")>> ELSE << >>
           i == INIT(eph')
<1>1. /\ e = "ini" /\ Peer(e) = "res" /\ st["ini"] = "established" /\ st'["ini"] = "wait_ack" /\ st'["res"] = st["res"]
      /\ eph' = eph + 1 /\ assoc'["ini"] = eph + 1 /\ assoc'["res"] = assoc["res"]
      /\ UNCHANGED <<key, answer, lastTs, reph, late>>
      /\ Put(e, hb \o <<i>>)
  <2>1. ~Happens("send")
    BY <1>0 DEF Happens, EnvType, envVars
  <2>2. /\ st' = [st EXCEPT ![e] = "wait_ack"] /\ eph' = eph + 1 /\ assoc' = [assoc EXCEPT ![e] = eph']
        /\ UNCHANGED <<key, answer, lastTs, reph, late>> /\ Put(e, hb \o <<i>>)
    BY <2>1 DEF KeepaliveTick
  <2>3. e = "ini" /\ Peer(e) = "res" /\ st["ini"] = "established"
    BY PeerEnd DEF rekey_due
  <2> HIDE DEF hb, i
  <2> QED BY <1>0, <2>2, <2>3, PeerEnd DEF AssocType
<1>2. eph \in Nat /\ eph' \in Nat
  BY <1>0, <1>1 DEF AssocType
<1>3. /\ i \in Frame /\ i.type = "INIT" /\ i.n = eph + 1
      /\ Chunk("HEARTBEAT") \in Frame /\ Chunk("HEARTBEAT").type = "HEARTBEAT"
  BY <1>1, <1>2, ChunkTypes DEF ChunkType
<1> HIDE DEF i
<1>4. hb \in Seq(Frame) /\ Members(hb) \subseteq {Chunk("HEARTBEAT")} /\ <<i>> \in Seq(Frame) /\ Members(<<i>>) = {i}
  BY <1>3, OneMember, EmptyMembers
<1> HIDE DEF hb
<1>5. hb \o <<i>> \in Seq(Frame) /\ Members(hb \o <<i>>) \subseteq {Chunk("HEARTBEAT"), i}
  <2> DEFINE t == <<i>>
  <2>1. hb \in Seq(Frame) /\ t \in Seq(Frame) /\ Members(t) = {i}
    BY <1>4
  <2> HIDE DEF t
  <2>2. hb \o t \in Seq(Frame) /\ Members(hb \o t) = Members(hb) \cup Members(t)
    BY <2>1, MembersCat
  <2>3. Members(hb \o t) \subseteq {Chunk("HEARTBEAT"), i}
    BY <1>4, <2>1, <2>2
  <2> QED BY <2>2, <2>3 DEF t
<1>6. Flying("ini")' = Flying("ini") /\ Flying("res")' \subseteq Flying("res") \cup {Chunk("HEARTBEAT"), i}
  BY <1>0, <1>1, <1>5, PutFrames
<1>7. OneAck'
  <2>1. NoAck(Members(hb \o <<i>>))
    BY <1>3, <1>5 DEF NoAck
  <2>2. OneAck
    BY DEF Parts, AckInv
  <2>3. Put(e, hb \o <<i>>) /\ UNCHANGED late
    BY <1>1
  <2> QED BY <1>0, <1>5, <2>1, <2>2, <2>3, PutAcks
<1>8. lastTs <= eph /\ lastTs \in Nat /\ st["res"] # "wait_cookie" /\ NoAck(Flying("ini")) /\ key["ini"].init <= eph
  BY <1>0, <1>1 DEF Parts, NumberInv, AgreeInv, AckInv, AssocType
<1>k. key["ini"].init \in Nat
  BY <1>0, PeerEnd DEF AssocType, Key
<1>9. RoleInv'
  BY <1>1, <1>3, <1>6 DEF Parts, RoleInv
<1>10. NumberInv'
  BY <1>1, <1>2, <1>8, <1>k DEF Parts, NumberInv, Behind
<1>11. CookieInv'
  <2>1. \A x \in Flying("res") : x.type \in {"INIT", "COOKIE_ECHO"} => x.n <= eph /\ x.n \in Nat
    <3>1. Flying("res") \subseteq Frame
      BY <1>0, PeerEnd, FlyingFrames
    <3> QED BY <3>1 DEF Parts, CookieInv, Frame
  <2>2. \A x \in Flying("res")' : /\ x.type \in {"INIT", "COOKIE_ECHO"} => x.n <= eph + 1
                                  /\ x.type = "COOKIE_ECHO" => x.n # eph + 1
    BY <1>2, <1>3, <1>6, <2>1
  <2>3. \A x \in Flying("ini")' : x.type = "INIT_ACK" => x.n <= lastTs' /\ (x.n = lastTs' => x.eph = reph')
    BY <1>1, <1>6 DEF Parts, CookieInv
  <2>4. st'["ini"] # "wait_cookie_ack"
    BY <1>1
  <2>5. \A x \in Flying("res")' : /\ x.type \in {"INIT", "COOKIE_ECHO"} => x.n <= eph'
                                  /\ x.type = "COOKIE_ECHO" => x.n # eph'
    BY <1>1, <2>2
  <2>6. \A x \in Flying("res")' : x.type = "INIT" /\ init_fresh(x.n)' => x.n = eph'
    BY <1>1, <1>3, <1>6 DEF Parts, CookieInv, init_fresh
  <2>7. Behind'
    BY <1>1, <1>2, <1>8, <1>k DEF Behind
  <2> QED BY <1>1, <2>3, <2>4, <2>5, <2>6, <2>7 DEF CookieInv
<1>12. AckInv'
  BY <1>6, <1>7, <1>8 DEF AckInv
<1>13. AgreeInv'
  BY <1>1 DEF AgreeInv
<1> QED BY <1>1, <1>6, <1>9, <1>10, <1>11, <1>12, <1>13 DEF Parts, i

\* The initiator starts a rekey, and its INIT cannot be sent.
LEMMA StartFails ==
    ASSUME TypeOK, Parts, NEW e \in End, KeepaliveTick(e), rekey_due(e), Happens("send")
    PROVE  Parts' /\ Flying("ini")' = Flying("ini")
           /\ Flying("res")' \subseteq Flying("res") \cup {Chunk("HEARTBEAT")}
<1>0. AssocType /\ LinkType /\ EnvType
  BY TypeParts
<1> DEFINE hb == IF hb_due(e) THEN <<Chunk("HEARTBEAT")>> ELSE << >>
<1>1. /\ e = "ini" /\ Peer(e) = "res" /\ st["ini"] = "established" /\ st' = st
      /\ eph' = eph + 1 /\ assoc'["ini"] = eph + 1 /\ assoc'["res"] = assoc["res"]
      /\ UNCHANGED <<key, answer, lastTs, reph, late>>
      /\ Put(e, hb)
  <2>1. trouble' # trouble
    BY <1>0 DEF Happens, EnvType
  <2>2. /\ st' = st /\ eph' = eph + 1 /\ assoc' = [assoc EXCEPT ![e] = eph']
        /\ UNCHANGED <<key, answer, lastTs, reph, late>> /\ Put(e, hb)
    BY <2>1 DEF KeepaliveTick, envVars
  <2>3. e = "ini" /\ Peer(e) = "res" /\ st["ini"] = "established"
    BY PeerEnd DEF rekey_due
  <2> HIDE DEF hb
  <2> QED BY <1>0, <2>2, <2>3, PeerEnd DEF AssocType
<1>2. eph \in Nat /\ lastTs \in Nat /\ key["ini"].init \in Nat
  BY <1>0, PeerEnd DEF AssocType, Key
<1>3. Chunk("HEARTBEAT") \in Frame /\ Chunk("HEARTBEAT").type = "HEARTBEAT"
  BY ChunkTypes DEF ChunkType
<1>4. hb \in Seq(Frame) /\ Members(hb) \subseteq {Chunk("HEARTBEAT")}
  BY <1>3, OneMember, EmptyMembers
<1> HIDE DEF hb
<1>6. Flying("ini")' = Flying("ini") /\ Flying("res")' \subseteq Flying("res") \cup {Chunk("HEARTBEAT")}
  BY <1>0, <1>1, <1>4, PutFrames
<1>7. OneAck'
  <2>1. NoAck(Members(hb))
    BY <1>3, <1>4 DEF NoAck
  <2> QED BY <1>0, <1>1, <1>4, <2>1, PutAcks DEF Parts, AckInv
<1>8. lastTs <= eph /\ st["res"] # "wait_cookie" /\ NoAck(Flying("ini")) /\ key["ini"].init <= eph
  BY <1>1 DEF Parts, NumberInv, AgreeInv, AckInv
<1>9. RoleInv'
  BY <1>1, <1>3, <1>6 DEF Parts, RoleInv
<1>10. NumberInv'
  BY <1>1, <1>2, <1>8 DEF Parts, NumberInv, Behind
<1>11. CookieInv'
  <2>1. \A x \in Flying("res") : x.type \in {"INIT", "COOKIE_ECHO"} => x.n <= eph /\ x.n \in Nat
    <3>1. Flying("res") \subseteq Frame
      BY <1>0, PeerEnd, FlyingFrames
    <3> QED BY <3>1 DEF Parts, CookieInv, Frame
  <2>2. \A x \in Flying("res")' : x.type \in {"INIT", "COOKIE_ECHO"} => x.n <= eph' /\ x.n # eph'
    BY <1>1, <1>2, <1>3, <1>6, <2>1
  <2>3. \A x \in Flying("res")' : x.type = "INIT" => ~init_fresh(x.n)'
    BY <1>1, <1>3, <1>6 DEF Parts, CookieInv, init_fresh
  <2>4. \A x \in Flying("ini")' : x.type = "INIT_ACK" => x.n <= lastTs' /\ (x.n = lastTs' => x.eph = reph')
    BY <1>1, <1>6 DEF Parts, CookieInv
  <2> QED BY <1>1, <2>2, <2>3, <2>4 DEF CookieInv
<1>12. AckInv'
  BY <1>6, <1>7, <1>8 DEF AckInv
<1>13. AgreeInv'
  BY <1>1, <1>8 DEF AgreeInv, Happens
<1> QED BY <1>6, <1>9, <1>10, <1>11, <1>12, <1>13 DEF Parts

\* What happened stays on the record.
LEMMA HappenedGrows == [Next]_vars => happened \subseteq happened'
<1>1. ASSUME NEW k, Happens(k) PROVE happened \subseteq happened'
  BY <1>1 DEF Happens
<1>2. ASSUME NEW e \in End, NEW m, NEW fs, Take(e, m, fs) PROVE happened \subseteq happened'
  BY <1>2, <1>1 DEF Take, envVars
<1>3. ASSUME NEW e \in End, HandleFrame(e) PROVE happened \subseteq happened'
  BY <1>3, <1>2 DEF HandleFrame, RecvHeartbeat, RecvOther, RecvShutdown, RecvData, RekeyInit, RekeyInitAck,
                    RekeyCookieEcho, RekeyCookieAck, RekeyRefuse, envVars
<1>4. ASSUME NEW e \in End, KeepaliveTick(e) \/ Dead(e) \/ DataSend(e) \/ Shutdown(e)
      PROVE  happened \subseteq happened'
  BY <1>4, <1>1 DEF KeepaliveTick, Dead, DataSend, Shutdown, envVars
<1>5. ASSUME NEW e \in End, SendFails(e) \/ Stop(e) \/ StrayInit(e) \/ Delay(e)
      PROVE  happened \subseteq happened'
  BY <1>5, <1>1 DEF SendFails, Stop, StrayInit, Delay
<1>6. Tick \/ UNCHANGED vars => happened \subseteq happened'
  BY DEF Tick, vars, envVars
<1> QED BY <1>3, <1>4, <1>5, <1>6 DEF Next, Poll

\* A frame that is handled keeps the invariant.
LEMMA HandleSeal ==
    ASSUME TypeOK, Parts, ~AckRepeats', NEW e \in End, HandleFrame(e), happened \subseteq happened'
    PROVE  Parts'
<1>0. AssocType /\ LinkType /\ EnvType /\ OneAck
  BY TypeParts DEF Parts, AckInv
<1>1. PICK m \in Arriving(e) :
        \/ RecvHeartbeat(e, m) \/ RecvOther(e, m) \/ RecvShutdown(e, m) \/ RecvData(e, m)
        \/ RekeyInit(e, m) \/ RekeyInitAck(e, m) \/ RekeyCookieEcho(e, m) \/ RekeyCookieAck(e, m)
        \/ RekeyRefuse(e, m)
  BY DEF HandleFrame
<1>2. ASSUME NEW fs, fs \in {<< >>, <<Chunk("HEARTBEAT_ACK")>>, <<Chunk("SACK")>>},
             Take(e, m, fs), UNCHANGED assocVars
      PROVE  Parts'
  <2> DEFINE F == {Chunk("HEARTBEAT_ACK"), Chunk("SACK")}
  <2>1. /\ Chunk("HEARTBEAT_ACK") \in Frame /\ Chunk("HEARTBEAT_ACK").type = "HEARTBEAT_ACK"
        /\ Chunk("SACK") \in Frame /\ Chunk("SACK").type = "SACK"
    BY ChunkTypes DEF ChunkType
  <2>2. fs \in Seq(Frame) /\ Members(fs) \subseteq F
    <3>1. << >> \in Seq(Frame) /\ Members(<< >>) = {}
      BY EmptyMembers
    <3>2. \A x \in Frame : <<x>> \in Seq(Frame) /\ Members(<<x>>) = {x}
      BY OneMember
    <3>3. fs = << >> \/ \E x \in F : fs = <<x>> /\ x \in Frame
      BY <1>2, <2>1
    <3> HIDE DEF F
    <3> QED BY <3>1, <3>2, <3>3
  <2>3. Plain(F) /\ NoAck(Members(fs))
    BY <2>1, <2>2 DEF Plain, NoAck, Handshake
  <2>4. OneAck'
    BY <1>0, <1>2, <2>2, <2>3, TakeAcks
  <2>5. Members(To(e, fs)) \subseteq F
    BY <2>2, EmptyMembers DEF To
  <2>6. \A f \in End : Flying(f)' \subseteq Flying(f) \cup F
    <3>1. Flying(e)' \subseteq Flying(e) /\ Flying(Peer(e))' \subseteq Flying(Peer(e)) \cup Members(To(e, fs))
      BY <1>0, <1>2, <2>2, TakeFrames
    <3>2. \A f \in End : f = e \/ f = Peer(e)
      BY PeerEnd
    <3> HIDE DEF F
    <3> QED BY <2>5, <3>1, <3>2
  <2>7. UNCHANGED <<key, assoc, eph, answer, lastTs, reph>> /\ st' = st
    BY <1>2 DEF assocVars
  <2> HIDE DEF F
  <2> QED BY <2>3, <2>4, <2>6, <2>7, PlainStep
<1>3. CASE RecvHeartbeat(e, m)
  BY <1>2, <1>3 DEF RecvHeartbeat
<1>4. CASE RecvOther(e, m)
  BY <1>2, <1>4 DEF RecvOther
<1>5. CASE RecvData(e, m)
  <2>1. \E fs \in {<< >>, <<Chunk("SACK")>>} : Take(e, m, fs)
    BY <1>5 DEF RecvData
  <2> QED BY <1>2, <1>5, <2>1 DEF RecvData
<1>6. CASE RecvShutdown(e, m) \/ RekeyRefuse(e, m)
  <2>1. \E r \in Gone : Leave(e, r)
    BY <1>6, States DEF RecvShutdown, RekeyRefuse
  <2>2. UNCHANGED <<key, assoc, eph, answer, lastTs, reph>>
    BY <1>6 DEF RecvShutdown, RekeyRefuse
  <2> QED BY <2>1, <2>2, LeaveSeal
<1> QED BY <1>1, <1>3, <1>4, <1>5, <1>6, InitStep, InitAckStep, CookieEchoStep, CookieAckStep

\* Every step of the session keeps the invariant.
LEMMA NextSeal ==
    ASSUME TypeOK, SealInv, [Next]_vars
    PROVE  SealInv'
<1> SUFFICES ASSUME ~AckRepeats' PROVE Parts'
  BY DEF SealInv
<1>0. AssocType /\ LinkType /\ EnvType
  BY TypeParts
<1>1. Parts /\ OneAck /\ happened \subseteq happened'
  BY HappenedGrows DEF SealInv, AckRepeats, Parts, AckInv
<1>2. ASSUME NEW e \in End, HandleFrame(e) PROVE Parts'
  BY <1>1, <1>2, HandleSeal
<1>3. ASSUME NEW e \in End, Dead(e) \/ SendFails(e) \/ Stop(e) PROVE Parts'
  <2>1. \E r \in Gone : Leave(e, r)
    BY <1>3, States DEF Dead, SendFails, Stop
  <2>2. UNCHANGED <<key, assoc, eph, answer, lastTs, reph>>
    BY <1>3 DEF Dead, SendFails, Stop
  <2> QED BY <1>1, <2>1, <2>2, LeaveSeal
<1>4. ASSUME NEW e \in End, StrayInit(e) PROVE Parts'
  <2>1. UNCHANGED <<key, assoc, eph, answer, lastTs, reph>>
    BY <1>4 DEF StrayInit
  <2>2. CASE Leave(e, "err")
    BY <1>1, <2>1, <2>2, LeaveSeal, States
  <2>3. CASE UNCHANGED <<st, chan, late>>
    BY <1>1, <2>1, <2>3, StillSeal
  <2> QED BY <1>4, <2>2, <2>3 DEF StrayInit
<1>5. ASSUME NEW e \in End, Shutdown(e) PROVE Parts'
  BY <1>1, <1>5, ShutdownSeal
<1>6. ASSUME NEW e \in End, DataSend(e) PROVE Parts'
  <2>1. DATA(seal(e), dp[e], sent'[e]) \in Frame /\ DATA(seal(e), dp[e], sent'[e]).type = "DATA"
    <3>1. seal(e) \in Seal /\ dp[e] \in DataPlane
      BY TypeParts DEF seal, Seal, AssocType, DataType, PlaneOK
    <3>2. sent'[e] \in Nat
      BY <1>6, TypeParts DEF DataSend, MsgType
    <3> QED BY <3>1, <3>2, ChunkTypes
  <2> DEFINE x == DATA(seal(e), dp[e], sent'[e])
  <2>2. Put(e, <<x>>) /\ UNCHANGED late /\ UNCHANGED assocVars
    BY <1>6 DEF DataSend
  <2> HIDE DEF x
  <2>3. x \in Frame /\ x.type \notin Handshake
    BY <2>1 DEF x, Handshake
  <2> QED BY <1>1, <2>2, <2>3, PutSeal
<1>7. ASSUME NEW e \in End, KeepaliveTick(e) PROVE Parts'
  <2>1. CASE rekey_due(e)
    <3>1. UNCHANGED envVars \/ Happens("send")
      BY <1>7, <2>1 DEF KeepaliveTick
    <3> QED BY <1>1, <1>7, <2>1, <3>1, StartStep, StartFails
  <2>2. CASE ~rekey_due(e)
    <3>1. hb_due(e) /\ Put(e, <<Chunk("HEARTBEAT")>>) /\ UNCHANGED late /\ UNCHANGED assocVars
      BY <1>7, <2>2 DEF KeepaliveTick, assocVars
    <3>2. Chunk("HEARTBEAT") \in Frame /\ Chunk("HEARTBEAT").type \notin Handshake
      BY ChunkTypes DEF ChunkType, Handshake
    <3> QED BY <1>1, <3>1, <3>2, PutSeal
  <2> QED BY <2>1, <2>2
<1>8. ASSUME NEW e \in End, Delay(e) PROVE Parts'
  BY <1>1, <1>8, DelaySeal
<1>9. CASE Tick \/ UNCHANGED vars
  <2>1. UNCHANGED <<key, assoc, eph, answer, lastTs, reph>> /\ UNCHANGED <<st, chan, late>>
    BY <1>9 DEF Tick, vars, assocVars
  <2> QED BY <1>1, <2>1, StillSeal
<1> QED BY <1>2, <1>3, <1>4, <1>5, <1>6, <1>7, <1>8, <1>9 DEF Next, Poll

\* The first state.
LEMMA InitSeal == Init => SealInv
<1> SUFFICES ASSUME Init PROVE Parts
  BY DEF SealInv
<1>1. /\ chan["ini"] = << >> /\ late["ini"] = {} /\ late["res"] = {} /\ chan["res"] = << >>
      /\ st["ini"] = "established" /\ st["res"] = "established"
      /\ eph = 0 /\ lastTs = 0 /\ reph = 0 /\ assoc["ini"] = 0 /\ assoc["res"] = 0
      /\ key["ini"] = [init |-> 0, resp |-> 0] /\ key["res"] = [init |-> 0, resp |-> 0]
  BY PeerEnd DEF Init
<1>2. Flying("ini") = {} /\ Flying("res") = {}
  BY <1>1, EmptyMembers DEF Flying
<1>3. RoleInv /\ NumberInv /\ CookieInv
  BY <1>1, <1>2 DEF RoleInv, NumberInv, CookieInv, Behind
<1>4. AckInv
  BY <1>1, <1>2 DEF AckInv, OneAck, NoAck, AckOnce
<1>5. AgreeInv
  BY <1>1 DEF AgreeInv, seal
<1> QED BY <1>3, <1>4, <1>5 DEF Parts

\* For any number of rekeys and messages, any loss, delay and reordering, repeated frames of every
\* kind but COOKIE-ACK, kills and other stations' INITs: two ends that are both established hold
\* the same key and assoc_id, as long as no INIT failed to be sent.
THEOREM RekeyAgrees == "COOKIE_ACK" \notin DupKinds => (Spec => []SealsAgree)
<1> SUFFICES ASSUME "COOKIE_ACK" \notin DupKinds PROVE Spec => []SealsAgree
  OBVIOUS
<1>1. Init => IndInv
  BY InitTypes, InitSeal DEF IndInv
<1>2. IndInv /\ [Next]_vars => IndInv'
  BY NextTypes, NextSeal DEF IndInv
<1>3. IndInv => SealsAgree
  BY PeerEnd DEF IndInv, SealInv, AckRepeats, Parts, AgreeInv, SealsAgree
<1> QED BY <1>1, <1>2, <1>3, PTL DEF Spec

-----------------------------------------------------------------------------
(* No message twice.  A rekey starts the window over: what keeps a frame that  *)
(* comes again from being taken again is that its seal is an earlier one.      *)

DataTo(e) == {m \in Flying(e) : m.type = "DATA"}

\* m's seal is one that e has left for good, or the window refuses it.
Spent(e, m) == m.seal.assoc < assoc[e] \/ (m.seal = seal(e) /\ ~Admitted(dp[e], m.tsn))

\* Messages are numbered as they are sent, and a message has one frame, sealed with a key that its
\* sender has had; the responder changes key and assoc_id together.
Known == \A e \in End : /\ \A x \in Members(got[e]) : x <= sent[Peer(e)]
                        /\ \A m \in DataTo(e) : m.msg <= sent[Peer(e)]
Single == \A e \in End : \A x, y \in DataTo(e) : x.msg = y.msg => x = y
Sealed == /\ \A m \in DataTo("res") : m.seal.key.init <= key["ini"].init
          /\ \A m \in DataTo("ini") : m.seal.key.init = m.seal.assoc
Refused == \A e \in End : \A m \in DataTo(e) : m.msg \in Members(got[e]) => Spent(e, m)

OnceParts == Known /\ Single /\ Sealed /\ Refused /\ DeliveredOnce
OnceInv == AckRepeats \/ OnceParts

\* The window refuses what it has taken and what it refused before.
LEMMA SlideRefuses ==
    ASSUME NEW d, PlaneOK(d), NEW t \in Nat, NEW u \in Nat, NEW w,
           w.top = rw_slide(d, t).top, w.seen = rw_slide(d, t).seen
    PROVE  ~Admitted(w, t) /\ (~Admitted(d, u) => ~Admitted(w, u))
<1>1. d.top \in Nat /\ Window \in Nat \ {0} /\ d \in DataPlane
  BY TsnAssumption DEF PlaneOK, DataPlane
<1>2. w.top = max(d.top, t) /\ w.seen = {v \in d.seen \cup {t} : max(d.top, t) - v < Window}
  BY <1>1 DEF rw_slide, DataPlane
<1>3. max(d.top, t) \in Nat /\ max(d.top, t) >= t /\ max(d.top, t) >= d.top
  BY <1>1 DEF max
<1> QED BY <1>1, <1>2, <1>3 DEF Admitted

\* What is in a longer sequence.
LEMMA MembersAppend ==
    ASSUME NEW s \in Seq(Nat), NEW x \in Nat
    PROVE  Members(Append(s, x)) = Members(s) \cup {x}
<1>1. Len(Append(s, x)) = Len(s) + 1 /\ Len(s) \in Nat /\ Append(s, x)[Len(s) + 1] = x
  OBVIOUS
<1>2. \A i \in 1 .. Len(s) : Append(s, x)[i] = s[i]
  OBVIOUS
<1>3. \A i \in 1 .. Len(s) + 1 : i \in 1 .. Len(s) \/ i = Len(s) + 1
  BY <1>1
<1> QED BY <1>1, <1>2, <1>3 DEF Members

\* DATA on its way to an end, as frames.
LEMMA DataFrames ==
    ASSUME TypeOK, NEW e \in End, NEW m \in DataTo(e)
    PROVE  /\ m \in Frame /\ m.tsn \in Nat /\ m.msg \in Nat /\ m.seal \in Seal
           /\ m.seal.assoc \in Nat /\ m.seal.key.init \in Nat
<1>1. m \in Frame
  BY TypeParts, FlyingFrames DEF DataTo
<1> QED BY <1>1 DEF Frame, Seal, Key

\* A step that neither sends nor delivers a message keeps the invariant if what was spent stays so.
LEMMA OnceKept ==
    ASSUME OnceParts, UNCHANGED <<sent, got>>, \A e \in End : DataTo(e)' \subseteq DataTo(e),
           \A m \in DataTo("res")' : m.seal.key.init <= key["ini"].init => m.seal.key.init <= key'["ini"].init,
           \A e \in End : \A m \in DataTo(e)' : Spent(e, m) => Spent(e, m)'
    PROVE  OnceParts'
<1>1. Known'
  BY DEF OnceParts, Known
<1>2. Single'
  BY DEF OnceParts, Single
<1>3. Sealed'
  BY PeerEnd DEF OnceParts, Sealed
<1>4. Refused'
  BY DEF OnceParts, Refused
<1>5. DeliveredOnce'
  BY DEF OnceParts, DeliveredOnce
<1> QED BY <1>1, <1>2, <1>3, <1>4, <1>5 DEF OnceParts

\* A step that touches neither messages nor keys nor windows.
LEMMA OnceStill ==
    ASSUME OnceParts, UNCHANGED <<sent, got, key, assoc, dp>>, \A e \in End : DataTo(e)' \subseteq DataTo(e)
    PROVE  OnceParts'
<1>1. \A e \in End : \A m : Spent(e, m) => Spent(e, m)'
  BY DEF Spent, seal
<1> QED BY <1>1, OnceKept

\* Taking a frame brings no DATA.
LEMMA TakeData ==
    ASSUME LinkType, EnvType, NEW e \in End, NEW m \in Arriving(e), NEW fs \in Seq(Frame), Take(e, m, fs),
           \A x \in Members(fs) : x.type # "DATA"
    PROVE  m \in Flying(e) /\ m \in Frame /\ \A f \in End : DataTo(f)' \subseteq DataTo(f)
<1>1. /\ m \in Flying(e) /\ m \in Frame /\ Flying(e)' \subseteq Flying(e)
      /\ Flying(Peer(e))' \subseteq Flying(Peer(e)) \cup Members(To(e, fs))
  BY TakeFrames
<1>2. \A x \in Members(To(e, fs)) : x.type # "DATA"
  BY EmptyMembers DEF To
<1>3. \A f \in End : f = e \/ f = Peer(e)
  BY PeerEnd
<1> QED BY <1>1, <1>2, <1>3 DEF DataTo

\* The answers to frames are no DATA.
LEMMA Answers ==
    /\ << >> \in Seq(Frame) /\ \A x \in Members(<< >>) : x.type # "DATA"
    /\ \A t \in ChunkType \ {"DATA"} : <<Chunk(t)>> \in Seq(Frame) /\ \A x \in Members(<<Chunk(t)>>) : x.type # "DATA"
    /\ \A n, r \in Nat : <<INIT_ACK(n, r)>> \in Seq(Frame) /\ \A x \in Members(<<INIT_ACK(n, r)>>) : x.type # "DATA"
    /\ \A n \in Nat : <<COOKIE_ECHO(n)>> \in Seq(Frame) /\ \A x \in Members(<<COOKIE_ECHO(n)>>) : x.type # "DATA"
<1>1. \A x \in Frame : <<x>> \in Seq(Frame) /\ Members(<<x>>) = {x}
  BY OneMember
<1>2. \A t \in ChunkType \ {"DATA"} : Chunk(t) \in Frame /\ Chunk(t).type # "DATA"
  BY ChunkTypes
<1>3. \A n, r \in Nat : INIT_ACK(n, r) \in Frame /\ INIT_ACK(n, r).type # "DATA"
  BY ChunkTypes
<1>4. \A n \in Nat : COOKIE_ECHO(n) \in Frame /\ COOKIE_ECHO(n).type # "DATA"
  BY ChunkTypes
<1> QED BY <1>1, <1>2, <1>3, <1>4, EmptyMembers

\* A DATA frame arrives.
LEMMA OnceReceive ==
    ASSUME TypeOK, OnceParts, NEW e \in End, NEW m \in Arriving(e), RecvData(e, m)
    PROVE  OnceParts'
<1>0. AssocType /\ DataType /\ LinkType /\ EnvType /\ MsgType
  BY TypeParts
<1> DEFINE d == rw_slide(dp[e], m.tsn)
<1>1. \E fs \in {<< >>, <<Chunk("SACK")>>} : Take(e, m, fs)
  BY DEF RecvData
<1>2. m \in Flying(e) /\ m \in Frame /\ \A f \in End : DataTo(f)' \subseteq DataTo(f)
  <2>1. \A fs \in {<< >>, <<Chunk("SACK")>>} : fs \in Seq(Frame) /\ \A x \in Members(fs) : x.type # "DATA"
    BY Answers DEF ChunkType
  <2> QED BY <1>0, <1>1, <2>1, TakeData
<1>3. m \in DataTo(e) /\ m.tsn \in Nat /\ m.msg \in Nat
  BY <1>2 DEF DataTo, RecvData, Frame
<1>4. UNCHANGED <<st, key, assoc, sent>> /\ PlaneOK(dp[e]) /\ DOMAIN dp = End
  BY <1>0 DEF RecvData, assocVars, DataType
<1>5. CASE UNCHANGED <<dp, got>>
  BY <1>2, <1>4, <1>5, OnceStill
<1>6. ASSUME dp'[e].top = d.top, dp'[e].seen = d.seen, \A f \in End : f # e => dp'[f] = dp[f]
      PROVE  /\ \A f \in End : \A x \in DataTo(f) : Spent(f, x) => Spent(f, x)'
             /\ m.seal = seal(e) => Spent(e, m)'
  <2>1. ASSUME NEW u \in Nat PROVE ~Admitted(dp'[e], m.tsn) /\ (~Admitted(dp[e], u) => ~Admitted(dp'[e], u))
    BY <1>3, <1>4, <1>6, SlideRefuses
  <2>2. \A f \in End : seal(f)' = seal(f)
    BY <1>4 DEF seal
  <2>3. ASSUME NEW f \in End, NEW x \in DataTo(f), Spent(f, x) PROVE Spent(f, x)'
    <3>1. x.tsn \in Nat
      BY DataFrames
    <3>2. ~Admitted(dp[f], x.tsn) => ~Admitted(dp'[f], x.tsn)
      BY <1>6, <2>1, <3>1
    <3> QED BY <1>4, <2>2, <2>3, <3>2 DEF Spent
  <2>4. m.seal = seal(e) => Spent(e, m)'
    BY <1>3, <2>1, <2>2 DEF Spent
  <2> QED BY <2>3, <2>4
<1>7. CASE dp' = [dp EXCEPT ![e] = d] /\ got' = got
  <2>1. dp'[e] = d /\ \A f \in End : f # e => dp'[f] = dp[f]
    BY <1>4, <1>7
  <2> HIDE DEF d
  <2>2. \A f \in End : \A x \in DataTo(f) : Spent(f, x) => Spent(f, x)'
    BY <1>6, <2>1
  <2> QED BY <1>2, <1>4, <1>7, <2>2, OnceKept
<1>8. CASE /\ Admitted(dp[e], m.tsn) /\ opens(e, m)
           /\ dp' = [dp EXCEPT ![e] = [d EXCEPT !.cum = max(@, m.tsn),
                                                !.rseq = IF m.seq = d.rseq THEN @ + 1 ELSE @]]
           /\ got' = [got EXCEPT ![e] = IF m.seq = d.rseq THEN Append(@, m.msg) ELSE @]
  <2>1. dp'[e].top = d.top /\ dp'[e].seen = d.seen /\ \A f \in End : f # e => dp'[f] = dp[f]
    <3>1. d = [dp[e] EXCEPT !.top = d.top, !.seen = d.seen] /\ dp[e] \in DataPlane
      BY <1>4 DEF PlaneOK, rw_slide, DataPlane
    <3>2. d = [tsn |-> dp[e].tsn, sseq |-> dp[e].sseq, rseq |-> dp[e].rseq, top |-> d.top, seen |-> d.seen, cum |-> dp[e].cum]
      BY <3>1 DEF DataPlane
    <3> HIDE DEF d
    <3>3. dp'[e] = [d EXCEPT !.cum = max(@, m.tsn), !.rseq = IF m.seq = d.rseq THEN @ + 1 ELSE @]
      BY <1>4, <1>8
    <3>4. \A f \in End : f # e => dp'[f] = dp[f]
      BY <1>4, <1>8
    <3> QED BY <3>2, <3>3, <3>4
  <2>2. m.seal = seal(e) /\ seal(e).assoc = assoc[e] /\ assoc[e] \in Nat
    BY <1>0, <1>8 DEF opens, seal, AssocType
  <2> HIDE DEF d
  <2>3. /\ \A f \in End : \A x \in DataTo(f) : Spent(f, x) => Spent(f, x)'
        /\ Spent(e, m)'
    BY <1>6, <2>1, <2>2
  <2>4. ~Spent(e, m)
    BY <1>8, <2>2 DEF Spent
  <2>5. m.msg \notin Members(got[e])
    BY <1>3, <2>4 DEF OnceParts, Refused
  <2>6. CASE got' = got
    BY <1>2, <1>4, <2>3, <2>6, OnceKept
  <2>7. CASE got' = [got EXCEPT ![e] = Append(@, m.msg)]
    <3>1. /\ got[e] \in Seq(Nat) /\ got'[e] = Append(got[e], m.msg)
          /\ \A f \in End : f # e => got'[f] = got[f]
      BY <1>0, <2>7 DEF MsgType
    <3>2. Members(got'[e]) = Members(got[e]) \cup {m.msg}
      BY <1>3, <3>1, MembersAppend
    <3>3. m.msg <= sent[Peer(e)]
      BY <1>3 DEF OnceParts, Known
    <3>4. Known'
      <4>1. \A f \in End : \A x \in Members(got'[f]) : x \in Members(got[f]) \/ (f = e /\ x = m.msg)
        BY <3>1, <3>2
      <4> QED BY <1>2, <1>4, <3>3, <4>1 DEF OnceParts, Known, Members
    <3>5. Single' /\ Sealed'
      BY <1>2, <1>4, PeerEnd DEF OnceParts, Single, Sealed
    <3>6. Refused'
      <4> SUFFICES ASSUME NEW f \in End, NEW x \in DataTo(f)', x.msg \in Members(got'[f]) PROVE Spent(f, x)'
        BY DEF Refused, Members
      <4>1. CASE x.msg \in Members(got[f])
        BY <1>2, <2>3, <4>1 DEF OnceParts, Refused
      <4>2. CASE x.msg \notin Members(got[f])
        <5>1. f = e /\ x.msg = m.msg
          BY <3>1, <3>2, <4>2
        <5>2. x = m
          BY <1>2, <1>3, <5>1 DEF OnceParts, Single
        <5> QED BY <2>3, <5>1, <5>2
      <4> QED BY <4>1, <4>2
    <3>7. DeliveredOnce'
      <4> SUFFICES ASSUME NEW f \in End, NEW i \in 1 .. Len(got'[f]), NEW j \in 1 .. Len(got'[f]),
                          got'[f][i] = got'[f][j]
                   PROVE  i = j
        BY DEF DeliveredOnce
      <4>1. CASE f # e
        BY <3>1, <4>1 DEF OnceParts, DeliveredOnce
      <4>2. CASE f = e
        <5> DEFINE n == Len(got[e])
        <5>1. /\ n \in Nat /\ Len(got'[e]) = n + 1 /\ got'[e][n + 1] = m.msg
              /\ \A k \in 1 .. n : got'[e][k] = got[e][k] /\ got[e][k] \in Members(got[e])
          BY <1>3, <3>1 DEF Members
        <5> HIDE DEF n
        <5>2. \A k \in 1 .. n : got'[e][k] # m.msg
          BY <2>5, <5>1
        <5>3. \A k, l \in 1 .. n : got'[e][k] = got'[e][l] => k = l
          BY <5>1 DEF OnceParts, DeliveredOnce, n
        <5>4. i \in 1 .. n + 1 /\ j \in 1 .. n + 1
          BY <4>2, <5>1
        <5>5. (i \in 1 .. n \/ i = n + 1) /\ (j \in 1 .. n \/ j = n + 1)
          BY <5>1, <5>4
        <5> QED BY <4>2, <5>1, <5>2, <5>3, <5>5
      <4> QED BY <4>1, <4>2
    <3> QED BY <3>4, <3>5, <3>6, <3>7 DEF OnceParts
  <2>8. got' = got \/ got' = [got EXCEPT ![e] = Append(@, m.msg)]
    <3>1. got = [got EXCEPT ![e] = got[e]]
      BY <1>0 DEF MsgType
    <3> QED BY <1>8, <3>1
  <2> QED BY <2>6, <2>7, <2>8
<1> QED BY <1>5, <1>7, <1>8 DEF RecvData

\* A message is sent.
LEMMA OnceSend ==
    ASSUME TypeOK, Parts, OnceParts, NEW e \in End, DataSend(e)
    PROVE  OnceParts'
<1>0. AssocType /\ DataType /\ LinkType /\ MsgType
  BY TypeParts
<1> DEFINE x == DATA(seal(e), dp[e], sent'[e])
           p == Peer(e)
<1>1. UNCHANGED <<assocVars, late, got>> /\ Put(e, <<x>>)
      /\ sent' = [sent EXCEPT ![e] = @ + 1] /\ dp' = [dp EXCEPT ![e].tsn = @ + 1, ![e].sseq = @ + 1]
  BY DEF DataSend
<1>2. UNCHANGED <<key, assoc>> /\ p \in End /\ p # e /\ Peer(p) = e /\ \A f \in End : f = e \/ f = p
  BY <1>1, PeerEnd DEF assocVars
<1>3. sent[e] \in Nat /\ sent'[e] = sent[e] + 1 /\ sent'[p] = sent[p] /\ sent[p] \in Nat
  BY <1>0, <1>1, <1>2 DEF MsgType
<1>4. x \in Frame /\ x.msg = sent[e] + 1 /\ x.seal = seal(e) /\ <<x>> \in Seq(Frame) /\ Members(<<x>>) = {x}
  <2>1. seal(e) \in Seal /\ dp[e] \in DataPlane /\ sent'[e] \in Nat
    BY <1>0, <1>3 DEF seal, Seal, AssocType, DataType, PlaneOK
  <2>2. x \in Frame
    BY <2>1, ChunkTypes
  <2>3. x.msg = sent[e] + 1 /\ x.seal = seal(e)
    BY <1>3 DEF DATA, Chunk
  <2> HIDE DEF x
  <2> QED BY <2>2, <2>3, OneMember
<1> HIDE DEF x
<1>5. DataTo(e)' \subseteq DataTo(e) /\ DataTo(p)' \subseteq DataTo(p) \cup {x}
  BY <1>0, <1>1, <1>4, PutFrames DEF DataTo
<1>6. \A m \in DataTo(p) : m.msg <= sent[e] /\ m.msg \in Nat
  BY <1>2, DataFrames DEF OnceParts, Known
<1>7. \A y \in Members(got[p]) : y <= sent[e] /\ y \in Nat
  <2>1. got[p] \in Seq(Nat)
    BY <1>0, <1>2 DEF MsgType
  <2> QED BY <1>2, <2>1 DEF OnceParts, Known, Members
<1> HIDE DEF p
<1>8. Known'
  <2>1. ASSUME NEW y \in Members(got[p]) PROVE y <= sent[e] + 1
    BY <1>3, <1>7
  <2>2. ASSUME NEW m \in DataTo(p)' PROVE m.msg <= sent[e] + 1
    BY <1>3, <1>4, <1>5, <1>6
  <2>3. \A y \in Members(got[e]) : y <= sent[p]
    BY PeerEnd DEF OnceParts, Known, p
  <2>4. \A m \in DataTo(e)' : m.msg <= sent[p]
    BY <1>5, PeerEnd DEF OnceParts, Known, p
  <2> QED BY <1>1, <1>2, <1>3, <2>1, <2>2, <2>3, <2>4 DEF Known, Members, p
<1>9. Single'
  <2>1. \A y, z \in DataTo(e)' : y.msg = z.msg => y = z
    BY <1>5 DEF OnceParts, Single
  <2>2. \A y \in DataTo(p) : y.msg # x.msg
    BY <1>3, <1>4, <1>6
  <2>3. \A y, z \in DataTo(p)' : y.msg = z.msg => y = z
    BY <1>2, <1>5, <2>2 DEF OnceParts, Single
  <2> QED BY <1>2, <2>1, <2>3 DEF Single
<1>10. Sealed'
  <2>1. CASE e = "ini"
    <3>1. x.seal.key.init <= key["ini"].init
      <4>1. key["ini"].init \in Nat
        BY <1>0, PeerEnd DEF AssocType, Key
      <4> QED BY <1>4, <2>1, <4>1 DEF seal
    <3> QED BY <1>2, <1>5, <2>1, <3>1, PeerEnd DEF OnceParts, Sealed, p
  <2>2. CASE e = "res"
    <3>1. x.seal.key.init = x.seal.assoc
      BY <1>4, <2>2 DEF seal, Parts, NumberInv
    <3> QED BY <1>2, <1>5, <2>2, <3>1, PeerEnd DEF OnceParts, Sealed, p
  <2> QED BY <2>1, <2>2, PeerEnd
<1>11. Refused'
  <2>1. \A f \in End : dp'[f].top = dp[f].top /\ dp'[f].seen = dp[f].seen
    <3>1. DOMAIN dp = End /\ \A f \in End : dp[f] \in DataPlane
      BY <1>0 DEF DataType, PlaneOK
    <3> QED BY <1>1, <3>1 DEF DataPlane
  <2>2. \A f \in End : \A m : Spent(f, m) => Spent(f, m)'
    BY <1>2, <2>1 DEF Spent, seal, Admitted
  <2>3. x.msg \notin Members(got[p])
    BY <1>3, <1>4, <1>7
  <2>4. \A f \in End : \A m \in DataTo(f)' : m.msg \in Members(got[f]) => m \in DataTo(f)
    BY <1>2, <1>5, <2>3
  <2> QED BY <1>1, <2>2, <2>4 DEF OnceParts, Refused, Members
<1>12. DeliveredOnce'
  BY <1>1 DEF OnceParts, DeliveredOnce
<1> QED BY <1>8, <1>9, <1>10, <1>11, <1>12 DEF OnceParts

\* The rekey: keys and windows change only where no frame that was taken could open again.
LEMMA OnceRekey ==
    ASSUME TypeOK, Parts, OnceParts, NEW e \in End, NEW m \in Arriving(e),
           RekeyInit(e, m) \/ RekeyInitAck(e, m) \/ RekeyCookieEcho(e, m) \/ RekeyCookieAck(e, m)
    PROVE  OnceParts'
<1>0. AssocType /\ DataType /\ LinkType /\ EnvType
  BY TypeParts
<1>1. m \in Frame /\ m \in Flying(e) /\ m.n \in Nat
  BY <1>0, FlyingFrames DEF Frame
<1>2. \A f \in End : DataTo(f)' \subseteq DataTo(f)
  <2>1. reph' \in Nat => <<INIT_ACK(m.n, reph')>> \in Seq(Frame) /\ \A x \in Members(<<INIT_ACK(m.n, reph')>>) : x.type # "DATA"
    BY <1>1, Answers
  <2>2. RekeyInit(e, m) => reph' \in Nat /\ Take(e, m, <<INIT_ACK(m.n, reph')>>)
    BY <1>0 DEF RekeyInit, AssocType
  <2>3. /\ RekeyInitAck(e, m) => Take(e, m, <<COOKIE_ECHO(m.n)>>)
        /\ RekeyCookieEcho(e, m) => Take(e, m, <<Chunk("COOKIE_ACK")>>)
        /\ RekeyCookieAck(e, m) => Take(e, m, << >>)
    BY DEF RekeyInitAck, RekeyCookieEcho, RekeyCookieAck
  <2>4. \E fs \in Seq(Frame) : Take(e, m, fs) /\ \A x \in Members(fs) : x.type # "DATA"
    BY <1>1, <2>1, <2>2, <2>3, Answers DEF ChunkType
  <2> QED BY <1>0, <2>4, TakeData
<1>3. UNCHANGED <<sent, got>>
  BY DEF RekeyInit, RekeyInitAck, RekeyCookieEcho, RekeyCookieAck, msgVars
<1>4. lastTs \in Nat /\ eph \in Nat /\ key["ini"].init \in Nat /\ key["ini"].init <= eph
      /\ assoc["res"] = lastTs /\ key["res"].init = lastTs /\ assoc["ini"] = eph
  BY <1>0, PeerEnd DEF AssocType, Key, Parts, NumberInv
<1>5. ASSUME NEW f \in End, NEW x \in DataTo(f) PROVE x.seal.assoc \in Nat /\ x.seal.key.init \in Nat
  BY DataFrames
<1>6. CASE RekeyInit(e, m)
  <2>1. e = "res" /\ lastTs < eph /\ m.n = eph
    BY <1>0, <1>1, <1>6, PeerEnd DEF RekeyInit, init_fresh, Parts, RoleInv, CookieInv, AssocType
  <2>2. /\ assoc'["res"] = eph /\ assoc'["ini"] = assoc["ini"] /\ key'["ini"] = key["ini"] /\ dp' = dp
        /\ "ini" \in End /\ "res" \in End
    BY <1>0, <1>6, <2>1, PeerEnd DEF RekeyInit, AssocType
  <2>3. ASSUME NEW x \in DataTo("res"), Spent("res", x) PROVE Spent("res", x)'
    <3>1. x.seal.assoc <= lastTs
      BY <1>4, <1>5, <2>2, <2>3 DEF Spent, seal
    <3> QED BY <1>4, <1>5, <2>1, <2>2, <3>1 DEF Spent
  <2>4. ASSUME NEW x \in DataTo("ini"), Spent("ini", x) PROVE Spent("ini", x)'
    BY <2>2, <2>4 DEF Spent, seal
  <2> QED BY <1>2, <1>3, <2>2, <2>3, <2>4, OnceKept, PeerEnd
<1>7. CASE RekeyInitAck(e, m)
  BY <1>2, <1>3, <1>7, OnceStill DEF RekeyInitAck
<1>8. CASE RekeyCookieEcho(e, m)
  <2>1. e = "res" /\ lastTs = eph /\ Behind /\ UNCHANGED <<key, assoc>> /\ "ini" \in End /\ "res" \in End
    BY <1>1, <1>8, PeerEnd DEF RekeyCookieEcho, Parts, RoleInv, NumberInv
  <2>2. dp'["ini"] = dp["ini"]
    BY <1>0, <1>8, <2>1 DEF RekeyCookieEcho, DataType
  <2>3. ASSUME NEW x \in DataTo("res"), Spent("res", x) PROVE Spent("res", x)'
    <3>1. x.seal.key.init <= key["ini"].init
      BY DEF OnceParts, Sealed
    <3>2. x.seal # seal("res")
      BY <1>4, <1>5, <2>1, <3>1 DEF seal, Behind
    <3> QED BY <2>1, <2>3, <3>2 DEF Spent
  <2>4. ASSUME NEW x \in DataTo("ini"), Spent("ini", x) PROVE Spent("ini", x)'
    BY <2>1, <2>2, <2>4 DEF Spent, seal
  <2> QED BY <1>2, <1>3, <2>1, <2>3, <2>4, OnceKept, PeerEnd
<1>9. CASE RekeyCookieAck(e, m)
  <2>1. /\ e = "ini" /\ Behind /\ assoc' = assoc /\ "ini" \in End /\ "res" \in End
    BY <1>1, <1>9, PeerEnd DEF RekeyCookieAck, Parts, RoleInv, NumberInv
  <2>2. dp'["res"] = dp["res"] /\ key'["res"] = key["res"] /\ key'["ini"].init = eph
    BY <1>0, <1>9, <2>1 DEF RekeyCookieAck, DataType, AssocType
  <2>3. ASSUME NEW x \in DataTo("ini"), Spent("ini", x) PROVE Spent("ini", x)'
    <3>1. x.seal.key.init = x.seal.assoc
      BY DEF OnceParts, Sealed
    <3>2. x.seal # seal("ini")
      BY <1>4, <1>5, <2>1, <3>1 DEF seal, Behind
    <3> QED BY <2>1, <2>3, <3>2 DEF Spent
  <2>4. ASSUME NEW x \in DataTo("res"), Spent("res", x) PROVE Spent("res", x)'
    BY <2>1, <2>2, <2>4 DEF Spent, seal
  <2>5. ASSUME NEW x \in DataTo("res"), x.seal.key.init <= key["ini"].init PROVE x.seal.key.init <= key'["ini"].init
    BY <1>4, <1>5, <2>1, <2>2, <2>5
  <2> QED BY <1>2, <1>3, <2>1, <2>3, <2>4, <2>5, OnceKept, PeerEnd
<1> QED BY <1>6, <1>7, <1>8, <1>9

\* The initiator starts a rekey, and leaves its seal.
LEMMA OnceStart ==
    ASSUME TypeOK, Parts, OnceParts, NEW e \in End, KeepaliveTick(e)
    PROVE  OnceParts'
<1>0. AssocType /\ LinkType /\ EnvType
  BY TypeParts
<1>1. UNCHANGED <<sent, got, key, dp, late>>
  BY DEF KeepaliveTick, msgVars
<1>2. CASE rekey_due(e)
  <2>1. UNCHANGED envVars \/ Happens("send")
    BY <1>2 DEF KeepaliveTick
  <2>2. Flying("ini")' = Flying("ini") /\ Flying("res")' \subseteq Flying("res") \cup {Chunk("HEARTBEAT"), INIT(eph + 1)}
    BY <1>2, <2>1, StartStep, StartFails
  <2>3. Chunk("HEARTBEAT").type # "DATA" /\ INIT(eph + 1).type # "DATA"
    <3>1. eph + 1 \in Nat
      BY <1>0 DEF AssocType
    <3> QED BY <3>1, ChunkTypes DEF ChunkType
  <2>4. \A f \in End : DataTo(f)' \subseteq DataTo(f)
    BY <2>2, <2>3, PeerEnd DEF DataTo
  <2>5. /\ e = "ini" /\ assoc'["ini"] = eph + 1 /\ assoc'["res"] = assoc["res"] /\ eph \in Nat
        /\ assoc["ini"] = eph /\ "ini" \in End /\ "res" \in End
    BY <1>0, <1>2, PeerEnd DEF KeepaliveTick, rekey_due, AssocType, Parts, NumberInv
  <2>6. ASSUME NEW x \in DataTo("ini"), Spent("ini", x) PROVE Spent("ini", x)'
    <3>1. x.seal.assoc \in Nat
      BY <2>5, DataFrames
    <3>2. x.seal.assoc <= eph
      BY <2>5, <2>6, <3>1 DEF Spent, seal
    <3> QED BY <2>5, <3>1, <3>2 DEF Spent
  <2>7. ASSUME NEW x \in DataTo("res"), Spent("res", x) PROVE Spent("res", x)'
    BY <1>1, <2>5, <2>7 DEF Spent, seal
  <2> QED BY <1>1, <2>4, <2>6, <2>7, OnceKept, PeerEnd
<1>3. CASE ~rekey_due(e)
  <2>1. Put(e, <<Chunk("HEARTBEAT")>>) /\ UNCHANGED assoc
    BY <1>3 DEF KeepaliveTick
  <2>2. <<Chunk("HEARTBEAT")>> \in Seq(Frame) /\ \A x \in Members(<<Chunk("HEARTBEAT")>>) : x.type # "DATA"
    BY Answers DEF ChunkType
  <2>3. Flying(e)' = Flying(e) /\ Flying(Peer(e))' \subseteq Flying(Peer(e)) \cup Members(<<Chunk("HEARTBEAT")>>)
    BY <1>0, <1>1, <2>1, <2>2, PutFrames
  <2>4. \A f \in End : f = e \/ f = Peer(e)
    BY PeerEnd
  <2>5. \A f \in End : DataTo(f)' \subseteq DataTo(f)
    BY <2>2, <2>3, <2>4 DEF DataTo
  <2> QED BY <1>1, <2>1, <2>5, OnceStill
<1> QED BY <1>2, <1>3

\* An end leaves.
LEMMA OnceLeave ==
    ASSUME TypeOK, OnceParts, NEW e \in End, \E r \in Gone : Leave(e, r), UNCHANGED <<sent, got, key, assoc, dp>>
    PROVE  OnceParts'
<1>1. AssocType /\ LinkType
  BY TypeParts
<1>2. Flying(e)' = {} /\ Flying(Peer(e))' = Flying(Peer(e))
  BY <1>1, LeaveFrames
<1>3. \A f \in End : f = e \/ f = Peer(e)
  BY PeerEnd
<1>4. \A f \in End : DataTo(f)' \subseteq DataTo(f)
  BY <1>2, <1>3 DEF DataTo
<1> QED BY <1>4, OnceStill

\* Every step of the session keeps it.
LEMMA OnceStep ==
    ASSUME TypeOK, SealInv, OnceInv, [Next]_vars
    PROVE  OnceInv'
<1> SUFFICES ASSUME ~AckRepeats' PROVE OnceParts'
  BY DEF OnceInv
<1>0. AssocType /\ LinkType /\ EnvType
  BY TypeParts
<1>1. Parts /\ OnceParts
  BY HappenedGrows DEF SealInv, OnceInv, AckRepeats
<1>2. ASSUME NEW e \in End, HandleFrame(e) PROVE OnceParts'
  <2>1. PICK m \in Arriving(e) :
        \/ RecvHeartbeat(e, m) \/ RecvOther(e, m) \/ RecvShutdown(e, m) \/ RecvData(e, m)
        \/ RekeyInit(e, m) \/ RekeyInitAck(e, m) \/ RekeyCookieEcho(e, m) \/ RekeyCookieAck(e, m)
        \/ RekeyRefuse(e, m)
    BY <1>2 DEF HandleFrame
  <2>2. CASE RecvHeartbeat(e, m) \/ RecvOther(e, m)
    <3>1. \E fs \in {<< >>, <<Chunk("HEARTBEAT_ACK")>>} : Take(e, m, fs)
      BY <2>2 DEF RecvHeartbeat, RecvOther
    <3>2. \A fs \in {<< >>, <<Chunk("HEARTBEAT_ACK")>>} : fs \in Seq(Frame) /\ \A x \in Members(fs) : x.type # "DATA"
      BY Answers DEF ChunkType
    <3>3. \A f \in End : DataTo(f)' \subseteq DataTo(f)
      BY <1>0, <3>1, <3>2, TakeData
    <3>4. UNCHANGED <<sent, got, key, assoc, dp>>
      BY <2>2 DEF RecvHeartbeat, RecvOther, assocVars, msgVars
    <3> QED BY <1>1, <3>3, <3>4, OnceStill
  <2>3. CASE RecvShutdown(e, m) \/ RekeyRefuse(e, m)
    <3>1. \E r \in Gone : Leave(e, r)
      BY <2>3, States DEF RecvShutdown, RekeyRefuse
    <3>2. UNCHANGED <<sent, got, key, assoc, dp>>
      BY <2>3 DEF RecvShutdown, RekeyRefuse, msgVars
    <3> QED BY <1>1, <3>1, <3>2, OnceLeave
  <2> QED BY <1>1, <2>1, <2>2, <2>3, OnceReceive, OnceRekey
<1>3. ASSUME NEW e \in End, Dead(e) \/ SendFails(e) \/ Stop(e) PROVE OnceParts'
  <2>1. \E r \in Gone : Leave(e, r)
    BY <1>3, States DEF Dead, SendFails, Stop
  <2>2. UNCHANGED <<sent, got, key, assoc, dp>>
    BY <1>3 DEF Dead, SendFails, Stop, msgVars
  <2> QED BY <1>1, <2>1, <2>2, OnceLeave
<1>4. ASSUME NEW e \in End, StrayInit(e) PROVE OnceParts'
  <2>1. UNCHANGED <<sent, got, key, assoc, dp>>
    BY <1>4 DEF StrayInit, msgVars
  <2>2. CASE Leave(e, "err")
    BY <1>1, <2>1, <2>2, OnceLeave, States
  <2>3. CASE UNCHANGED <<st, chan, late>>
    BY <1>1, <2>1, <2>3, OnceStill DEF DataTo, Flying
  <2> QED BY <1>4, <2>2, <2>3 DEF StrayInit
<1>5. ASSUME NEW e \in End, Shutdown(e) PROVE OnceParts'
  <2>1. Flying(e)' = {} /\ Flying(Peer(e))' \subseteq Flying(Peer(e)) \cup {Chunk("SHUTDOWN")}
    BY <1>0, <1>5, ShutdownFrames
  <2>2. Chunk("SHUTDOWN").type # "DATA"
    BY ChunkTypes DEF ChunkType
  <2>3. \A f \in End : f = e \/ f = Peer(e)
    BY PeerEnd
  <2>4. \A f \in End : DataTo(f)' \subseteq DataTo(f)
    BY <2>1, <2>2, <2>3 DEF DataTo
  <2>5. UNCHANGED <<sent, got, key, assoc, dp>>
    BY <1>5 DEF Shutdown, msgVars
  <2> QED BY <1>1, <2>4, <2>5, OnceStill
<1>6. ASSUME NEW e \in End, Delay(e) PROVE OnceParts'
  <2>1. Flying(e)' \subseteq Flying(e) /\ Flying(Peer(e))' = Flying(Peer(e))
    BY <1>0, <1>6, DelayFrames
  <2>2. \A f \in End : f = e \/ f = Peer(e)
    BY PeerEnd
  <2>3. \A f \in End : DataTo(f)' \subseteq DataTo(f)
    BY <2>1, <2>2 DEF DataTo
  <2>4. UNCHANGED <<sent, got, key, assoc, dp>>
    BY <1>6 DEF Delay, assocVars, msgVars
  <2> QED BY <1>1, <2>3, <2>4, OnceStill
<1>7. CASE Tick \/ UNCHANGED vars
  <2>1. UNCHANGED <<sent, got, key, assoc, dp>> /\ UNCHANGED <<chan, late>>
    BY <1>7 DEF Tick, vars, assocVars, msgVars
  <2> QED BY <1>1, <2>1, OnceStill DEF DataTo, Flying
<1> QED BY <1>1, <1>2, <1>3, <1>4, <1>5, <1>6, <1>7, OnceSend, OnceStart DEF Next, Poll

\* The first state.
LEMMA OnceInit == Init => OnceInv
<1> SUFFICES ASSUME Init PROVE OnceParts
  BY DEF OnceInv
<1>1. \A e \in End : chan[e] = << >> /\ late[e] = {} /\ got[e] = << >> /\ Len(got[e]) = 0
  BY DEF Init
<1>2. \A e \in End : DataTo(e) = {} /\ Members(got[e]) = {}
  BY <1>1, EmptyMembers DEF DataTo, Flying
<1>3. DeliveredOnce
  BY <1>1 DEF DeliveredOnce
<1> QED BY <1>2, <1>3, PeerEnd DEF OnceParts, Known, Single, Sealed, Refused

\* No message reaches the callback twice: every rekey starts the seqs and the window over, and
\* DATA may be late, overtaken or repeated across any number of rekeys, of which any may fail, yet
\* no frame that was taken ever opens again.  (A COOKIE-ACK that comes again ends this: the
\* initiator may then use the new key before the responder has reset its window.)
THEOREM SessionDeliversOnce == "COOKIE_ACK" \notin DupKinds => (Spec => []DeliveredOnce)
<1> SUFFICES ASSUME "COOKIE_ACK" \notin DupKinds PROVE Spec => []DeliveredOnce
  OBVIOUS
<1>1. Init => IndInv /\ OnceInv
  BY InitTypes, InitSeal, OnceInit DEF IndInv
<1>2. IndInv /\ OnceInv /\ [Next]_vars => IndInv' /\ OnceInv'
  BY NextTypes, NextSeal, OnceStep DEF IndInv
<1>3. OnceInv => DeliveredOnce
  BY DEF OnceInv, AckRepeats, OnceParts
<1> QED BY <1>1, <1>2, <1>3, PTL DEF Spec

-----------------------------------------------------------------------------
(* What ends an association.  Undisturbed, a rekey is one frame going to and   *)
(* fro: there is never more than one handshake frame on its way, and it is the *)
(* one the other end waits for.                                                *)

HsOnce(s) == \A i, j \in 1 .. Len(s) : s[i].type \in Handshake /\ s[j].type \in Handshake => i = j

\* At most one handshake frame is on its way to e.
Alone(e) ==
    /\ HsOnce(chan[e]) /\ \A x, y \in late[e] : x.type \in Handshake /\ y.type \in Handshake => x = y
    /\ Plain(late[e]) \/ Plain(Members(chan[e]))

OneToken == (\A e \in End : Alone(e)) /\ (\E e \in End : Plain(Flying(e)))

Calm == happened \cap {"dup", "stray", "send"} = {}
Token ==
    /\ OneToken
    /\ st["ini"] = "established" => \A e \in End : Plain(Flying(e))
    /\ \A m \in Flying("res") : /\ m.type = "INIT" => init_fresh(m.n)
                                /\ m.type = "COOKIE_ECHO" => cookie_valid(m.n)
    /\ \A m \in Flying("ini") : m.type = "INIT_ACK" => cookie_valid(m.n)
    /\ \A e \in End : st[e] # "err"
TokenInv == Calm => Token

\* Taking the head of a sequence with at most one handshake frame.
LEMMA HsTail ==
    ASSUME NEW s \in Seq(Frame), s # << >>, HsOnce(s)
    PROVE  HsOnce(Tail(s)) /\ (Head(s).type \in Handshake => Plain(Members(Tail(s))))
<1>1. Len(s) \in Nat \ {0} /\ Len(Tail(s)) = Len(s) - 1 /\ Head(s) = s[1]
  OBVIOUS
<1>2. \A i \in 1 .. Len(Tail(s)) : Tail(s)[i] = s[i + 1] /\ i + 1 \in 1 .. Len(s) /\ i + 1 # 1
  BY <1>1
<1>3. 1 \in 1 .. Len(s)
  BY <1>1
<1>4. HsOnce(Tail(s))
  <2> SUFFICES ASSUME NEW i \in 1 .. Len(Tail(s)), NEW j \in 1 .. Len(Tail(s)),
                      Tail(s)[i].type \in Handshake, Tail(s)[j].type \in Handshake
               PROVE  i = j
    BY DEF HsOnce
  <2>1. i + 1 = j + 1
    BY <1>2 DEF HsOnce
  <2> QED BY <2>1
<1>5. Head(s).type \in Handshake => Plain(Members(Tail(s)))
  BY <1>1, <1>2, <1>3 DEF HsOnce, Plain, Members
<1> QED BY <1>4, <1>5

\* Appending frames that are no handshake's, or the only one that is.
LEMMA HsCat ==
    ASSUME NEW s \in Seq(Frame), NEW t \in Seq(Frame), HsOnce(s),
           Plain(Members(t)) \/ (Plain(Members(s)) /\ HsOnce(t))
    PROVE  HsOnce(s \o t)
<1>1. Len(s \o t) = Len(s) + Len(t) /\ Len(s) \in Nat /\ Len(t) \in Nat
  OBVIOUS
<1>2. \A i \in 1 .. Len(s) : (s \o t)[i] = s[i] /\ s[i] \in Members(s)
  BY <1>1 DEF Members
<1>3. \A i \in 1 .. Len(s \o t) : i \in 1 .. Len(s) \/
          (i - Len(s) \in 1 .. Len(t) /\ (s \o t)[i] = t[i - Len(s)] /\ t[i - Len(s)] \in Members(t))
  BY <1>1 DEF Members
<1> SUFFICES ASSUME NEW i \in 1 .. Len(s \o t), NEW j \in 1 .. Len(s \o t),
                    (s \o t)[i].type \in Handshake, (s \o t)[j].type \in Handshake
             PROVE  i = j
  BY DEF HsOnce
<1>4. CASE Plain(Members(t))
  <2>1. i \in 1 .. Len(s) /\ j \in 1 .. Len(s)
    BY <1>3, <1>4 DEF Plain
  <2> QED BY <2>1, <1>2 DEF HsOnce
<1>5. CASE Plain(Members(s)) /\ HsOnce(t)
  <2>1. i \notin 1 .. Len(s) /\ j \notin 1 .. Len(s)
    BY <1>2, <1>5 DEF Plain
  <2>2. i - Len(s) = j - Len(s)
    BY <1>3, <1>5, <2>1 DEF HsOnce
  <2> QED BY <2>2, <1>1
<1> QED BY <1>4, <1>5

\* Short sequences.
LEMMA HsShort ==
    /\ HsOnce(<< >>) /\ Plain(Members(<< >>)) /\ Plain({})
    /\ \A x : HsOnce(<<x>>)
<1>1. \A x : HsOnce(<<x>>)
  <2> SUFFICES ASSUME NEW x, NEW i \in 1 .. Len(<<x>>), NEW j \in 1 .. Len(<<x>>) PROVE i = j
    BY DEF HsOnce
  <2>1. Len(<<x>>) = 1
    OBVIOUS
  <2> QED BY <2>1
<1> QED BY <1>1, EmptyMembers DEF HsOnce, Plain

\* Frames are sent to p.
LEMMA TokenSent ==
    ASSUME LinkType, NEW p \in End, Alone(p), NEW ts \in Seq(Frame),
           chan'[p] = chan[p] \o ts, late'[p] = late[p],
           Plain(Members(ts)) \/ (Plain(Flying(p)) /\ HsOnce(ts))
    PROVE  Alone(p)' /\ Flying(p)' = Flying(p) \cup Members(ts)
<1>1. chan[p] \in Seq(Frame)
  BY DEF LinkType
<1>2. Members(chan[p] \o ts) = Members(chan[p]) \cup Members(ts)
  BY <1>1, MembersCat
<1>3. HsOnce(chan[p] \o ts)
  BY <1>1, HsCat DEF Alone, Flying, Plain
<1>4. Flying(p)' = Flying(p) \cup Members(ts)
  BY <1>2 DEF Flying
<1> QED BY <1>2, <1>3, <1>4 DEF Alone, Flying, Plain

\* e takes a frame, and nothing is repeated.
LEMMA TokenTaken ==
    ASSUME LinkType, EnvType, NEW e \in End, Alone(e), NEW m \in Arriving(e), NEW fs \in Seq(Frame),
           Take(e, m, fs), "dup" \notin happened'
    PROVE  /\ Alone(e)' /\ Flying(e)' \subseteq Flying(e) /\ m \in Flying(e)
           /\ m.type \in Handshake => Plain(Flying(e)')
           /\ late'[Peer(e)] = late[Peer(e)] /\ chan'[Peer(e)] = chan[Peer(e)] \o To(e, fs)
<1> DEFINE p == Peer(e)
<1>1. p \in End /\ p # e /\ chan[e] \in Seq(Frame)
  BY PeerEnd DEF LinkType
<1>2. Flying(e)' \subseteq Flying(e) /\ m \in Flying(e)
  BY TakeFrames
<1>3. ~Happens("dup")
  BY DEF Happens
<1>4. \/ /\ m \in late[e] /\ late'[e] = late[e] \ {m} /\ late'[p] = late[p]
         /\ chan'[e] = chan[e] /\ chan'[p] = chan[p] \o To(e, fs)
      \/ /\ chan[e] # << >> /\ m = Head(chan[e]) /\ late' = late
         /\ chan'[e] = Tail(chan[e]) /\ chan'[p] = chan[p] \o To(e, fs)
  BY <1>1, <1>3 DEF Take, LinkType
<1>5. CASE m \in late[e] /\ late'[e] = late[e] \ {m} /\ chan'[e] = chan[e]
  BY <1>2, <1>4, <1>5 DEF Alone, Flying, Plain
<1>6. CASE chan[e] # << >> /\ m = Head(chan[e]) /\ late' = late /\ chan'[e] = Tail(chan[e])
  <2>1. HsOnce(Tail(chan[e])) /\ (m.type \in Handshake => Plain(Members(Tail(chan[e]))))
    BY <1>1, <1>6, HsTail DEF Alone
  <2>2. m \in Members(chan[e]) /\ Members(Tail(chan[e])) \subseteq Members(chan[e])
    BY <1>1, <1>6, MembersTail
  <2> QED BY <1>2, <1>4, <1>6, <2>1, <2>2 DEF Alone, Flying, Plain
<1> QED BY <1>4, <1>5, <1>6

\* e takes a frame and answers; a handshake frame answers another only.
LEMMA TokenTake ==
    ASSUME LinkType, EnvType, OneToken, NEW e \in End, NEW m \in Arriving(e), NEW fs \in Seq(Frame),
           Take(e, m, fs), "dup" \notin happened',
           Plain(Members(fs)) \/ (m.type \in Handshake /\ HsOnce(fs))
    PROVE  /\ OneToken' /\ m \in Flying(e) /\ Flying(e)' \subseteq Flying(e)
           /\ Flying(Peer(e))' \subseteq Flying(Peer(e)) \cup Members(fs)
           /\ m.type \in Handshake => Plain(Flying(e)') /\ Plain(Flying(Peer(e)))
<1> DEFINE p == Peer(e)  ts == To(e, fs)
<1>1. p \in End /\ \A f \in End : f = e \/ f = p
  BY PeerEnd
<1>2. /\ Alone(e)' /\ Flying(e)' \subseteq Flying(e) /\ m \in Flying(e)
      /\ m.type \in Handshake => Plain(Flying(e)')
      /\ late'[p] = late[p] /\ chan'[p] = chan[p] \o ts
  BY TokenTaken DEF OneToken
<1>3. ts \in Seq(Frame) /\ Members(ts) \subseteq Members(fs) /\ (Plain(Members(ts)) \/ (m.type \in Handshake /\ HsOnce(ts)))
  BY ToFrames, EmptyMembers, HsShort DEF Plain
<1>4. m.type \in Handshake => Plain(Flying(p))
  BY <1>1, <1>2 DEF OneToken, Plain
<1> HIDE DEF p, ts
<1>5. Alone(p)' /\ Flying(p)' = Flying(p) \cup Members(ts)
  BY <1>1, <1>2, <1>3, <1>4, TokenSent DEF OneToken
<1>6. \E f \in End : Plain(Flying(f)')
  <2>1. CASE m.type \in Handshake
    BY <1>2, <2>1
  <2>2. CASE Plain(Members(ts))
    BY <1>1, <1>2, <1>5, <2>2 DEF OneToken, Plain
  <2> QED BY <1>3, <2>1, <2>2
<1> QED BY <1>1, <1>2, <1>3, <1>4, <1>5, <1>6 DEF OneToken, p

\* e sends frames; a handshake frame only when there is none.
LEMMA TokenPut ==
    ASSUME LinkType, OneToken, NEW e \in End, NEW fs \in Seq(Frame), Put(e, fs), UNCHANGED late,
           Plain(Members(fs)) \/ ((\A f \in End : Plain(Flying(f))) /\ HsOnce(fs))
    PROVE  OneToken' /\ Flying(e)' = Flying(e) /\ Flying(Peer(e))' \subseteq Flying(Peer(e)) \cup Members(fs)
<1> DEFINE p == Peer(e)  ts == IF mac[e] THEN To(e, fs) ELSE << >>
<1>1. p \in End /\ p # e /\ \A f \in End : f = e \/ f = p
  BY PeerEnd
<1>2. /\ ts \in Seq(Frame) /\ Members(ts) \subseteq Members(fs)
      /\ Plain(Members(ts)) \/ ((\A f \in End : Plain(Flying(f))) /\ HsOnce(ts))
  BY ToFrames, EmptyMembers, HsShort DEF Plain
<1>3. chan' = [chan EXCEPT ![p] = chan[p] \o ts]
  BY DEF Put
<1> HIDE DEF ts, p
<1>4. chan'[e] = chan[e] /\ chan'[p] = chan[p] \o ts /\ late'[e] = late[e] /\ late'[p] = late[p]
  BY <1>1, <1>3 DEF LinkType
<1>5. Alone(p)' /\ Flying(p)' = Flying(p) \cup Members(ts)
  BY <1>1, <1>2, <1>4, TokenSent DEF OneToken
<1>6. Alone(e)' /\ Flying(e)' = Flying(e)
  BY <1>4 DEF OneToken, Alone, Flying
<1>7. \E f \in End : Plain(Flying(f)')
  <2>1. CASE Plain(Members(ts))
    BY <1>1, <1>5, <1>6, <2>1 DEF OneToken, Plain
  <2>2. CASE \A f \in End : Plain(Flying(f))
    BY <1>6, <2>2
  <2> QED BY <1>2, <2>1, <2>2
<1> QED BY <1>1, <1>2, <1>5, <1>6, <1>7 DEF OneToken, p

\* e leaves, and may send a frame that is no handshake's.
LEMMA TokenLeave ==
    ASSUME LinkType, OneToken, NEW e \in End, NEW ts \in Seq(Frame), Plain(Members(ts)),
           chan'[e] = << >>, late'[e] = {}, chan'[Peer(e)] = chan[Peer(e)] \o ts, late'[Peer(e)] = late[Peer(e)]
    PROVE  OneToken' /\ Flying(e)' = {} /\ Flying(Peer(e))' = Flying(Peer(e)) \cup Members(ts)
<1>1. Peer(e) \in End /\ \A f \in End : f = e \/ f = Peer(e)
  BY PeerEnd
<1>2. Alone(Peer(e))' /\ Flying(Peer(e))' = Flying(Peer(e)) \cup Members(ts)
  BY <1>1, TokenSent DEF OneToken
<1>3. Flying(e)' = {} /\ Alone(e)'
  BY EmptyMembers, HsShort DEF Flying, Alone
<1> QED BY <1>1, <1>2, <1>3, HsShort DEF OneToken

\* A frame becomes late.
LEMMA TokenDelay ==
    ASSUME LinkType, EnvType, OneToken, NEW e \in End, Delay(e)
    PROVE  OneToken' /\ Flying(e)' \subseteq Flying(e) /\ Flying(Peer(e))' = Flying(Peer(e))
<1>1. /\ Flying(e)' \subseteq Flying(e) /\ Flying(Peer(e))' = Flying(Peer(e))
      /\ chan[e] # << >> /\ chan[e] \in Seq(Frame) /\ chan'[e] = Tail(chan[e])
      /\ late'[e] = late[e] \cup {Head(chan[e])}
      /\ chan'[Peer(e)] = chan[Peer(e)] /\ late'[Peer(e)] = late[Peer(e)]
  BY DelayFrames
<1>2. Peer(e) \in End /\ \A f \in End : f = e \/ f = Peer(e)
  BY PeerEnd
<1>3. HsOnce(Tail(chan[e])) /\ (Head(chan[e]).type \in Handshake => Plain(Members(Tail(chan[e]))))
  BY <1>1, HsTail DEF OneToken, Alone
<1>4. Head(chan[e]) \in Members(chan[e]) /\ Members(Tail(chan[e])) \subseteq Members(chan[e])
  BY <1>1, MembersTail
<1>5. Alone(e)
  BY DEF OneToken
<1>6. CASE Head(chan[e]).type \in Handshake
  <2>1. Plain(late[e])
    BY <1>4, <1>5, <1>6 DEF Alone, Plain
  <2> QED BY <1>1, <1>2, <1>3, <1>6, <2>1 DEF OneToken, Alone, Plain
<1>7. CASE Head(chan[e]).type \notin Handshake
  <2>1. Plain(late[e]) \/ Plain(Members(Tail(chan[e])))
    BY <1>4, <1>5 DEF Alone, Plain
  <2>2. Alone(e)'
    BY <1>1, <1>3, <1>5, <1>7, <2>1 DEF Alone, Plain
  <2>3. Alone(Peer(e))'
    BY <1>1, <1>2 DEF OneToken, Alone
  <2> QED BY <1>1, <1>2, <2>2, <2>3 DEF OneToken, Plain
<1> QED BY <1>6, <1>7

\* A step that sends no handshake frame and after which no end has failed.
LEMMA TokenKept ==
    ASSUME Token, OneToken', UNCHANGED lastTs, NEW F, Plain(F), \A f \in End : Flying(f)' \subseteq Flying(f) \cup F,
           \A f \in End : st'[f] = st[f] \/ st'[f] \in Gone \ {"err"}
    PROVE  Token'
<1>1. st'["ini"] = "established" => st["ini"] = "established"
  BY PeerEnd DEF Gone
<1>2. st'["ini"] = "established" => \A e \in End : Plain(Flying(e)')
  BY <1>1 DEF Token, Plain
<1>3. \A m \in F : m.type \notin {"INIT", "COOKIE_ECHO", "INIT_ACK"}
  BY DEF Plain, Handshake
<1>4. \A m \in Flying("res")' : /\ m.type = "INIT" => init_fresh(m.n)'
                                /\ m.type = "COOKIE_ECHO" => cookie_valid(m.n)'
  BY <1>3, PeerEnd DEF Token, init_fresh, cookie_valid
<1>5. \A m \in Flying("ini")' : m.type = "INIT_ACK" => cookie_valid(m.n)'
  BY <1>3, PeerEnd DEF Token, cookie_valid
<1>6. \A e \in End : st'[e] # "err"
  BY DEF Token
<1> QED BY <1>2, <1>4, <1>5, <1>6 DEF Token

\* A chunk by itself.
LEMMA OneChunk ==
    /\ << >> \in Seq(Frame) /\ Plain(Members(<< >>)) /\ Members(<< >>) = {}
    /\ \A x \in Frame : <<x>> \in Seq(Frame) /\ Members(<<x>>) = {x} /\ HsOnce(<<x>>)
    /\ \A t \in ChunkType \ Handshake : <<Chunk(t)>> \in Seq(Frame) /\ Plain(Members(<<Chunk(t)>>))
<1>1. \A x \in Frame : <<x>> \in Seq(Frame) /\ Members(<<x>>) = {x} /\ HsOnce(<<x>>)
  BY OneMember, HsShort
<1>2. \A t \in ChunkType \ Handshake : Chunk(t) \in Frame /\ Chunk(t).type \notin Handshake
  BY ChunkTypes
<1>3. \A t \in ChunkType \ Handshake : <<Chunk(t)>> \in Seq(Frame) /\ Plain(Members(<<Chunk(t)>>))
  BY <1>1, <1>2 DEF Plain
<1> QED BY <1>1, <1>3, EmptyMembers, HsShort

\* A frame is taken and answered with frames that are no handshake's.
LEMMA TokenPlain ==
    ASSUME LinkType, EnvType, Token, NEW e \in End, NEW m \in Arriving(e), NEW fs \in Seq(Frame),
           Take(e, m, fs), "dup" \notin happened', Plain(Members(fs)), UNCHANGED assocVars
    PROVE  Token'
<1>1. /\ OneToken' /\ Flying(e)' \subseteq Flying(e)
      /\ Flying(Peer(e))' \subseteq Flying(Peer(e)) \cup Members(fs)
  BY TokenTake DEF Token
<1>2. \A f \in End : f = e \/ f = Peer(e)
  BY PeerEnd
<1>3. \A f \in End : Flying(f)' \subseteq Flying(f) \cup Members(fs)
  BY <1>1, <1>2
<1>4. UNCHANGED <<st, lastTs>>
  BY DEF assocVars
<1> QED BY <1>1, <1>3, <1>4, TokenKept

\* An end leaves, and not with an error.
LEMMA TokenGone ==
    ASSUME LinkType, AssocType, Token, NEW e \in End, NEW r \in Gone \ {"err"}, Leave(e, r), UNCHANGED lastTs
    PROVE  Token'
<1>1. Peer(e) \in End /\ Peer(e) # e /\ \A f \in End : f = e \/ f = Peer(e)
  BY PeerEnd
<1>2. /\ chan'[e] = << >> /\ late'[e] = {} /\ chan'[Peer(e)] = chan[Peer(e)] \o << >> /\ late'[Peer(e)] = late[Peer(e)]
      /\ st'[e] = r /\ st'[Peer(e)] = st[Peer(e)]
  <2>1. chan[Peer(e)] \in Seq(Frame)
    BY <1>1 DEF LinkType
  <2>2. chan[Peer(e)] \o << >> = chan[Peer(e)]
    BY <2>1
  <2> QED BY <1>1, <2>2 DEF Leave, LinkType, AssocType
<1>3. OneToken' /\ Flying(e)' = {} /\ Flying(Peer(e))' = Flying(Peer(e)) \cup Members(<< >>)
  BY <1>2, OneChunk, TokenLeave DEF Token
<1>4. \A f \in End : Flying(f)' \subseteq Flying(f) \cup Members(<< >>)
  BY <1>1, <1>3
<1> QED BY <1>1, <1>2, <1>3, <1>4, OneChunk, TokenKept

\* The four steps of a rekey: the token goes to the other end, or is used up.
LEMMA TokenRekey ==
    ASSUME TypeOK, Parts, Token, "dup" \notin happened', NEW e \in End, NEW m \in Arriving(e),
           RekeyInit(e, m) \/ RekeyInitAck(e, m) \/ RekeyCookieEcho(e, m) \/ RekeyCookieAck(e, m)
    PROVE  Token'
<1>0. AssocType /\ LinkType /\ EnvType
  BY TypeParts
<1>1. m \in Frame /\ m \in Flying(e) /\ m.n \in Nat
  <2>1. chan[e] \in Seq(Frame) /\ late[e] \subseteq Frame
    BY <1>0 DEF LinkType
  <2>2. m \in Flying(e) /\ m \in Frame
    BY <2>1, MembersTail DEF Arriving, Flying
  <2> QED BY <2>2 DEF Frame
<1>2. m.type \in Handshake /\ ~Plain(Flying(e)) /\ st["ini"] # "established"
  <2>1. m.type \in Handshake
    BY DEF RekeyInit, RekeyInitAck, RekeyCookieEcho, RekeyCookieAck, Handshake
  <2> QED BY <1>1, <2>1 DEF Token, Plain
<1>3. "ini" \in End /\ "res" \in End /\ Peer("ini") = "res" /\ Peer("res") = "ini" /\ \A f \in End : f = "ini" \/ f = "res"
  BY PeerEnd
<1>4. ASSUME NEW fs \in Seq(Frame), HsOnce(fs), Take(e, m, fs)
      PROVE  OneToken' /\ Plain(Flying(e)') /\ Plain(Flying(Peer(e))) /\ Flying(Peer(e))' \subseteq Flying(Peer(e)) \cup Members(fs)
  BY <1>0, <1>2, <1>4, TokenTake DEF Token
<1>5. CASE RekeyInit(e, m)
  <2>1. e = "res"
    BY <1>1, <1>3, <1>5 DEF Parts, RoleInv, RekeyInit
  <2> DEFINE a == INIT_ACK(m.n, reph')
  <2>2. a \in Frame /\ a.type = "INIT_ACK" /\ a.n = m.n
    <3>1. reph' \in Nat
      BY <1>0, <1>5 DEF RekeyInit, AssocType
    <3> QED BY <1>1, <3>1, ChunkTypes
  <2>3. /\ Take(e, m, <<a>>) /\ lastTs' = m.n /\ st'["ini"] = st["ini"] /\ st'["res"] = "wait_cookie"
    BY <1>0, <1>3, <1>5, <2>1 DEF RekeyInit, AssocType
  <2> HIDE DEF a
  <2>4. <<a>> \in Seq(Frame) /\ Members(<<a>>) = {a} /\ HsOnce(<<a>>)
    BY <2>2, OneChunk
  <2>5. OneToken' /\ Plain(Flying("res")') /\ Plain(Flying("ini")) /\ Flying("ini")' \subseteq Flying("ini") \cup {a}
    BY <1>3, <1>4, <2>1, <2>3, <2>4
  <2>6. \A x \in Flying("res")' : x.type \notin {"INIT", "COOKIE_ECHO"}
    BY <2>5 DEF Plain, Handshake
  <2>7. \A x \in Flying("ini")' : x.type = "INIT_ACK" => x.n = lastTs'
    BY <2>2, <2>3, <2>5 DEF Plain, Handshake
  <2> QED BY <1>2, <1>3, <2>3, <2>5, <2>6, <2>7 DEF Token, cookie_valid
<1>6. CASE RekeyInitAck(e, m)
  <2>1. e = "ini"
    BY <1>1, <1>3, <1>6 DEF Parts, RoleInv, RekeyInitAck
  <2> DEFINE a == COOKIE_ECHO(m.n)
  <2>2. a \in Frame /\ a.type = "COOKIE_ECHO" /\ a.n = m.n
    BY <1>1, ChunkTypes
  <2>3. /\ Take(e, m, <<a>>) /\ lastTs' = lastTs /\ st'["ini"] = "wait_cookie_ack" /\ st'["res"] = st["res"]
    BY <1>0, <1>3, <1>6, <2>1 DEF RekeyInitAck, AssocType
  <2>4. m.n = lastTs
    BY <1>1, <1>6, <2>1 DEF Token, RekeyInitAck, cookie_valid
  <2> HIDE DEF a
  <2>5. <<a>> \in Seq(Frame) /\ Members(<<a>>) = {a} /\ HsOnce(<<a>>)
    BY <2>2, OneChunk
  <2>6. OneToken' /\ Plain(Flying("ini")') /\ Plain(Flying("res")) /\ Flying("res")' \subseteq Flying("res") \cup {a}
    BY <1>3, <1>4, <2>1, <2>3, <2>5
  <2>7. \A x \in Flying("res")' : x.type # "INIT" /\ (x.type = "COOKIE_ECHO" => x.n = lastTs')
    BY <2>2, <2>3, <2>4, <2>6 DEF Plain, Handshake
  <2>8. \A x \in Flying("ini")' : x.type # "INIT_ACK"
    BY <2>6 DEF Plain, Handshake
  <2> QED BY <1>3, <2>3, <2>6, <2>7, <2>8 DEF Token, cookie_valid
<1>7. CASE RekeyCookieEcho(e, m)
  <2>1. e = "res"
    BY <1>1, <1>3, <1>7 DEF Parts, RoleInv, RekeyCookieEcho
  <2> DEFINE a == Chunk("COOKIE_ACK")
  <2>2. a \in Frame /\ a.type = "COOKIE_ACK"
    BY ChunkTypes DEF ChunkType
  <2>3. /\ Take(e, m, <<a>>) /\ lastTs' = lastTs /\ st'["ini"] = st["ini"] /\ st'["res"] = "established"
    BY <1>0, <1>3, <1>7, <2>1 DEF RekeyCookieEcho, AssocType
  <2> HIDE DEF a
  <2>4. <<a>> \in Seq(Frame) /\ Members(<<a>>) = {a} /\ HsOnce(<<a>>)
    BY <2>2, OneChunk
  <2>5. OneToken' /\ Plain(Flying("res")') /\ Plain(Flying("ini")) /\ Flying("ini")' \subseteq Flying("ini") \cup {a}
    BY <1>3, <1>4, <2>1, <2>3, <2>4
  <2>6. \A x \in Flying("res")' : x.type \notin {"INIT", "COOKIE_ECHO"}
    BY <2>5 DEF Plain, Handshake
  <2>7. \A x \in Flying("ini")' : x.type # "INIT_ACK"
    BY <2>2, <2>5 DEF Plain, Handshake
  <2> QED BY <1>2, <1>3, <2>3, <2>5, <2>6, <2>7 DEF Token
<1>8. CASE RekeyCookieAck(e, m)
  <2>1. e = "ini"
    BY <1>1, <1>3, <1>8 DEF Parts, RoleInv, RekeyCookieAck
  <2>2. /\ Take(e, m, << >>) /\ lastTs' = lastTs /\ st'["ini"] = "established" /\ st'["res"] = st["res"]
    BY <1>0, <1>3, <1>8, <2>1 DEF RekeyCookieAck, AssocType
  <2>3. OneToken' /\ Plain(Flying("ini")') /\ Plain(Flying("res")')
    <3>1. Plain(Flying("res")) /\ OneToken' /\ Plain(Flying("ini")') /\ Flying("res")' \subseteq Flying("res") \cup {}
      BY <1>3, <1>4, <2>1, <2>2, OneChunk, HsShort
    <3> QED BY <3>1 DEF Plain
  <2>4. \A f \in End : \A x \in Flying(f)' : x.type \notin {"INIT", "COOKIE_ECHO", "INIT_ACK"}
    BY <1>3, <2>3 DEF Plain, Handshake
  <2>5. st'["res"] # "err" /\ st'["ini"] # "err"
    BY <1>3, <2>2 DEF Token
  <2> QED BY <1>3, <2>3, <2>4, <2>5 DEF Token
<1> QED BY <1>5, <1>6, <1>7, <1>8

\* A frame is handled.
LEMMA TokenHandle ==
    ASSUME TypeOK, Parts, Token, "dup" \notin happened', NEW e \in End, HandleFrame(e)
    PROVE  Token'
<1>0. AssocType /\ LinkType /\ EnvType
  BY TypeParts
<1>1. PICK m \in Arriving(e) :
        \/ RecvHeartbeat(e, m) \/ RecvOther(e, m) \/ RecvShutdown(e, m) \/ RecvData(e, m)
        \/ RekeyInit(e, m) \/ RekeyInitAck(e, m) \/ RekeyCookieEcho(e, m) \/ RekeyCookieAck(e, m)
        \/ RekeyRefuse(e, m)
  BY DEF HandleFrame
<1>2. CASE RecvHeartbeat(e, m) \/ RecvOther(e, m) \/ RecvData(e, m)
  <2>1. \E fs \in {<< >>, <<Chunk("HEARTBEAT_ACK")>>, <<Chunk("SACK")>>} : Take(e, m, fs)
    BY <1>2 DEF RecvHeartbeat, RecvOther, RecvData
  <2>2. \A fs \in {<< >>, <<Chunk("HEARTBEAT_ACK")>>, <<Chunk("SACK")>>} : fs \in Seq(Frame) /\ Plain(Members(fs))
    BY OneChunk DEF ChunkType, Handshake
  <2>3. UNCHANGED assocVars
    BY <1>2 DEF RecvHeartbeat, RecvOther, RecvData
  <2> QED BY <1>0, <2>1, <2>2, <2>3, TokenPlain
<1>3. CASE RecvShutdown(e, m)
  BY <1>0, <1>3, TokenGone DEF RecvShutdown, Gone
<1>4. CASE RekeyRefuse(e, m)
  <2>1. m \in Flying(e)
    <3>1. chan[e] \in Seq(Frame)
      BY <1>0 DEF LinkType
    <3> QED BY <3>1, MembersTail DEF Arriving, Flying
  <2>2. e = "res"
    BY <1>4, <2>1, PeerEnd DEF RekeyRefuse, Parts, RoleInv
  <2> QED BY <1>4, <2>1, <2>2 DEF RekeyRefuse, Token
<1> QED BY <1>1, <1>2, <1>3, <1>4, TokenRekey

\* The initiator starts a rekey: the token is made when there is none.
LEMMA TokenTick ==
    ASSUME TypeOK, Parts, Token, "send" \notin happened', NEW e \in End, KeepaliveTick(e)
    PROVE  Token'
<1>0. AssocType /\ LinkType /\ EnvType
  BY TypeParts
<1>1. <<Chunk("HEARTBEAT")>> \in Seq(Frame) /\ Plain(Members(<<Chunk("HEARTBEAT")>>)) /\ << >> \in Seq(Frame)
      /\ Plain(Members(<< >>))
  BY OneChunk DEF ChunkType, Handshake
<1> DEFINE hb == IF hb_due(e) THEN <<Chunk("HEARTBEAT")>> ELSE << >>
<1>2. hb \in Seq(Frame) /\ Plain(Members(hb))
  BY <1>1
<1>3. UNCHANGED <<lastTs, late>>
  BY DEF KeepaliveTick
<1>4. CASE rekey_due(e)
  <2> DEFINE i == INIT(eph + 1)
  <2>1. ~Happens("send")
    BY DEF Happens
  <2>2. e = "ini" /\ st["ini"] = "established" /\ st' = [st EXCEPT !["ini"] = "wait_ack"] /\ Put(e, hb \o <<i>>)
    BY <1>4, <2>1 DEF KeepaliveTick, rekey_due
  <2>3. i \in Frame /\ i.type = "INIT" /\ i.n = eph + 1 /\ eph \in Nat /\ lastTs \in Nat /\ lastTs <= eph
    <3>1. eph \in Nat /\ eph + 1 \in Nat
      BY <1>0 DEF AssocType
    <3> QED BY <1>0, <3>1, ChunkTypes DEF AssocType, Parts, NumberInv
  <2> HIDE DEF i, hb
  <2>4. <<i>> \in Seq(Frame) /\ Members(<<i>>) = {i} /\ HsOnce(<<i>>)
    BY <2>3, OneChunk
  <2>5. hb \o <<i>> \in Seq(Frame) /\ Members(hb \o <<i>>) = Members(hb) \cup {i}
    <3> DEFINE t == <<i>>
    <3>1. t \in Seq(Frame) /\ Members(t) = {i}
      BY <2>4
    <3> HIDE DEF t
    <3>2. hb \o t \in Seq(Frame) /\ Members(hb \o t) = Members(hb) \cup Members(t)
      BY <1>2, <3>1, MembersCat
    <3> QED BY <3>1, <3>2 DEF t
  <2>6. HsOnce(hb \o <<i>>)
    <3>1. HsOnce(hb)
      BY <1>1, HsShort DEF hb
    <3> QED BY <1>2, <2>4, <3>1, HsCat
  <2>7. \A f \in End : Plain(Flying(f))
    BY <2>2 DEF Token
  <2>8. OneToken' /\ Flying("ini")' = Flying("ini") /\ Flying("res")' \subseteq Flying("res") \cup Members(hb) \cup {i}
    BY <1>0, <1>3, <2>2, <2>5, <2>6, <2>7, TokenPut, PeerEnd DEF Token
  <2>9. \A x \in Flying("res")' : x.type # "COOKIE_ECHO" /\ (x.type = "INIT" => x.n > lastTs)
    BY <1>2, <2>3, <2>7, <2>8, PeerEnd DEF Plain, Handshake
  <2>10. \A x \in Flying("ini")' : x.type # "INIT_ACK"
    BY <2>7, <2>8, PeerEnd DEF Plain, Handshake
  <2>11. st'["ini"] = "wait_ack" /\ st'["res"] = st["res"]
    BY <1>0, <2>2, PeerEnd DEF AssocType
  <2> QED BY <1>3, <2>8, <2>9, <2>10, <2>11, PeerEnd DEF Token, init_fresh
<1>5. CASE ~rekey_due(e)
  <2>1. Put(e, hb) /\ UNCHANGED st
    BY <1>5 DEF KeepaliveTick
  <2> HIDE DEF hb
  <2>2. OneToken' /\ Flying(e)' = Flying(e) /\ Flying(Peer(e))' \subseteq Flying(Peer(e)) \cup Members(hb)
    BY <1>0, <1>2, <1>3, <2>1, TokenPut DEF Token
  <2>3. \A f \in End : f = e \/ f = Peer(e)
    BY PeerEnd
  <2>4. \A f \in End : Flying(f)' \subseteq Flying(f) \cup Members(hb)
    BY <2>2, <2>3
  <2> QED BY <1>2, <1>3, <2>1, <2>2, <2>4, TokenKept
<1> QED BY <1>4, <1>5

\* Every step of the session keeps it.
LEMMA TokenStep ==
    ASSUME TypeOK, SealInv, TokenInv, [Next]_vars
    PROVE  TokenInv'
<1> SUFFICES ASSUME Calm' PROVE Token'
  BY DEF TokenInv
<1>0. AssocType /\ LinkType /\ EnvType
  BY TypeParts
<1>1. Token /\ Parts /\ "dup" \notin happened' /\ "send" \notin happened' /\ "stray" \notin happened'
  BY HappenedGrows DEF Calm, TokenInv, SealInv, AckRepeats
<1>2. ASSUME NEW e \in End, HandleFrame(e) PROVE Token'
  BY <1>1, <1>2, TokenHandle
<1>3. ASSUME NEW e \in End, Dead(e) \/ Stop(e) PROVE Token'
  <2>1. \E r \in Gone \ {"err"} : Leave(e, r)
    BY <1>3 DEF Dead, Stop, Gone
  <2>2. UNCHANGED lastTs
    BY <1>3 DEF Dead, Stop
  <2> QED BY <1>0, <1>1, <2>1, <2>2, TokenGone
<1>4. ASSUME NEW e \in End, SendFails(e) \/ StrayInit(e) PROVE Token'
  BY <1>1, <1>4 DEF SendFails, StrayInit, Happens
<1>5. ASSUME NEW e \in End, Shutdown(e) PROVE Token'
  <2>1. PICK ts \in Seq(Frame) : chan'[Peer(e)] = chan[Peer(e)] \o ts /\ Members(ts) \subseteq {Chunk("SHUTDOWN")}
    BY <1>0, <1>5, ShutdownFrames
  <2>2. Plain(Members(ts))
    BY <2>1, ChunkTypes DEF Plain, ChunkType, Handshake
  <2>3. Peer(e) \in End /\ Peer(e) # e /\ \A f \in End : f = e \/ f = Peer(e)
    BY PeerEnd
  <2>4. /\ chan'[e] = << >> /\ late'[e] = {} /\ late'[Peer(e)] = late[Peer(e)] /\ UNCHANGED lastTs
        /\ st'[e] = "shutdown" /\ st'[Peer(e)] = st[Peer(e)]
    BY <1>0, <1>5, <2>3 DEF Shutdown, LinkType, AssocType
  <2>5. OneToken' /\ Flying(e)' = {} /\ Flying(Peer(e))' = Flying(Peer(e)) \cup Members(ts)
    BY <1>0, <1>1, <2>1, <2>2, <2>4, TokenLeave DEF Token
  <2>6. \A f \in End : Flying(f)' \subseteq Flying(f) \cup Members(ts)
    BY <2>3, <2>5
  <2>7. \A f \in End : st'[f] = st[f] \/ st'[f] \in Gone \ {"err"}
    BY <2>3, <2>4 DEF Gone
  <2> QED BY <1>1, <2>2, <2>4, <2>5, <2>6, <2>7, TokenKept
<1>6. ASSUME NEW e \in End, DataSend(e) PROVE Token'
  <2> DEFINE x == DATA(seal(e), dp[e], sent'[e])
  <2>1. x \in Frame /\ x.type = "DATA"
    <3>1. seal(e) \in Seal /\ dp[e] \in DataPlane
      BY TypeParts DEF seal, Seal, AssocType, DataType, PlaneOK
    <3>2. sent'[e] \in Nat
      BY <1>6, TypeParts DEF DataSend, MsgType
    <3> QED BY <3>1, <3>2, ChunkTypes
  <2>2. Put(e, <<x>>) /\ UNCHANGED <<late, st, lastTs>>
    BY <1>6 DEF DataSend, assocVars
  <2> HIDE DEF x
  <2>3. <<x>> \in Seq(Frame) /\ Plain(Members(<<x>>))
    BY <2>1, OneChunk DEF Plain, Handshake
  <2>4. OneToken' /\ Flying(e)' = Flying(e) /\ Flying(Peer(e))' \subseteq Flying(Peer(e)) \cup Members(<<x>>)
    BY <1>0, <1>1, <2>2, <2>3, TokenPut DEF Token
  <2>5. \A f \in End : f = e \/ f = Peer(e)
    BY PeerEnd
  <2>6. \A f \in End : Flying(f)' \subseteq Flying(f) \cup Members(<<x>>)
    BY <2>4, <2>5
  <2> QED BY <1>1, <2>2, <2>3, <2>4, <2>6, TokenKept
<1>7. ASSUME NEW e \in End, KeepaliveTick(e) PROVE Token'
  BY <1>1, <1>7, TokenTick
<1>8. ASSUME NEW e \in End, Delay(e) PROVE Token'
  <2>1. OneToken' /\ Flying(e)' \subseteq Flying(e) /\ Flying(Peer(e))' = Flying(Peer(e))
    BY <1>0, <1>1, <1>8, TokenDelay DEF Token
  <2>2. \A f \in End : f = e \/ f = Peer(e)
    BY PeerEnd
  <2>3. \A f \in End : Flying(f)' \subseteq Flying(f) \cup {}
    BY <2>1, <2>2
  <2>4. UNCHANGED <<st, lastTs>>
    BY <1>8 DEF Delay, assocVars
  <2> QED BY <1>1, <2>1, <2>3, <2>4, HsShort, TokenKept
<1>9. CASE Tick \/ UNCHANGED vars
  <2>1. UNCHANGED <<st, lastTs, chan, late>>
    BY <1>9 DEF Tick, vars, assocVars
  <2>2. \A f \in End : Flying(f)' \subseteq Flying(f) \cup {}
    BY <2>1 DEF Flying
  <2>3. OneToken'
    BY <1>1, <2>1 DEF Token, OneToken, Alone, Flying
  <2> QED BY <1>1, <2>1, <2>2, <2>3, HsShort, TokenKept
<1> QED BY <1>2, <1>3, <1>4, <1>5, <1>6, <1>7, <1>8, <1>9 DEF Next, Poll

\* The first state.
LEMMA TokenInit == Init => TokenInv
<1> SUFFICES ASSUME Init PROVE Token
  BY DEF TokenInv
<1>1. \A e \in End : chan[e] = << >> /\ late[e] = {} /\ st[e] = "established"
  BY DEF Init
<1>2. \A e \in End : Flying(e) = {} /\ Plain(Flying(e)) /\ Alone(e)
  BY <1>1, EmptyMembers, HsShort DEF Flying, Alone
<1> QED BY <1>1, <1>2, PeerEnd DEF Token, OneToken

\* ICSP_POLL_ERR takes a repeated frame, another station's INIT or a failing send: lateness, loss,
\* reordering and kills alone, in any number of rekeys, never make an end refuse the other's
\* rekey frame.
THEOREM ErrNeedsDisturbance == Spec => []ErrOnlyIfDisturbed
<1>1. Init => IndInv /\ TokenInv
  BY InitTypes, InitSeal, TokenInit DEF IndInv
<1>2. IndInv /\ TokenInv /\ [Next]_vars => IndInv' /\ TokenInv'
  BY NextTypes, NextSeal, TokenStep DEF IndInv
<1>3. TokenInv => ErrOnlyIfDisturbed
  BY DEF TokenInv, Calm, Token, ErrOnlyIfDisturbed
<1> QED BY <1>1, <1>2, <1>3, PTL DEF Spec

-----------------------------------------------------------------------------
(* Signs of life.  Two kinds of them reach an end: the peer's heartbeats, and   *)
(* the peer's answers to its own.  How long it has been silent is told by when   *)
(* the last one was due, and by how many of them troubles have kept away.       *)

Carries(q, type) == \E m \in Members(q) : m.type = type

Beats(e, a) ==
    \/ silence[e] <= hbAge[Peer(e)] + HbInterval * a
    \/ /\ hbAge[Peer(e)] = 0 /\ silence[e] <= HbInterval + HbInterval * a
       /\ Carries(chan[e], "HEARTBEAT")
Asked(e) == Carries(chan[Peer(e)], "HEARTBEAT") \/ Carries(chan[e], "HEARTBEAT_ACK")
Echoes(e, b) ==
    \/ silence[e] <= hbAge[e] + HbInterval * b
    \/ hbAge[e] = 0 /\ silence[e] <= HbInterval + HbInterval * b /\ Asked(e)
Pulse(e) == \E a, b \in Nat : a + b <= trouble /\ Beats(e, a) /\ Echoes(e, b)

Near(e) == st[Peer(e)] \in Live => st[e] # "dead" /\ (st[e] \in Live => Pulse(e))
NearInv == trouble <= MaxTrouble /\ ("stray" \notin happened => \A e \in End : mac[e] /\ Near(e))

\* What the clocks and the queues hold.
LEMMA Times ==
    ASSUME TypeOK, NEW e \in End
    PROVE  /\ silence[e] \in Nat /\ silence[e] <= DeadTimeout /\ hbAge[e] \in Nat /\ hbAge[e] <= HbInterval
           /\ trouble \in Nat /\ DeadTimeout \in Nat /\ HbInterval \in Nat /\ HbInterval >= 1
           /\ MaxTrouble \in Nat /\ chan[e] \in Seq(Frame)
<1>1. silence[e] \in 0 .. DeadTimeout /\ hbAge[e] \in 0 .. HbInterval /\ trouble \in Nat /\ chan[e] \in Seq(Frame)
  BY DEF TypeOK
<1>2. DeadTimeout \in Nat /\ HbInterval \in Nat /\ HbInterval >= 1 /\ MaxTrouble \in Nat
  BY TimeAssumption, BoundAssumption
<1> QED BY <1>1, <1>2

\* The dead do not live.
LEMMA Lives == Live \cap Gone = {} /\ "dead" \in Gone /\ \A s \in Live : s # "dead"
BY DEF Live, Gone

\* One more interval.
LEMMA OneMore == \A a \in Nat : HbInterval * a \in Nat /\ HbInterval * (a + 1) = HbInterval * a + HbInterval
BY TimeAssumption

\* More intervals take longer.
LEMMA LongerIntervals ==
    ASSUME NEW a \in Nat, NEW k \in Nat, a <= k
    PROVE  HbInterval * a <= HbInterval * k
<1>1. HbInterval \in Nat
  BY TimeAssumption
<1>2. k - a \in Nat /\ HbInterval * k = HbInterval * a + HbInterval * (k - a) /\ HbInterval * (k - a) \in Nat
  BY <1>1
<1>3. HbInterval * a \in Nat /\ HbInterval * k \in Nat
  BY <1>1
<1> QED BY <1>2, <1>3

\* The head of a queue and the rest.
LEMMA HeadAndTail ==
    ASSUME NEW s \in Seq(Frame), s # << >>
    PROVE  \A m \in Members(s) : m = Head(s) \/ m \in Members(Tail(s))
<1>1. Len(s) \in Nat \ {0} /\ Len(Tail(s)) = Len(s) - 1 /\ Head(s) = s[1] /\ \A i \in 1 .. Len(s) - 1 : Tail(s)[i] = s[i + 1]
  OBVIOUS
<1>2. \A i \in 1 .. Len(s) : i = 1 \/ (i - 1 \in 1 .. Len(s) - 1 /\ (i - 1) + 1 = i)
  BY <1>1
<1> SUFFICES ASSUME NEW i \in 1 .. Len(s), i # 1
             PROVE  s[i] \in Members(Tail(s))
  BY <1>1 DEF Members
<1>3. i - 1 \in 1 .. Len(Tail(s)) /\ Tail(s)[i - 1] = s[i]
  BY <1>1, <1>2
<1> QED BY <1>3 DEF Members

\* What is left when the head is taken.
LEMMA CarriesTail ==
    ASSUME NEW s \in Seq(Frame), s # << >>, NEW t, Carries(s, t)
    PROVE  Carries(Tail(s), t) \/ Head(s).type = t
BY HeadAndTail DEF Carries

\* What is carried by either is carried by both together.
LEMMA CarriesCat ==
    ASSUME NEW s \in Seq(Frame), NEW r \in Seq(Frame)
    PROVE  \A t : Carries(s, t) \/ Carries(r, t) => Carries(s \o r, t)
<1>1. Members(s \o r) = Members(s) \cup Members(r)
  BY MembersCat
<1> QED BY <1>1 DEF Carries

-----------------------------------------------------------------------------
\* Whoever hears something is close.
LEMMA PulseHeard ==
    ASSUME TypeOK', NEW e \in End, silence'[e] = 0
    PROVE  Pulse(e)'
<1>1. \A f \in End : hbAge'[f] \in Nat
  BY TimeAssumption DEF TypeOK
<1>2. HbInterval * 0 = 0 /\ trouble' \in Nat
  BY TimeAssumption DEF TypeOK
<1>3. hbAge'[e] \in Nat /\ hbAge'[Peer(e)] \in Nat
  BY <1>1, PeerEnd
<1>4. Beats(e, 0)' /\ Echoes(e, 0)'
  BY <1>2, <1>3 DEF Beats, Echoes
<1>5. 0 + 0 <= trouble'
  BY <1>2
<1> QED BY <1>4, <1>5 DEF Pulse

\* A step that takes no sign of life away.
LEMMA PulseKept ==
    ASSUME TypeOK, NEW e \in End, Pulse(e), trouble' \in Nat, trouble' >= trouble,
           silence'[e] = silence[e], hbAge' = hbAge,
           Carries(chan[e], "HEARTBEAT") => Carries(chan'[e], "HEARTBEAT"),
           Asked(e) => Asked(e)'
    PROVE  Pulse(e)'
<1>1. PICK a, b \in Nat : a + b <= trouble /\ Beats(e, a) /\ Echoes(e, b)
  BY DEF Pulse
<1>2. Beats(e, a)'
  BY <1>1 DEF Beats
<1>3. Echoes(e, b)'
  BY <1>1 DEF Echoes
<1>4. a + b <= trouble'
  BY <1>1, Times
<1> QED BY <1>2, <1>3, <1>4 DEF Pulse

\* A trouble that takes one away: a heartbeat of the peer, or its own or the answer to it.
LEMMA PulseLost ==
    ASSUME TypeOK, NEW e \in End, Pulse(e), trouble' = trouble + 1,
           silence' = silence, hbAge' = hbAge,
           \/ Asked(e) => Asked(e)'
           \/ Carries(chan[e], "HEARTBEAT") => Carries(chan'[e], "HEARTBEAT")
    PROVE  Pulse(e)'
<1>1. PICK a, b \in Nat : a + b <= trouble /\ Beats(e, a) /\ Echoes(e, b)
  BY DEF Pulse
<1>2. /\ silence[e] \in Nat /\ hbAge[e] \in Nat /\ hbAge[Peer(e)] \in Nat /\ HbInterval \in Nat
      /\ trouble \in Nat
  BY Times, PeerEnd
<1>3. /\ HbInterval * a \in Nat /\ HbInterval * (a + 1) = HbInterval * a + HbInterval
      /\ HbInterval * b \in Nat /\ HbInterval * (b + 1) = HbInterval * b + HbInterval
  BY OneMore
<1>4. CASE Asked(e) => Asked(e)'
  <2>1. silence[e] <= hbAge[Peer(e)] + (HbInterval * a + HbInterval)
    <3> DEFINE x == HbInterval * a
    <3>1. x \in Nat /\ (silence[e] <= hbAge[Peer(e)] + x \/ silence[e] <= HbInterval + x)
      BY <1>1, <1>3 DEF Beats
    <3> HIDE DEF x
    <3>2. silence[e] <= hbAge[Peer(e)] + (x + HbInterval)
      BY <1>2, <3>1
    <3> QED BY <3>2 DEF x
  <2>2. Beats(e, a + 1)'
    BY <1>3, <2>1 DEF Beats
  <2>3. Echoes(e, b)'
    BY <1>1, <1>4 DEF Echoes
  <2>4. a + 1 \in Nat /\ (a + 1) + b <= trouble'
    BY <1>1, <1>2
  <2> QED BY <2>2, <2>3, <2>4 DEF Pulse
<1>5. CASE Carries(chan[e], "HEARTBEAT") => Carries(chan'[e], "HEARTBEAT")
  <2>1. silence[e] <= hbAge[e] + (HbInterval * b + HbInterval)
    <3> DEFINE x == HbInterval * b
    <3>1. x \in Nat /\ (silence[e] <= hbAge[e] + x \/ silence[e] <= HbInterval + x)
      BY <1>1, <1>3 DEF Echoes
    <3> HIDE DEF x
    <3>2. silence[e] <= hbAge[e] + (x + HbInterval)
      BY <1>2, <3>1
    <3> QED BY <3>2 DEF x
  <2>2. Echoes(e, b + 1)'
    BY <1>3, <2>1 DEF Echoes
  <2>3. Beats(e, a)'
    BY <1>1, <1>5 DEF Beats
  <2>4. b + 1 \in Nat /\ a + (b + 1) <= trouble'
    BY <1>1, <1>2
  <2> QED BY <2>2, <2>3, <2>4 DEF Pulse
<1> QED BY <1>4, <1>5

\* More on its way takes nothing away.
LEMMA CarriesMore ==
    ASSUME TypeOK, NEW f \in End, NEW ts \in Seq(Frame), chan'[f] = chan[f] \o ts
    PROVE  \A t : /\ Carries(chan[f], t) => Carries(chan'[f], t)
                  /\ Carries(ts, t) => Carries(chan'[f], t)
<1>1. chan[f] \in Seq(Frame)
  BY Times
<1> QED BY <1>1, CarriesCat

\* One chunk is carried by the sequence of it.
LEMMA CarriesOne == \A t \in ChunkType : <<Chunk(t)>> \in Seq(Frame) /\ Carries(<<Chunk(t)>>, t)
BY ChunkTypes, OneMember DEF Carries

-----------------------------------------------------------------------------
\* An end takes a frame: it has heard something, and answers a heartbeat.
LEMMA PulseTake ==
    ASSUME TypeOK, TypeOK', NEW e \in End, NEW m \in Arriving(e), NEW fs \in Seq(Frame), Take(e, m, fs),
           m.type = "HEARTBEAT" => Carries(fs, "HEARTBEAT_ACK"),
           silence' = [silence EXCEPT ![e] = 0], hbAge' = hbAge,
           \A f \in End : st[f] \in Live /\ Pulse(f)
    PROVE  \A f \in End : Pulse(f)'
<1> DEFINE p == Peer(e)
<1>1. p \in End /\ p # e /\ Peer(p) = e /\ \A f \in End : f = e \/ f = p
  BY PeerEnd
<1>2. silence'[e] = 0 /\ silence'[p] = silence[p]
  BY <1>1 DEF TypeOK
<1>3. chan'[p] = chan[p] \o fs
  BY <1>1 DEF Take, To, TypeOK
<1>4. chan'[e] = chan[e] \/ (chan[e] # << >> /\ chan'[e] = Tail(chan[e]) /\ m = Head(chan[e]))
  BY <1>1 DEF Take, TypeOK
<1>5. trouble' \in Nat /\ trouble' >= trouble
  <2>1. trouble \in Nat /\ (trouble' = trouble \/ trouble' = trouble + 1)
    BY DEF Take, Happens, envVars, TypeOK
  <2> QED BY <2>1
<1> HIDE DEF p
<1>6. \A t : (Carries(chan[p], t) => Carries(chan'[p], t)) /\ (Carries(fs, t) => Carries(chan'[p], t))
  BY <1>1, <1>3, CarriesMore
<1>7. Carries(chan[e], "HEARTBEAT") => Carries(chan'[e], "HEARTBEAT") \/ Carries(chan'[p], "HEARTBEAT_ACK")
  <2>1. chan[e] \in Seq(Frame)
    BY Times
  <2> QED BY <2>1, <1>4, <1>6, CarriesTail
<1>8. Asked(p) => Asked(p)'
  BY <1>1, <1>6, <1>7 DEF Asked
<1>9. Pulse(p)'
  BY <1>1, <1>2, <1>5, <1>6, <1>8, PulseKept
<1>10. Pulse(e)'
  BY <1>2, PulseHeard
<1> QED BY <1>1, <1>9, <1>10

\* An end sends, and nothing else happens that tells of life.
LEMMA PulsePut ==
    ASSUME TypeOK, NEW e \in End, NEW ts \in Seq(Frame),
           chan'[e] = chan[e], chan'[Peer(e)] = chan[Peer(e)] \o ts,
           trouble' \in Nat, trouble' >= trouble, silence' = silence, hbAge' = hbAge,
           \A f \in End : Pulse(f)
    PROVE  \A f \in End : Pulse(f)'
<1>1. Peer(e) \in End /\ \A f \in End : (f = e \/ f = Peer(e)) /\ (Peer(f) = e \/ Peer(f) = Peer(e))
  BY PeerEnd
<1>2. \A t : Carries(chan[Peer(e)], t) => Carries(chan'[Peer(e)], t)
  BY <1>1, CarriesMore
<1>3. \A f \in End : /\ Carries(chan[f], "HEARTBEAT") => Carries(chan'[f], "HEARTBEAT")
                     /\ Asked(f) => Asked(f)'
  BY <1>1, <1>2 DEF Asked
<1> SUFFICES ASSUME NEW f \in End PROVE Pulse(f)'
  OBVIOUS
<1>4. silence'[f] = silence[f]
  OBVIOUS
<1> QED BY <1>3, <1>4, PulseKept

\* An end sends its heartbeat when one is due: the last signs of life are from an interval
\* before, and the next are on their way.
LEMMA PulseBeat ==
    ASSUME TypeOK, NEW e \in End, hb_due(e), NEW ts \in Seq(Frame), Carries(ts, "HEARTBEAT"),
           chan'[e] = chan[e], chan'[Peer(e)] = chan[Peer(e)] \o ts,
           trouble' \in Nat, trouble' >= trouble, silence' = silence, hbAge' = [hbAge EXCEPT ![e] = 0],
           \A f \in End : Pulse(f)
    PROVE  \A f \in End : Pulse(f)'
<1> DEFINE p == Peer(e)
<1>1. p \in End /\ p # e /\ Peer(p) = e /\ \A f \in End : f = e \/ f = p
  BY PeerEnd
<1>2. hbAge'[e] = 0 /\ hbAge'[p] = hbAge[p]
  BY <1>1 DEF TypeOK
<1>3. hbAge[e] = HbInterval
  BY Times DEF hb_due
<1>4. \A t : (Carries(chan[p], t) => Carries(chan'[p], t)) /\ (Carries(ts, t) => Carries(chan'[p], t))
  BY <1>1, CarriesMore
<1> HIDE DEF p
<1>5. Carries(chan'[p], "HEARTBEAT")
  BY <1>4
<1>6. trouble \in Nat /\ silence[e] \in Nat /\ silence[p] \in Nat /\ HbInterval \in Nat
  BY <1>1, Times
<1>7. Pulse(e)'
  <2>1. PICK a, b \in Nat : a + b <= trouble /\ Beats(e, a) /\ Echoes(e, b)
    BY DEF Pulse
  <2>2. Beats(e, a)'
    BY <1>1, <1>2, <2>1 DEF Beats, p
  <2>3. silence[e] <= HbInterval + HbInterval * b
    BY <1>3, <2>1 DEF Echoes
  <2>4. Asked(e)'
    BY <1>5 DEF Asked, p
  <2>5. Echoes(e, b)'
    BY <1>2, <2>3, <2>4 DEF Echoes
  <2>6. a + b <= trouble'
    BY <1>6, <2>1
  <2> QED BY <2>2, <2>5, <2>6 DEF Pulse
<1>8. Pulse(p)'
  <2>1. PICK a, b \in Nat : a + b <= trouble /\ Beats(p, a) /\ Echoes(p, b)
    BY <1>1 DEF Pulse
  <2>2. silence[p] <= HbInterval + HbInterval * a
    BY <1>1, <1>3, <2>1 DEF Beats
  <2>3. Beats(p, a)'
    BY <1>1, <1>2, <1>5, <2>2 DEF Beats
  <2>4. Asked(p) => Asked(p)'
    BY <1>1, <1>4 DEF Asked
  <2>5. Echoes(p, b)'
    BY <1>2, <2>1, <2>4 DEF Echoes
  <2>6. a + b <= trouble'
    BY <1>6, <2>1
  <2> QED BY <2>3, <2>5, <2>6 DEF Pulse
<1> QED BY <1>1, <1>7, <1>8

\* A frame is held up: a sign of life of one kind at most is lost to either end.
LEMMA PulseDelay ==
    ASSUME TypeOK, NEW e \in End, Delay(e), \A f \in End : Pulse(f)
    PROVE  \A f \in End : Pulse(f)'
<1> DEFINE p == Peer(e)
<1>1. p \in End /\ p # e /\ Peer(p) = e /\ \A f \in End : f = e \/ f = p
  BY PeerEnd
<1>2. trouble' = trouble + 1 /\ silence' = silence /\ hbAge' = hbAge
  BY DEF Delay, Happens, timeVars
<1>3. chan[e] # << >> /\ chan'[e] = Tail(chan[e]) /\ chan'[p] = chan[p]
  BY <1>1 DEF Delay, TypeOK
<1> HIDE DEF p
<1>4. \A t : Carries(chan[e], t) => Carries(chan'[e], t) \/ Head(chan[e]).type = t
  BY <1>3, Times, CarriesTail
<1>5. Pulse(p)'
  BY <1>1, <1>2, <1>3, PulseLost
<1>6. \/ Asked(e) => Asked(e)'
      \/ Carries(chan[e], "HEARTBEAT") => Carries(chan'[e], "HEARTBEAT")
  BY <1>3, <1>4 DEF Asked, p
<1>7. Pulse(e)'
  BY <1>2, <1>6, PulseLost
<1> QED BY <1>1, <1>5, <1>7

\* Time passes: nothing is on its way, and no heartbeat is due.
LEMMA PulseTick ==
    ASSUME TypeOK, Tick, \A f \in End : st[f] \in Live /\ Pulse(f)
    PROVE  \A f \in End : Pulse(f)'
<1> SUFFICES ASSUME NEW e \in End PROVE Pulse(e)'
  OBVIOUS
<1>1. \A f \in End : chan[f] = << >> /\ hbAge'[f] = hbAge[f] + 1
  <2>1. \A f \in End : chan[f] = << >> /\ ~hb_due(f)
    BY DEF Tick
  <2>2. \A f \in End : hbAge[f] < HbInterval
    BY <2>1, Times DEF hb_due
  <2> QED BY <2>1, <2>2 DEF Tick
<1>2. silence'[e] = silence[e] \/ silence'[e] = silence[e] + 1
  BY DEF Tick
<1>3. \A f \in End : ~Carries(chan[f], "HEARTBEAT") /\ ~Carries(chan[f], "HEARTBEAT_ACK")
  BY <1>1, EmptyMembers DEF Carries
<1>4. PICK a, b \in Nat : a + b <= trouble /\ Beats(e, a) /\ Echoes(e, b)
  BY DEF Pulse
<1>5. Peer(e) \in End
  BY PeerEnd
<1>6. silence[e] <= hbAge[Peer(e)] + HbInterval * a /\ silence[e] <= hbAge[e] + HbInterval * b
  BY <1>3, <1>4, <1>5 DEF Beats, Echoes, Asked
<1>7. silence[e] \in Nat /\ \A f \in End : hbAge[f] \in Nat
  BY Times
<1>8. HbInterval * a \in Nat /\ HbInterval * b \in Nat
  BY OneMore
<1>9. silence'[e] <= hbAge'[Peer(e)] + HbInterval * a
  <2> DEFINE x == HbInterval * a
  <2>1. x \in Nat /\ silence[e] <= hbAge[Peer(e)] + x
    BY <1>6, <1>8
  <2> HIDE DEF x
  <2>2. silence'[e] <= hbAge'[Peer(e)] + x
    BY <1>1, <1>2, <1>5, <1>7, <2>1
  <2> QED BY <2>2 DEF x
<1>10. silence'[e] <= hbAge'[e] + HbInterval * b
  <2> DEFINE x == HbInterval * b
  <2>1. x \in Nat /\ silence[e] <= hbAge[e] + x
    BY <1>6, <1>8
  <2> HIDE DEF x
  <2>2. silence'[e] <= hbAge'[e] + x
    BY <1>1, <1>2, <1>7, <2>1
  <2> QED BY <2>2 DEF x
<1>11. Beats(e, a)' /\ Echoes(e, b)'
  BY <1>9, <1>10 DEF Beats, Echoes
<1>12. trouble' = trouble
  BY DEF Tick, envVars
<1> QED BY <1>4, <1>11, <1>12 DEF Pulse

-----------------------------------------------------------------------------
\* Nobody is declared dead, and who lives was alive: the pulses are what is left to show.
LEMMA NearKept ==
    ASSUME \A f \in End : Near(f) /\ (st'[f] \in Live => st[f] \in Live) /\ (st'[f] = "dead" => st[f] = "dead"),
           (\A f \in End : st[f] \in Live /\ Pulse(f)) => \A f \in End : Pulse(f)'
    PROVE  \A f \in End : Near(f)'
<1> SUFFICES ASSUME NEW f \in End, st'[Peer(f)] \in Live
             PROVE  st'[f] # "dead" /\ (st'[f] \in Live => Pulse(f)')
  BY DEF Near
<1>1. Peer(f) \in End /\ \A g \in End : g = f \/ g = Peer(f)
  BY PeerEnd
<1>2. Peer(Peer(f)) = f
  BY PeerEnd
<1>3. st[Peer(f)] \in Live
  BY <1>1
<1>4. st'[f] # "dead"
  BY <1>3 DEF Near
<1>5. ASSUME st'[f] \in Live PROVE Pulse(f)'
  <2>1. \A g \in End : st[g] \in Live
    BY <1>1, <1>3, <1>5
  <2>2. \A g \in End : Pulse(g)
    BY <2>1, PeerEnd DEF Near
  <2> QED BY <2>1, <2>2
<1> QED BY <1>4, <1>5

\* An end has left, and not because of silence.
LEMMA NearGone ==
    ASSUME NEW e \in End, st'[e] \in Gone \ {"dead"}
    PROVE  \A f \in End : Near(f)'
<1>1. \A f \in End : f = e \/ Peer(f) = e
  BY PeerEnd
<1>2. st'[e] \notin Live /\ st'[e] # "dead"
  BY Lives
<1> QED BY <1>1, <1>2 DEF Near

\* A peer that lives has been heard within DeadTimeout: of the troubles, half at most kept its
\* heartbeats away, or else half at most kept away one's own or the answers to them.
LEMMA NearDead ==
    ASSUME TypeOK, trouble <= MaxTrouble, HbInterval * (MaxTrouble \div 2 + 1) < DeadTimeout,
           NEW e \in End, Pulse(e)
    PROVE  ~dead_due(e)
<1> DEFINE k == MaxTrouble \div 2
<1>1. PICK a, b \in Nat : a + b <= trouble /\ Beats(e, a) /\ Echoes(e, b)
  BY DEF Pulse
<1>2. trouble \in Nat /\ MaxTrouble \in Nat /\ HbInterval \in Nat /\ DeadTimeout \in Nat /\ silence[e] \in Nat
  BY Times
<1>3. k \in Nat /\ (a <= k \/ b <= k)
  BY <1>1, <1>2
<1> HIDE DEF k
<1>4. HbInterval * k \in Nat /\ HbInterval * k + HbInterval < DeadTimeout
  <2>1. HbInterval * k \in Nat /\ HbInterval * (k + 1) = HbInterval * k + HbInterval
    BY <1>3, OneMore
  <2>2. HbInterval * (k + 1) < DeadTimeout
    BY DEF k
  <2> QED BY <2>1, <2>2
<1>5. \A f \in End : hbAge[f] \in Nat /\ hbAge[f] <= HbInterval
  BY Times
<1>6. Peer(e) \in End
  BY PeerEnd
<1>7. ASSUME NEW c \in Nat, c <= k, NEW h \in Nat, h <= HbInterval,
             silence[e] <= h + HbInterval * c \/ silence[e] <= HbInterval + HbInterval * c
      PROVE  silence[e] < DeadTimeout
  <2> DEFINE x == HbInterval * c  y == HbInterval * k
  <2>1. x \in Nat /\ x <= y
    BY <1>3, <1>7, OneMore, LongerIntervals
  <2>2. y \in Nat /\ y + HbInterval < DeadTimeout
    BY <1>4
  <2>3. silence[e] <= h + x \/ silence[e] <= HbInterval + x
    BY <1>7
  <2> HIDE DEF x, y
  <2> QED BY <1>2, <1>7, <2>1, <2>2, <2>3
<1>8. CASE a <= k
  <2>1. silence[e] <= hbAge[Peer(e)] + HbInterval * a \/ silence[e] <= HbInterval + HbInterval * a
    BY <1>1 DEF Beats
  <2>2. silence[e] < DeadTimeout
    BY <1>5, <1>6, <1>7, <1>8, <2>1
  <2> QED BY <1>2, <2>2 DEF dead_due
<1>9. CASE b <= k
  <2>1. silence[e] <= hbAge[e] + HbInterval * b \/ silence[e] <= HbInterval + HbInterval * b
    BY <1>1 DEF Echoes
  <2>2. silence[e] < DeadTimeout
    BY <1>5, <1>7, <1>9, <2>1
  <2> QED BY <1>2, <2>2 DEF dead_due
<1> QED BY <1>3, <1>8, <1>9

\* A frame is handled.
LEMMA NearHandle ==
    ASSUME TypeOK, TypeOK', \A f \in End : Near(f), NEW e \in End, HandleFrame(e)
    PROVE  \A f \in End : Near(f)'
<1>1. PICK m \in Arriving(e) :
        \/ RecvHeartbeat(e, m) \/ RecvOther(e, m) \/ RecvShutdown(e, m) \/ RecvData(e, m)
        \/ RekeyInit(e, m) \/ RekeyInitAck(e, m) \/ RekeyCookieEcho(e, m) \/ RekeyCookieAck(e, m)
        \/ RekeyRefuse(e, m)
  BY DEF HandleFrame
<1>2. st \in [End -> Live \cup Gone]
  BY DEF TypeOK
<1>3. CASE RecvShutdown(e, m) \/ RekeyRefuse(e, m)
  <2>1. st'[e] \in {"closed", "err"}
    BY <1>2, <1>3 DEF RecvShutdown, RekeyRefuse, Leave
  <2> QED BY <2>1, NearGone DEF Gone
<1>4. CASE ~(RecvShutdown(e, m) \/ RekeyRefuse(e, m))
  <2>1. Heard(e, m)
    BY <1>1, <1>4 DEF RecvHeartbeat, RecvOther, RecvData, RekeyInit, RekeyInitAck, RekeyCookieEcho, RekeyCookieAck
  <2>2. st' = st \/ (st[e] \in Live /\ \E s \in Live : st' = [st EXCEPT ![e] = s])
    BY <1>1, <1>4 DEF RecvHeartbeat, RecvOther, RecvData, RekeyInit, RekeyInitAck, RekeyCookieEcho, RekeyCookieAck,
                      assocVars, Live
  <2>3. \A f \in End : (st'[f] \in Live => st[f] \in Live) /\ (st'[f] = "dead" => st[f] = "dead")
    BY <1>2, <2>2, Lives
  <2>4. m \in Frame
    <3>1. chan[e] \in Seq(Frame) /\ late[e] \subseteq Frame
      BY DEF TypeOK
    <3> QED BY <3>1, MembersTail DEF Arriving
  <2>5. \E fs \in Seq(Frame) : Take(e, m, fs) /\ (m.type = "HEARTBEAT" => Carries(fs, "HEARTBEAT_ACK"))
    <3>1. CASE RecvHeartbeat(e, m)
      BY <3>1, CarriesOne DEF RecvHeartbeat, ChunkType
    <3>2. CASE RecvOther(e, m) \/ RekeyCookieAck(e, m)
      <4>1. Take(e, m, << >>) /\ m.type # "HEARTBEAT"
        BY <3>2 DEF RecvOther, RekeyCookieAck
      <4> QED BY <4>1, EmptyMembers
    <3>3. CASE RecvData(e, m)
      <4>1. (Take(e, m, << >>) \/ Take(e, m, <<Chunk("SACK")>>)) /\ m.type # "HEARTBEAT"
        BY <3>3 DEF RecvData
      <4> QED BY <4>1, EmptyMembers, CarriesOne DEF ChunkType
    <3>4. CASE RekeyInit(e, m)
      <4>1. Take(e, m, <<INIT_ACK(m.n, reph')>>) /\ m.type # "HEARTBEAT"
        BY <3>4 DEF RekeyInit
      <4>2. INIT_ACK(m.n, reph') \in Frame
        BY <2>4, ChunkTypes DEF TypeOK, Frame
      <4> QED BY <4>1, <4>2, OneMember
    <3>5. CASE RekeyInitAck(e, m)
      <4>1. Take(e, m, <<COOKIE_ECHO(m.n)>>) /\ m.type # "HEARTBEAT"
        BY <3>5 DEF RekeyInitAck
      <4>2. COOKIE_ECHO(m.n) \in Frame
        BY <2>4, ChunkTypes DEF Frame
      <4> QED BY <4>1, <4>2, OneMember
    <3>6. CASE RekeyCookieEcho(e, m)
      <4>1. Take(e, m, <<Chunk("COOKIE_ACK")>>) /\ m.type # "HEARTBEAT"
        BY <3>6 DEF RekeyCookieEcho
      <4> QED BY <4>1, CarriesOne DEF ChunkType
    <3> QED BY <1>1, <1>4, <3>1, <3>2, <3>3, <3>4, <3>5, <3>6
  <2>6. silence' = [silence EXCEPT ![e] = 0] /\ hbAge' = hbAge
    BY <2>1 DEF Heard
  <2>7. (\A f \in End : st[f] \in Live /\ Pulse(f)) => \A f \in End : Pulse(f)'
    BY <2>5, <2>6, PulseTake
  <2> QED BY <2>3, <2>7, NearKept
<1> QED BY <1>3, <1>4

\* An end does what is due.
LEMMA NearKeepalive ==
    ASSUME TypeOK, TypeOK', \A f \in End : mac[f] /\ Near(f), NEW e \in End, KeepaliveTick(e)
    PROVE  \A f \in End : Near(f)'
<1>1. Peer(e) \in End /\ Peer(e) # e
  BY PeerEnd
<1>2. \A f \in End : (st'[f] \in Live => st[f] \in Live) /\ (st'[f] = "dead" => st[f] = "dead")
  <2>1. st \in [End -> Live \cup Gone]
    BY DEF TypeOK
  <2>2. st[e] \in Live /\ (st' = st \/ st' = [st EXCEPT ![e] = "wait_ack"])
    BY DEF KeepaliveTick
  <2> QED BY <2>1, <2>2 DEF Live
<1> SUFFICES ASSUME \A f \in End : st[f] \in Live /\ Pulse(f)
             PROVE  \A f \in End : Pulse(f)'
  BY <1>2, NearKept
<1> DEFINE hb == IF hb_due(e) THEN <<Chunk("HEARTBEAT")>> ELSE << >>
<1>3. hb \in Seq(Frame) /\ (hb_due(e) => Carries(hb, "HEARTBEAT"))
  BY CarriesOne, EmptyMembers DEF ChunkType
<1>4. PICK ts \in Seq(Frame) : Put(e, ts) /\ (hb_due(e) => Carries(ts, "HEARTBEAT"))
  <2> HIDE DEF hb
  <2>1. \A i \in Frame : <<i>> \in Seq(Frame) /\ hb \o <<i>> \in Seq(Frame)
                         /\ (hb_due(e) => Carries(hb \o <<i>>, "HEARTBEAT"))
    <3> SUFFICES ASSUME NEW i \in Frame
                 PROVE  <<i>> \in Seq(Frame) /\ hb \o <<i>> \in Seq(Frame)
                        /\ (hb_due(e) => Carries(hb \o <<i>>, "HEARTBEAT"))
      OBVIOUS
    <3> DEFINE t == <<i>>
    <3>1. t \in Seq(Frame)
      BY OneMember
    <3> HIDE DEF t
    <3>2. hb \o t \in Seq(Frame) /\ (hb_due(e) => Carries(hb \o t, "HEARTBEAT"))
      BY <1>3, <3>1, CarriesCat
    <3> QED BY <3>1, <3>2 DEF t
  <2>2. INIT(eph + 1) \in Frame
    <3>1. eph + 1 \in Nat
      BY DEF TypeOK
    <3> QED BY <3>1, ChunkTypes
  <2>3. Put(e, hb) \/ Put(e, hb \o <<INIT(eph + 1)>>)
    BY DEF KeepaliveTick, hb
  <2> QED BY <1>3, <2>1, <2>2, <2>3
<1>5. chan'[e] = chan[e] /\ chan'[Peer(e)] = chan[Peer(e)] \o ts
  BY <1>1, <1>4 DEF Put, To, TypeOK
<1>6. silence' = silence /\ hbAge' = [hbAge EXCEPT ![e] = IF hb_due(e) THEN 0 ELSE @]
  BY DEF KeepaliveTick
<1>7. trouble' \in Nat /\ trouble' >= trouble
  <2>1. trouble \in Nat /\ (trouble' = trouble \/ trouble' = trouble + 1)
    BY DEF KeepaliveTick, Happens, envVars, TypeOK
  <2> QED BY <2>1
<1>8. CASE hb_due(e)
  <2>1. hbAge' = [hbAge EXCEPT ![e] = 0]
    BY <1>6, <1>8
  <2>2. silence' = silence
    BY <1>6
  <2> QED BY <1>4, <1>5, <1>7, <1>8, <2>1, <2>2, PulseBeat
<1>9. CASE ~hb_due(e)
  <2>1. hbAge' = hbAge /\ silence' = silence
    BY <1>6, <1>9 DEF TypeOK
  <2> QED BY <1>5, <1>7, <2>1, PulsePut
<1> QED BY <1>8, <1>9

\* Troubles only grow, up to their bound.
LEMMA TroubleBounded ==
    ASSUME TypeOK, trouble <= MaxTrouble, [Next]_vars
    PROVE  trouble' <= MaxTrouble
<1>0. trouble \in Nat /\ MaxTrouble \in Nat
  BY BoundAssumption DEF TypeOK
<1>1. ASSUME NEW k, Happens(k) PROVE trouble' <= MaxTrouble
  BY <1>0, <1>1 DEF Happens
<1>2. ASSUME NEW e \in End, NEW m, NEW fs, Take(e, m, fs) PROVE trouble' <= MaxTrouble
  BY <1>2, <1>1 DEF Take, envVars
<1>3. ASSUME NEW e \in End, HandleFrame(e) PROVE trouble' <= MaxTrouble
  BY <1>3, <1>2 DEF HandleFrame, RecvHeartbeat, RecvOther, RecvShutdown, RecvData, RekeyInit, RekeyInitAck,
                    RekeyCookieEcho, RekeyCookieAck, RekeyRefuse, envVars
<1>4. ASSUME NEW e \in End, KeepaliveTick(e) \/ Dead(e) \/ DataSend(e) \/ Shutdown(e)
      PROVE  trouble' <= MaxTrouble
  BY <1>4, <1>1 DEF KeepaliveTick, Dead, DataSend, Shutdown, envVars
<1>5. ASSUME NEW e \in End, SendFails(e) \/ Stop(e) \/ StrayInit(e) \/ Delay(e)
      PROVE  trouble' <= MaxTrouble
  BY <1>5, <1>1 DEF SendFails, Stop, StrayInit, Delay
<1>6. Tick \/ UNCHANGED vars => trouble' <= MaxTrouble
  BY DEF Tick, vars, envVars
<1> QED BY <1>3, <1>4, <1>5, <1>6 DEF Next, Poll

\* Only another station's INIT turns an end's frames elsewhere.
LEMMA MacKept ==
    ASSUME TypeOK, \A e \in End : mac[e], [Next]_vars, "stray" \notin happened'
    PROVE  \A e \in End : mac'[e]
<1>1. ASSUME NEW e \in End, NEW m, Heard(e, m) PROVE \A f \in End : mac'[f]
  BY <1>1 DEF Heard, TypeOK
<1>2. ASSUME NEW e \in End, HandleFrame(e) PROVE \A f \in End : mac'[f]
  BY <1>2, <1>1 DEF HandleFrame, RecvHeartbeat, RecvOther, RecvShutdown, RecvData, RekeyInit, RekeyInitAck,
                    RekeyCookieEcho, RekeyCookieAck, RekeyRefuse
<1>3. ASSUME NEW e \in End, KeepaliveTick(e) \/ Dead(e) \/ DataSend(e) \/ Shutdown(e)
      PROVE  \A f \in End : mac'[f]
  BY <1>3 DEF KeepaliveTick, Dead, DataSend, Shutdown, timeVars
<1>4. ASSUME NEW e \in End, SendFails(e) \/ Stop(e) \/ StrayInit(e) \/ Delay(e)
      PROVE  \A f \in End : mac'[f]
  BY <1>4 DEF SendFails, Stop, StrayInit, Delay, timeVars, Happens
<1>5. Tick \/ UNCHANGED vars => \A f \in End : mac'[f]
  BY DEF Tick, vars, timeVars
<1> QED BY <1>2, <1>3, <1>4, <1>5 DEF Next, Poll

\* Every step of the session keeps the pulses.
LEMMA NearStep ==
    ASSUME TypeOK, TypeOK', NearInv, HbInterval * (MaxTrouble \div 2 + 1) < DeadTimeout, [Next]_vars
    PROVE  NearInv'
<1>1. trouble <= MaxTrouble /\ trouble' <= MaxTrouble
  BY TroubleBounded DEF NearInv
<1> SUFFICES ASSUME "stray" \notin happened' PROVE \A e \in End : mac'[e] /\ Near(e)'
  BY <1>1 DEF NearInv
<1>2. \A e \in End : mac[e] /\ Near(e)
  BY HappenedGrows DEF NearInv
<1>3. \A e \in End : mac'[e]
  BY <1>2, MacKept
<1> SUFFICES \A f \in End : Near(f)'
  BY <1>3
<1>4. st \in [End -> Live \cup Gone]
  BY DEF TypeOK
<1>5. ASSUME NEW e \in End, HandleFrame(e) PROVE \A f \in End : Near(f)'
  BY <1>2, <1>5, NearHandle
<1>6. ASSUME NEW e \in End, KeepaliveTick(e) PROVE \A f \in End : Near(f)'
  BY <1>2, <1>6, NearKeepalive
<1>7. ASSUME NEW e \in End, Dead(e) PROVE \A f \in End : Near(f)'
  <2>1. Peer(e) \in End /\ Peer(e) # e /\ (\A f \in End : f = e \/ f = Peer(e)) /\ Peer(Peer(e)) = e
    BY PeerEnd
  <2>2. st[e] \in Live /\ dead_due(e)
    BY <1>7 DEF Dead
  <2>3. st'[e] = "dead" /\ st'[Peer(e)] = st[Peer(e)]
    BY <1>4, <1>7, <2>1 DEF Dead, Leave
  <2>4. st[Peer(e)] \notin Live
    <3> SUFFICES ASSUME st[Peer(e)] \in Live PROVE FALSE
      OBVIOUS
    <3>1. Pulse(e)
      BY <1>2, <2>2 DEF Near
    <3> QED BY <1>1, <2>2, <3>1, NearDead
  <2>5. st'[e] \notin Live
    BY <2>3, Lives
  <2> QED BY <2>1, <2>3, <2>4, <2>5 DEF Near
<1>8. ASSUME NEW e \in End, SendFails(e) \/ Stop(e) \/ Shutdown(e) PROVE \A f \in End : Near(f)'
  <2>1. st'[e] \in {"err", "stopped", "shutdown"}
    BY <1>4, <1>8 DEF SendFails, Stop, Shutdown, Leave
  <2> QED BY <2>1, NearGone DEF Gone
<1>9. ASSUME NEW e \in End, StrayInit(e) PROVE FALSE
  BY <1>9 DEF StrayInit, Happens
<1>10. ASSUME NEW e \in End, DataSend(e) PROVE \A f \in End : Near(f)'
  <2> DEFINE fs == <<DATA(seal(e), dp[e], sent'[e])>>
  <2>1. fs \in Seq(Frame)
    <3>1. seal(e) \in Seal /\ dp[e] \in DataPlane
      BY DEF seal, Seal, TypeOK
    <3>2. sent'[e] \in Nat
      BY DEF TypeOK
    <3>3. DATA(seal(e), dp[e], sent'[e]) \in Frame
      BY <3>1, <3>2, ChunkTypes
    <3> QED BY <3>3, OneMember
  <2>2. Put(e, fs) /\ UNCHANGED <<st, silence, hbAge, trouble>>
    BY <1>10 DEF DataSend, assocVars, timeVars, envVars
  <2> HIDE DEF fs
  <2>3. PICK ts \in Seq(Frame) : chan'[Peer(e)] = chan[Peer(e)] \o ts /\ chan'[e] = chan[e]
    <3> DEFINE t == IF mac[e] THEN To(e, fs) ELSE << >>
    <3>1. t \in Seq(Frame)
      BY <2>1, ToFrames, EmptyMembers
    <3>2. chan' = [chan EXCEPT ![Peer(e)] = @ \o t]
      BY <2>2 DEF Put
    <3> HIDE DEF t
    <3>3. chan'[Peer(e)] = chan[Peer(e)] \o t /\ chan'[e] = chan[e]
      BY <3>2, PeerEnd DEF TypeOK
    <3> QED BY <3>1, <3>3
  <2>4. trouble' \in Nat /\ trouble' >= trouble
    BY <2>2 DEF TypeOK
  <2>5. (\A f \in End : Pulse(f)) => \A f \in End : Pulse(f)'
    BY <2>2, <2>3, <2>4, PulsePut
  <2>6. \A f \in End : st'[f] = st[f]
    BY <2>2
  <2> QED BY <1>2, <2>5, <2>6, NearKept
<1>11. ASSUME NEW e \in End, Delay(e) PROVE \A f \in End : Near(f)'
  <2>1. \A f \in End : st'[f] = st[f]
    BY <1>11 DEF Delay, assocVars
  <2>2. (\A f \in End : Pulse(f)) => \A f \in End : Pulse(f)'
    BY <1>11, PulseDelay
  <2> QED BY <1>2, <2>1, <2>2, NearKept
<1>12. CASE Tick
  <2>1. \A f \in End : st'[f] = st[f]
    BY <1>12 DEF Tick, assocVars
  <2> QED BY <1>2, <1>12, <2>1, PulseTick, NearKept
<1>13. CASE UNCHANGED vars
  <2>1. UNCHANGED <<st, silence, hbAge, trouble, chan>>
    BY <1>13 DEF vars, assocVars, timeVars, envVars
  <2>2. \A f \in End : Pulse(f)' <=> Pulse(f)
    BY <2>1 DEF Pulse, Beats, Echoes, Asked
  <2> QED BY <1>2, <2>1, <2>2 DEF Near
<1> QED BY <1>5, <1>6, <1>7, <1>8, <1>9, <1>10, <1>11, <1>12, <1>13 DEF Next, Poll

\* The first state.
LEMMA NearInit == Init => NearInv
<1> SUFFICES ASSUME Init PROVE NearInv
  OBVIOUS
<1>1. trouble = 0 /\ 0 <= MaxTrouble
  BY BoundAssumption DEF Init
<1>2. \A e \in End : mac[e] /\ st[e] = "established" /\ silence[e] = 0 /\ hbAge[e] = HbInterval
  BY DEF Init
<1>3. HbInterval \in Nat /\ HbInterval * 0 = 0
  BY TimeAssumption
<1>4. \A e \in End : Pulse(e)
  <2> SUFFICES ASSUME NEW e \in End PROVE Pulse(e)
    OBVIOUS
  <2>1. hbAge[Peer(e)] = HbInterval
    BY <1>2, PeerEnd
  <2>2. Beats(e, 0) /\ Echoes(e, 0)
    BY <1>2, <1>3, <2>1 DEF Beats, Echoes
  <2>3. 0 + 0 <= trouble
    BY <1>1
  <2> QED BY <2>2, <2>3 DEF Pulse
<1> QED BY <1>1, <1>2, <1>4 DEF NearInv, Near

\* An end whose peer still polls is not declared dead by the keepalive, as long as the frames lost
\* or late and the other troubles are fewer than two for every heartbeat interval in a dead
\* timeout: to silence the peer for that long, its heartbeats and one's own, or the answers to
\* them, must all be kept away.
THEOREM NotDeclaredDead ==
    ASSUME HbInterval * (MaxTrouble \div 2 + 1) < DeadTimeout
    PROVE  Spec => []NoFalseDeath
<1>1. Init => TypeOK /\ NearInv
  BY InitTypes, NearInit
<1>2. TypeOK /\ NearInv /\ [Next]_vars => TypeOK' /\ NearInv'
  BY NextTypes, NearStep
<1>3. TypeOK /\ NearInv => NoFalseDeath
  BY DEF NearInv, Near, NoFalseDeath
<1> QED BY <1>1, <1>2, <1>3, PTL DEF Spec
=============================================================================
