---------------------------- MODULE Pppoe69Proofs ----------------------------
(***************************************************************************)
(* Proofs about Pppoe69, for every number of hosts and sessions, every way  *)
(* the AC may be started, and whatever is lost, late or restarted.          *)
(***************************************************************************)
EXTENDS Pppoe69, LeastProofs, FiniteSetTheorems, TLAPS

Table == [Slot -> Session]

\* SessionsUnique of a table.
Unique(T) ==
    \A i, j \in Slot :
        T[i].cmac # NoHost /\ T[j].cmac # NoHost /\ (T[i].cmac = T[j].cmac \/ T[i].sid = T[j].sid) => i = j

LEMMA UniqueIs == SessionsUnique <=> Unique(sess)
BY DEF SessionsUnique, Unique, used

-----------------------------------------------------------------------------
(* The wire.                                                                 *)

LEMMA SayType ==
    ASSUME NEW S, NEW q \in [Host -> Seq(S)], NEW h \in Host, NEW m \in S
    PROVE  Say(q, h, m) \in [Host -> Seq(S)]
BY DEF Say

LEMMA GotType ==
    ASSUME NEW S, NEW q \in [Host -> Seq(S)], NEW h \in Host, q[h] # <<>>
    PROVE  Got(q, h) \in [Host -> Seq(S)] /\ Head(q[h]) \in S
BY DEF Got

LEMMA UpTypes ==
    ASSUME NEW m \in Up
    PROVE  /\ m.type \in {"PADT", "discover", "request", "nd", "uni"} => m.sid \in 0 .. MaxSid
           /\ m.type \in {"discover", "request", "nd", "uni"} => m.src \in Addr \cup {NoAddr} /\ m.dst \in Addr \cup {NoAddr}
BY DEF Up

LEMMA DownTypes == ASSUME NEW m \in Down, m.type \in {"PADS", "PADT"} PROVE m.sid \in 0 .. MaxSid
BY DEF Down

-----------------------------------------------------------------------------
(* The session table.                                                        *)

LEMMA SizeFacts == MaxSessions \in Nat /\ MaxSid \in Nat /\ MaxSessions <= MaxSid /\ Slot \subseteq Nat /\ Sid \subseteq Nat
BY SizeAssumption DEF Slot, Sid

LEMMA UnusedType == Unused \in Session
BY SizeFacts DEF Unused, Session

\* Where there is a free slot there is a free id: there are at least as many ids as slots.
LEMMA FreeSid ==
    ASSUME sess \in Table, NEW k \in Slot, ~used(k)
    PROVE  free_sids # {}
<1> DEFINE U == {i \in Slot : used(i)}
           Taken == {sess[i].sid : i \in U}
           f == [i \in U |-> sess[i].sid]
<1>1. IsFiniteSet(Slot) /\ Cardinality(Slot) = MaxSessions
  BY FS_Interval, SizeFacts DEF Slot
<1>2. IsFiniteSet(Sid) /\ Cardinality(Sid) = MaxSid
  BY FS_Interval, SizeFacts DEF Sid
<1>3. IsFiniteSet(U) /\ Cardinality(U) < MaxSessions
  <2>1. U \subseteq Slot /\ U # Slot
    OBVIOUS
  <2> HIDE DEF U
  <2>2. U \in SUBSET Slot
    BY <2>1
  <2>3. IsFiniteSet(U) /\ Cardinality(U) <= Cardinality(Slot) /\ Cardinality(U) # Cardinality(Slot)
    BY <2>1, <2>2, <1>1, FS_Subset
  <2>4. Cardinality(U) \in Nat /\ Cardinality(Slot) \in Nat
    BY <2>3, <1>1, FS_CardinalityType
  <2> QED BY <2>3, <2>4, <1>1
<1>4. f \in Surjection(U, Taken)
  BY DEF Surjection
<1>5. IsFiniteSet(Taken) /\ Cardinality(Taken) <= Cardinality(U)
  <2> HIDE DEF f, Taken, U
  <2> QED BY <1>3, <1>4, FS_Surjection
<1>6. ~(Sid \subseteq Taken)
  <2> HIDE DEF Taken, U
  <2>1. SUFFICES ASSUME Sid \subseteq Taken PROVE FALSE
    OBVIOUS
  <2>2. Cardinality(Sid) <= Cardinality(Taken)
    BY <2>1, <1>5, FS_Subset
  <2>3. Cardinality(Taken) \in Nat /\ Cardinality(U) \in Nat
    BY <1>5, <1>3, FS_CardinalityType
  <2> QED BY <2>2, <2>3, <1>2, <1>3, <1>5, SizeFacts
<1>7. PICK n \in Sid : n \notin Taken
  BY <1>6
<1>8. n \in free_sids
  BY <1>7 DEF free_sids, sess_by_sid
<1> QED BY <1>8

\* sess_alloc gives the host the one session with its MAC and the one with its id.
LEMMA Alloc ==
    ASSUME sess \in Table, conf \in Confs, NEW h \in Host, slot_found, sess_by_cmac(h) = {}
    PROVE  /\ sess_alloc(h) \in Table /\ First(free_sids) \in Sid
           /\ Unique(sess) => Unique(sess_alloc(h))
<1>1. conf.slots \in Slot
  BY ConfAssumption DEF Conf
<1>2. free_slots \in SUBSET Nat /\ free_slots \subseteq Slot
  BY <1>1, SizeFacts DEF free_slots, Slot
<1> DEFINE i == First(free_slots)
           n == First(free_sids)
           e == Opened(h, n)
<1>3. i \in Slot /\ ~used(i)
  BY <1>2, FirstIsIn DEF slot_found, free_slots
<1>4. free_sids # {} /\ free_sids \in SUBSET Nat
  BY <1>3, FreeSid, SizeFacts DEF free_sids
<1>5. n \in Sid /\ sess_by_sid(n) = {}
  BY <1>4, FirstIsIn DEF free_sids
<1> HIDE DEF i, n
<1>6. e \in Session /\ e.cmac = h /\ e.sid = n
  <2>1. n \in 0 .. MaxSid
    BY <1>5, SizeFacts DEF Sid
  <2> QED BY <2>1 DEF Session, Opened
<1>7. sess_alloc(h) = [sess EXCEPT ![i] = e]
  BY DEF sess_alloc, i, n
<1> HIDE DEF e
<1> DEFINE T == sess_alloc(h)
<1>8. T[i] = e /\ (\A j \in Slot : j # i => T[j] = sess[j])
  BY <1>7, <1>3 DEF Table
<1>9. T \in Table
  BY <1>6, <1>7 DEF Table
<1> HIDE DEF T
<1>10. \A j \in Slot : sess[j].cmac # NoHost => sess[j].cmac # h /\ sess[j].sid # n
  BY <1>5 DEF sess_by_cmac, sess_by_sid, used
<1>11. ASSUME Unique(sess) PROVE Unique(T)
  BY <1>3, <1>6, <1>8, <1>10, <1>11 DEF Unique
<1> QED BY <1>5, <1>9, <1>11 DEF T, n

LEMMA Free ==
    ASSUME sess \in Table, NEW i \in Slot
    PROVE  sess_free(i) \in Table /\ (Unique(sess) => Unique(sess_free(i)))
<1>1. Unused \in Session /\ Unused.cmac = NoHost
  BY UnusedType DEF Unused
<1>2. sess_free(i)[i] = Unused /\ \A j \in Slot : j # i => sess_free(i)[j] = sess[j]
  BY DEF sess_free, Table
<1>3. sess_free(i) \in Table
  BY <1>1 DEF sess_free, Table
<1> QED BY <1>1, <1>2, <1>3 DEF Unique

\* A step that leaves every session its MAC and id.
LEMMA Same ==
    ASSUME sess \in Table, NEW T, \A i \in Slot : T[i].cmac = sess[i].cmac /\ T[i].sid = sess[i].sid
    PROVE  Unique(sess) => Unique(T)
BY DEF Unique

-----------------------------------------------------------------------------
(* Types.                                                                    *)

LEMMA AttemptFacts == Attempts \in Nat \ {0} /\ 0 \in 0 .. Attempts - 1
BY SizeAssumption

LEMMA ConfTypes ==
    ASSUME conf \in Confs
    PROVE  /\ conf.slots \in Slot /\ conf.cli \subseteq Host /\ InFile \subseteq Host /\ conf.owner \in [Addr -> Host \cup {NoHost}]
<1>1. conf \in Conf
  BY ConfAssumption
<1>2. conf.file \in (SUBSET Host) \cup {NoFile}
  BY <1>1 DEF Conf
<1> QED BY <1>1, <1>2 DEF Conf, InFile, HasFile

LEMMA TypeInit == Init => TypeOK
<1> SUFFICES ASSUME Init PROVE TypeOK
  OBVIOUS
<1>1. sess \in [Slot -> Session]
  BY UnusedType DEF Init
<1>2. peers \subseteq Host /\ file \subseteq Host /\ owner \in [Addr -> Host \cup {NoHost}]
  BY ConfTypes DEF Init
<1>3. attempt \in [Host -> 0 .. Attempts - 1] /\ sid \in [Host -> 0 .. MaxSid]
  BY AttemptFacts, SizeFacts DEF Init
<1>4. toAc \in [Host -> Seq(Up)] /\ toHost \in [Host -> Seq(Down)]
  BY DEF Init
<1> QED BY <1>1, <1>2, <1>3, <1>4 DEF Init, TypeOK

\* What a host sends and takes.
LEMMA HostTypes ==
    ASSUME TypeOK, NEW h \in Host, Dial(h) \/ HostTakes(h) \/ Quit(h) \/ Timeout(h) \/ Crash(h) \/ LoseUp(h) \/ LoseDown(h)
    PROVE  TypeOK'
<1>1. [type |-> "PADI"] \in Up /\ [type |-> "PADR"] \in Up
  BY DEF Up
<1>2. ASSUME NEW n \in 0 .. MaxSid PROVE [type |-> "PADT", sid |-> n] \in Up
  BY <1>2 DEF Up
<1>3. toAc[h] # <<>> => Got(toAc, h) \in [Host -> Seq(Up)]
  BY GotType DEF TypeOK
<1>4. toHost[h] # <<>> => Got(toHost, h) \in [Host -> Seq(Down)] /\ Head(toHost[h]) \in Down
  BY GotType DEF TypeOK
<1>5. \A m \in Up : Say(toAc, h, m) \in [Host -> Seq(Up)]
  BY SayType DEF TypeOK
<1>6. CASE Dial(h)
  BY <1>1, <1>5, <1>6, AttemptFacts DEF Dial, TypeOK, acVars
<1>7. CASE Pado(h)
  BY <1>1, <1>4, <1>5, <1>7, AttemptFacts DEF Pado, TypeOK, acVars
<1>8. CASE Pads(h)
  BY <1>4, <1>8, DownTypes DEF Pads, TypeOK, acVars
<1>9. CASE Padt(h)
  BY <1>4, <1>9 DEF Padt, TypeOK, acVars
<1>10. CASE Other(h)
  BY <1>4, <1>10 DEF Other, TypeOK, acVars, hostVars
<1>11. CASE Quit(h)
  <2>1. [type |-> "PADT", sid |-> sid[h]] \in Up
    BY <1>2 DEF TypeOK
  <2> QED BY <2>1, <1>5, <1>11 DEF Quit, TypeOK, acVars
<1>12. CASE Timeout(h)
  <2>1. attempt[h] \in 0 .. Attempts - 1
    BY DEF TypeOK
  <2>2. attempt[h] < Attempts - 1 => attempt[h] + 1 \in 0 .. Attempts - 1
    BY <2>1, AttemptFacts
  <2>3. Say(toAc, h, [type |-> IF hst[h] = "padi" THEN "PADI" ELSE "PADR"]) \in [Host -> Seq(Up)]
    BY <1>1, <1>5
  <2>4. faults' \in Nat
    BY <1>12 DEF Timeout, TypeOK
  <2>5. hst' \in [Host -> {"off", "padi", "padr", "up"}] /\ attempt' \in [Host -> 0 .. Attempts - 1] /\ toAc' \in [Host -> Seq(Up)]
    BY <2>2, <2>3, <1>12 DEF Timeout, TypeOK
  <2> QED BY <2>4, <2>5, <1>12 DEF Timeout, TypeOK, acVars
<1>13. CASE Crash(h)
  BY <1>13 DEF Crash, TypeOK, acVars, wires
<1>14. CASE LoseUp(h)
  BY <1>3, <1>14 DEF LoseUp, TypeOK, acVars, hostVars
<1>15. CASE LoseDown(h)
  BY <1>4, <1>15 DEF LoseDown, TypeOK, acVars, hostVars
<1> QED BY <1>6, <1>7, <1>8, <1>9, <1>10, <1>11, <1>12, <1>13, <1>14, <1>15 DEF HostTakes

LEMMA InnerTypes ==
    ASSUME TypeOK, NEW h \in Host, NEW kind \in {"discover", "request", "nd", "uni"}, NEW s \in Addr \cup {NoAddr},
           NEW d \in Addr \cup {NoAddr}, Inner(h, kind, s, d)
    PROVE  TypeOK'
<1>1. [type |-> kind, sid |-> sid[h], src |-> s, dst |-> d] \in Up
  BY DEF Up, TypeOK
<1>2. Say(toAc, h, [type |-> kind, sid |-> sid[h], src |-> s, dst |-> d]) \in [Host -> Seq(Up)]
  BY <1>1, SayType DEF TypeOK
<1> QED BY <1>2 DEF Inner, TypeOK, acVars, hostVars

-----------------------------------------------------------------------------
(* The AC's steps: what becomes of the session table, and the types.          *)

\* The sessions a step leaves: of their types, and as unique as they were.
Kept == sess' \in Table /\ (Unique(sess) => Unique(sess'))

LEMMA SlotOf ==
    ASSUME NEW S \in SUBSET Slot, S # {}
    PROVE  First(S) \in S /\ First(S) \in Slot
BY FirstIsIn, SizeFacts

LEMMA SessTypes ==
    ASSUME TypeOK, NEW i \in Slot
    PROVE  /\ sess[i] \in Session /\ sess[i].cmac \in Host \cup {NoHost} /\ sess[i].sid \in 0 .. MaxSid
           /\ sess[i].wmac \in Host \cup {NoHost}
<1>1. sess[i] \in Session
  BY DEF TypeOK
<1> QED BY <1>1 DEF Session

LEMMA ToSession ==
    ASSUME TypeOK, NEW i \in Slot, used(i), NEW m \in Down
    PROVE  ac_session_send(i, m) \in [Host -> Seq(Down)]
<1>1. sess[i].cmac \in Host
  BY SessTypes DEF used
<1> QED BY <1>1, SayType DEF ac_session_send, TypeOK

LEMMA LearnTypes ==
    ASSUME NEW s \in Session, NEW h \in Host, NEW m \in Up, m.type \in {"discover", "request", "nd", "uni"}
    PROVE  Learn(s, h, m) \in Session /\ Learn(s, h, m).cmac = s.cmac /\ Learn(s, h, m).sid = s.sid
<1>1. m.src \in Addr \cup {NoAddr} /\ m.dst \in Addr \cup {NoAddr}
  BY UpTypes
<1> DEFINE a == IF m.type = "request" THEN m.dst ELSE IF m.src # NoAddr THEN m.src ELSE s.addr
<1>2. a \in Addr \cup {NoAddr}
  BY <1>1 DEF Session
<1>3. Learn(s, h, m) = [s EXCEPT !.wmac = h, !.idle = FALSE, !.addr = a]
  BY DEF Learn
<1> HIDE DEF a
<1> QED BY <1>2, <1>3 DEF Session

LEMMA PadrTypes == ASSUME TypeOK, NEW h \in Host, AcPadr(h) PROVE TypeOK' /\ Kept
<1>1. toAc[h] # <<>> /\ Got(toAc, h) \in [Host -> Seq(Up)]
  BY GotType DEF TypeOK, AcPadr, Arrives
<1>2. peers' \subseteq Host /\ file' \subseteq Host
  BY DEF AcPadr, learn_pub, TypeOK
<1>3. ASSUME NEW n \in 0 .. MaxSid PROVE Say(toHost, h, [type |-> "PADS", sid |-> n]) \in [Host -> Seq(Down)]
  <2>1. [type |-> "PADS", sid |-> n] \in Down
    BY <1>3 DEF Down
  <2> QED BY <2>1, SayType DEF TypeOK
<1>4. CASE sess_by_cmac(h) # {} /\ UNCHANGED sess /\ toHost' = Say(toHost, h, [type |-> "PADS", sid |-> sess[First(sess_by_cmac(h))].sid])
  <2>1. First(sess_by_cmac(h)) \in Slot
    BY <1>4, SlotOf DEF sess_by_cmac
  <2>2. toHost' \in [Host -> Seq(Down)]
    BY <2>1, <1>3, <1>4, SessTypes
  <2> QED BY <2>2, <1>1, <1>2, <1>4 DEF AcPadr, TypeOK, hostVars, Kept, Table
<1>5. CASE sess_by_cmac(h) = {} /\ slot_found /\ sess' = sess_alloc(h) /\ toHost' = Say(toHost, h, [type |-> "PADS", sid |-> First(free_sids)])
  <2>1. sess' \in Table /\ First(free_sids) \in Sid /\ (Unique(sess) => Unique(sess'))
    BY <1>5, Alloc DEF TypeOK, Table
  <2>2. toHost' \in [Host -> Seq(Down)]
    BY <2>1, <1>3, <1>5, SizeFacts DEF Sid
  <2> QED BY <2>1, <2>2, <1>1, <1>2 DEF AcPadr, TypeOK, hostVars, Kept, Table
<1>6. CASE UNCHANGED <<toHost, sess>>
  BY <1>1, <1>2, <1>6 DEF AcPadr, TypeOK, hostVars, Kept, Table
<1> QED BY <1>4, <1>5, <1>6 DEF AcPadr

LEMMA PadtTypes == ASSUME TypeOK, NEW h \in Host, AcPadt(h) PROVE TypeOK' /\ Kept
<1>1. toAc[h] # <<>> /\ Got(toAc, h) \in [Host -> Seq(Up)]
  BY GotType DEF TypeOK, AcPadt, Arrives
<1> DEFINE S == sess_by_sid(Head(toAc[h]).sid)
<1>2. CASE S = {}
  <2>1. sess' = sess /\ orphan' = orphan
    BY <1>2 DEF AcPadt
  <2> QED BY <2>1, <1>1 DEF AcPadt, TypeOK, hostVars, Kept, Table
<1>3. CASE S # {}
  <2>1. First(S) \in Slot /\ used(First(S))
    BY <1>3, SlotOf DEF sess_by_sid
  <2>2. sess' = sess_free(First(S)) /\ orphan' \subseteq orphan \cup {sess[First(S)].cmac}
    BY <1>3 DEF AcPadt
  <2>3. sess' \in Table /\ (Unique(sess) => Unique(sess'))
    BY <2>1, <2>2, Free DEF TypeOK, Table
  <2>4. orphan' \subseteq Host
    BY <2>1, <2>2, SessTypes DEF used, TypeOK
  <2> QED BY <2>3, <2>4, <1>1 DEF AcPadt, TypeOK, hostVars, Kept, Table
<1> QED BY <1>2, <1>3

\* What ac_inner sends, if anything, goes to a session, and is data or an ND reply.  With to the
\* other session that has the destination, of the table T with what was learned.
Dispatch(h) ==
    LET m == Head(toAc[h])
        i == First(sess_by_cmac(h))
        T == [sess EXCEPT ![i] = Learn(sess[i], h, m)]
        to == {j \in sess_by_addr(T, m.dst) : j = First(sess_by_addr(T, m.dst)) /\ j # i}
    IN  \/ toHost' = toHost
        \/ m.type = "nd" /\ m.dst = AcAddr
           /\ toHost' = ac_session_send(i, [type |-> "ndreply", sid |-> sess[i].sid, dst |-> AcAddr, mac |-> NoHost])
        \/ \E j \in to :
              \/ m.type = "nd"
                 /\ toHost' = ac_session_send(i, [type |-> "ndreply", sid |-> sess[i].sid, dst |-> m.dst, mac |-> sess[j].wmac])
              \/ m.type = "uni"
                 /\ toHost' = ac_session_send(j, [type |-> "data", sid |-> sess[j].sid, dst |-> m.dst])

\* A frame of h is taken into its session, at slot i, with what is learned from it.
LEMMA InnerTakes ==
    ASSUME TypeOK, NEW h \in Host, AcInner(h)
    PROVE  LET m == Head(toAc[h])
               i == First(sess_by_cmac(h))
           IN  /\ toAc[h] # <<>> /\ m \in Up /\ m.type \in {"discover", "request", "nd", "uni"}
               /\ m.src \in Addr \cup {NoAddr} /\ m.dst \in Addr \cup {NoAddr}
               /\ i \in Slot /\ used(i) /\ sess[i].cmac = h
               /\ sess' = [sess EXCEPT ![i] = Learn(sess[i], h, m)]
               /\ sess' \in Table /\ \A j \in Slot : sess'[j].cmac = sess[j].cmac /\ sess'[j].sid = sess[j].sid
               /\ Dispatch(h)
<1> DEFINE m == Head(toAc[h])
           i == First(sess_by_cmac(h))
           T == [sess EXCEPT ![i] = Learn(sess[i], h, m)]
           to == {j \in sess_by_addr(T, m.dst) : j = First(sess_by_addr(T, m.dst)) /\ j # i}
<1>1. toAc[h] # <<>> /\ m.type \in {"discover", "request", "nd", "uni"} /\ sess_by_cmac(h) # {}
  BY DEF AcInner, InSession
<1>2. m \in Up
  BY <1>1, GotType DEF TypeOK
<1>3. i \in Slot /\ used(i) /\ sess[i].cmac = h
  BY <1>1, SlotOf DEF sess_by_cmac
<1>4. sess' = T
  BY DEF AcInner
<1>5. m.src \in Addr \cup {NoAddr} /\ m.dst \in Addr \cup {NoAddr}
  BY <1>1, <1>2, UpTypes
<1>6. toHost' = IF m.type = "nd" /\ m.dst = AcAddr
                THEN ac_session_send(i, [type |-> "ndreply", sid |-> sess[i].sid, dst |-> AcAddr, mac |-> NoHost])
                ELSE IF m.type = "nd" /\ to # {}
                THEN ac_session_send(i, [type |-> "ndreply", sid |-> sess[i].sid, dst |-> m.dst, mac |-> sess[First(to)].wmac])
                ELSE IF m.type = "uni" /\ to # {}
                THEN ac_session_send(First(to), [type |-> "data", sid |-> sess[First(to)].sid, dst |-> m.dst])
                ELSE toHost
  BY DEF AcInner
<1>7. to # {} => First(to) \in to
  <2>1. to \in SUBSET Slot
    BY DEF sess_by_addr
  <2> HIDE DEF to
  <2> QED BY <2>1, SlotOf
<1>8. Dispatch(h)
  <2> HIDE DEF to, m, i, T
  <2>1. \/ toHost' = toHost
        \/ m.type = "nd" /\ m.dst = AcAddr
           /\ toHost' = ac_session_send(i, [type |-> "ndreply", sid |-> sess[i].sid, dst |-> AcAddr, mac |-> NoHost])
        \/ \E j \in to :
              \/ m.type = "nd"
                 /\ toHost' = ac_session_send(i, [type |-> "ndreply", sid |-> sess[i].sid, dst |-> m.dst, mac |-> sess[j].wmac])
              \/ m.type = "uni"
                 /\ toHost' = ac_session_send(j, [type |-> "data", sid |-> sess[j].sid, dst |-> m.dst])
    BY <1>6, <1>7
  <2> QED BY <2>1 DEF Dispatch, to, m, i, T
<1> HIDE DEF m, i
<1>9. Learn(sess[i], h, m) \in Session /\ Learn(sess[i], h, m).cmac = sess[i].cmac /\ Learn(sess[i], h, m).sid = sess[i].sid
  BY <1>1, <1>2, <1>3, LearnTypes, SessTypes
<1>10. T \in Table /\ \A j \in Slot : T[j].cmac = sess[j].cmac /\ T[j].sid = sess[j].sid
  BY <1>3, <1>9 DEF TypeOK, Table
<1> QED BY <1>1, <1>2, <1>3, <1>4, <1>5, <1>8, <1>10 DEF m, i

\* The session a frame's address finds, other than the sender's, is one of the table.
LEMMA FoundOther ==
    ASSUME TypeOK, NEW i \in Slot, NEW s, s.cmac = sess[i].cmac, NEW a \in Addr \cup {NoAddr}, NEW j,
           LET T == [sess EXCEPT ![i] = s]
           IN  j \in {l \in sess_by_addr(T, a) : l = First(sess_by_addr(T, a)) /\ l # i}
    PROVE  j \in Slot /\ j # i /\ used(j) /\ sess[j].addr = a /\ a \in Addr
BY DEF sess_by_addr, used, TypeOK

\* What it sends, if anything, is a frame to a session.
LEMMA DispatchShape ==
    ASSUME TypeOK, NEW h \in Host, AcInner(h)
    PROVE  \/ toHost' = toHost
           \/ \E j \in Slot, f \in Down : used(j) /\ f.type \in {"data", "ndreply"} /\ toHost' = ac_session_send(j, f)
<1> DEFINE m == Head(toAc[h])
           i == First(sess_by_cmac(h))
           T == [sess EXCEPT ![i] = Learn(sess[i], h, m)]
           to == {j \in sess_by_addr(T, m.dst) : j = First(sess_by_addr(T, m.dst)) /\ j # i}
           Sent(j, f) == j \in Slot /\ f \in Down /\ used(j) /\ f.type \in {"data", "ndreply"}
<1>1. /\ m.type \in {"discover", "request", "nd", "uni"} /\ m \in Up /\ m.dst \in Addr \cup {NoAddr}
      /\ i \in Slot /\ used(i) /\ sess[i].cmac = h /\ Dispatch(h)
  BY InnerTakes
<1>2. \A j \in to : j \in Slot /\ used(j) /\ m.dst \in Addr
  <2>1. Learn(sess[i], h, m).cmac = sess[i].cmac
    BY <1>1, LearnTypes, SessTypes
  <2> HIDE DEF i, m
  <2> QED BY <1>1, <2>1, FoundOther
<1>3. \/ toHost' = toHost
      \/ m.type = "nd" /\ m.dst = AcAddr
         /\ toHost' = ac_session_send(i, [type |-> "ndreply", sid |-> sess[i].sid, dst |-> AcAddr, mac |-> NoHost])
      \/ \E j \in to :
            \/ m.type = "nd"
               /\ toHost' = ac_session_send(i, [type |-> "ndreply", sid |-> sess[i].sid, dst |-> m.dst, mac |-> sess[j].wmac])
            \/ m.type = "uni"
               /\ toHost' = ac_session_send(j, [type |-> "data", sid |-> sess[j].sid, dst |-> m.dst])
  BY <1>1 DEF Dispatch
<1> HIDE DEF m, i, to
<1>4. Sent(i, [type |-> "ndreply", sid |-> sess[i].sid, dst |-> AcAddr, mac |-> NoHost])
  BY <1>1, SessTypes, NameAssumption DEF Down
<1>5. \A j \in to : Sent(i, [type |-> "ndreply", sid |-> sess[i].sid, dst |-> m.dst, mac |-> sess[j].wmac])
  BY <1>1, <1>2, SessTypes DEF Down
<1>6. \A j \in to : Sent(j, [type |-> "data", sid |-> sess[j].sid, dst |-> m.dst])
  BY <1>2, SessTypes DEF Down
<1>7. ASSUME NEW j, NEW f, Sent(j, f), toHost' = ac_session_send(j, f)
      PROVE  \E l \in Slot, e \in Down : used(l) /\ e.type \in {"data", "ndreply"} /\ toHost' = ac_session_send(l, e)
  BY <1>7
<1> HIDE DEF Sent
<1> QED BY <1>3, <1>4, <1>5, <1>6, <1>7

LEMMA InnerStep == ASSUME TypeOK, NEW h \in Host, AcInner(h) PROVE TypeOK' /\ Kept
<1>1. Got(toAc, h) \in [Host -> Seq(Up)] /\ sess' \in Table
  BY InnerTakes, GotType DEF TypeOK
<1>2. Kept
  BY InnerTakes, Same DEF Kept, TypeOK, Table
<1>3. toHost' \in [Host -> Seq(Down)]
  <2>1. CASE toHost' = toHost
    BY <2>1 DEF TypeOK
  <2>2. ASSUME NEW j \in Slot, NEW f \in Down, used(j), toHost' = ac_session_send(j, f) PROVE toHost' \in [Host -> Seq(Down)]
    BY <2>2, ToSession
  <2> QED BY <2>1, <2>2, DispatchShape
<1>4. toAc' = Got(toAc, h) /\ UNCHANGED <<conf, peers, file, hst, sid, attempt, owner, faults, edits, orphan>>
  BY DEF AcInner, hostVars
<1> QED BY <1>1, <1>2, <1>3, <1>4 DEF TypeOK, Table

LEMMA AcTypes == ASSUME TypeOK, NEW h \in Host, AcTakes(h) PROVE TypeOK' /\ Kept
<1>1. toAc[h] # <<>> => Got(toAc, h) \in [Host -> Seq(Up)]
  BY GotType DEF TypeOK
<1>2. CASE AcPadi(h)
  <2>1. [type |-> "PADO"] \in Down
    BY DEF Down
  <2>2. Say(toHost, h, [type |-> "PADO"]) \in [Host -> Seq(Down)]
    BY <2>1, SayType DEF TypeOK
  <2> QED BY <2>2, <1>1, <1>2 DEF AcPadi, Arrives, TypeOK, acVars, hostVars, Kept, Table
<1>3. CASE AcRefuse(h)
  BY <1>1, <1>3 DEF AcRefuse, Arrives, TypeOK, acVars, hostVars, Kept, Table
<1>4. CASE AcStray(h)
  BY <1>1, <1>4 DEF AcStray, TypeOK, acVars, hostVars, Kept, Table
<1> QED BY <1>2, <1>3, <1>4, PadrTypes, PadtTypes, InnerStep DEF AcTakes

LEMMA OtherTypes ==
    ASSUME TypeOK,
           \/ \E d \in Addr \cup Host : Island(d)
           \/ \E i \in Slot : Quiet(i) \/ Reap(i)
           \/ Restart \/ (\E S \in SUBSET Host : Edit(S)) \/ \E a \in Addr, h \in Host : Lease(a, h)
    PROVE  TypeOK' /\ Kept
<1>1. ASSUME NEW d \in Addr \cup Host, Island(d) PROVE TypeOK' /\ Kept
  <2> DEFINE S == IF d \in Host THEN sess_by_wmac(d) ELSE sess_by_addr(sess, d)
             m == [type |-> "data", sid |-> sess[First(S)].sid, dst |-> d]
  <2>1. S # {} /\ toHost' = ac_session_send(First(S), m)
    BY <1>1 DEF Island
  <2>2. S \subseteq Slot /\ \A i \in S : used(i)
    BY DEF sess_by_wmac, sess_by_addr, used
  <2> HIDE DEF S
  <2>3. First(S) \in Slot /\ used(First(S))
    BY <2>1, <2>2, SlotOf
  <2>4. m \in Down
    BY <2>3, SessTypes DEF Down
  <2>5. toHost' \in [Host -> Seq(Down)]
    BY <2>1, <2>3, <2>4, ToSession
  <2> QED BY <2>5, <1>1 DEF Island, TypeOK, acVars, hostVars, Kept, Table
<1>2. ASSUME NEW i \in Slot, Quiet(i) PROVE TypeOK' /\ Kept
  <2>1. sess' = [sess EXCEPT ![i].idle = TRUE]
    BY <1>2 DEF Quiet
  <2>2. sess' \in Table /\ \A j \in Slot : sess'[j].cmac = sess[j].cmac /\ sess'[j].sid = sess[j].sid
    BY <2>1 DEF TypeOK, Table, Session
  <2>3. Kept
    BY <2>2, Same DEF Kept, TypeOK, Table
  <2> QED BY <2>3, <1>2 DEF Quiet, TypeOK, hostVars, wires, Kept, Table
<1>3. ASSUME NEW i \in Slot, Reap(i) PROVE TypeOK' /\ Kept
  <2>1. [type |-> "PADT", sid |-> sess[i].sid] \in Down
    BY <1>3, SessTypes DEF Down
  <2>2. toHost' \in [Host -> Seq(Down)]
    BY <2>1, <1>3, ToSession DEF Reap
  <2>3. Kept
    BY <1>3, Free DEF Reap, Kept, TypeOK, Table
  <2> QED BY <2>2, <2>3, <1>3 DEF Reap, TypeOK, hostVars, Kept, Table
<1>4. CASE Restart
  <2>1. sess' = [i \in Slot |-> Unused]
    BY <1>4 DEF Restart
  <2>2. Kept
    BY <2>1, UnusedType DEF Kept, Unique, Unused, Table
  <2>3. peers' \subseteq Host
    BY <1>4, ConfTypes DEF Restart, TypeOK
  <2>4. orphan' \subseteq Host
    BY <1>4, SessTypes DEF Restart, TypeOK, used
  <2> QED BY <2>2, <2>3, <2>4, <1>4 DEF Restart, TypeOK, hostVars, wires, Kept, Table
<1>5. ASSUME NEW S \in SUBSET Host, Edit(S) PROVE TypeOK' /\ Kept
  BY <1>5 DEF Edit, TypeOK, hostVars, wires, Kept, Table
<1>6. ASSUME NEW a \in Addr, NEW h \in Host, Lease(a, h) PROVE TypeOK' /\ Kept
  BY <1>6 DEF Lease, TypeOK, acVars, hostVars, wires, Kept, Table
<1> QED BY <1>1, <1>2, <1>3, <1>4, <1>5, <1>6

-----------------------------------------------------------------------------
(* The theorems.                                                             *)

LEMMA HostKept ==
    ASSUME TypeOK, NEW h \in Host, Dial(h) \/ HostTakes(h) \/ Quit(h) \/ Timeout(h) \/ Crash(h) \/ LoseUp(h) \/ LoseDown(h)
    PROVE  Kept
<1>1. sess' = sess
  BY DEF Dial, HostTakes, Pado, Pads, Padt, Other, Quit, Timeout, Crash, LoseUp, LoseDown, acVars
<1> QED BY <1>1 DEF Kept, TypeOK, Table

LEMMA StepKeeps == TypeOK /\ [Next]_vars => TypeOK' /\ Kept
<1> SUFFICES ASSUME TypeOK, [Next]_vars PROVE TypeOK' /\ Kept
  OBVIOUS
<1>1. CASE UNCHANGED vars
  BY <1>1 DEF vars, acVars, hostVars, wires, TypeOK, Kept, Table
<1>2. CASE Next
  <2>1. ASSUME NEW h \in Host, Dial(h) \/ HostTakes(h) \/ Quit(h) \/ Timeout(h) \/ Crash(h) \/ LoseUp(h) \/ LoseDown(h)
        PROVE  TypeOK' /\ Kept
    BY <2>1, HostTypes, HostKept
  <2>2. ASSUME NEW h \in Host, AcTakes(h) PROVE TypeOK' /\ Kept
    BY <2>2, AcTypes
  <2>3. ASSUME NEW h \in Host, NEW kind \in conf.kinds \ {"island"}, NEW s \in Addr \cup {NoAddr}, NEW d \in Addr \cup {NoAddr},
               Inner(h, kind, s, d)
        PROVE  TypeOK' /\ Kept
    <3>1. conf.kinds \subseteq {"discover", "request", "nd", "uni", "island"}
      BY ConfAssumption DEF TypeOK, Conf
    <3>2. kind \in {"discover", "request", "nd", "uni"}
      BY <3>1
    <3>3. TypeOK'
      BY <3>2, <2>3, InnerTypes
    <3>4. sess' = sess
      BY <2>3 DEF Inner, acVars
    <3> QED BY <3>3, <3>4 DEF Kept, TypeOK, Table
  <2> QED BY <1>2, <2>1, <2>2, <2>3, OtherTypes DEF Next
<1> QED BY <1>1, <1>2

\* Every variable keeps its type, whatever hosts, AC, wire and administrator do.
THEOREM Types == Spec => []TypeOK
<1>1. TypeOK /\ [Next]_vars => TypeOK'
  BY StepKeeps
<1> QED BY <1>1, TypeInit, PTL DEF Spec

\* A MAC and an id name at most one session of the AC, for every number of sessions and ids
\* (sess_alloc always finds an id that no session has).
THEOREM Sessions == Spec => []SessionsUnique
<1>1. Init => TypeOK /\ SessionsUnique
  <2> SUFFICES ASSUME Init PROVE TypeOK /\ SessionsUnique
    OBVIOUS
  <2>1. \A i \in Slot : ~used(i)
    BY DEF Init, used, Unused
  <2> QED BY <2>1, TypeInit DEF SessionsUnique
<1>2. TypeOK /\ SessionsUnique /\ [Next]_vars => TypeOK' /\ SessionsUnique'
  <2> SUFFICES ASSUME TypeOK, SessionsUnique, [Next]_vars PROVE TypeOK' /\ SessionsUnique'
    OBVIOUS
  <2>1. Unique(sess)
    BY UniqueIs
  <2>2. TypeOK' /\ Unique(sess')
    BY <2>1, StepKeeps DEF Kept
  <2>3. SessionsUnique'
    BY <2>2 DEF SessionsUnique, Unique, used
  <2> QED BY <2>2, <2>3
<1> QED BY <1>1, <1>2, PTL DEF Spec

-----------------------------------------------------------------------------
(* What a host believes.  The strengthening of UpHasSession says of a PADS on *)
(* its way what UpHasSession says of a host that is up: the session is there, *)
(* or the PADT that ends it follows, or the host is an orphan.  It is stated  *)
(* of a table T, a host's wire q, its state st, its id s and the orphans O.   *)

Bye(n) == [type |-> "PADT", sid |-> n]
Welcome(n) == [type |-> "PADS", sid |-> n]
Has(T, x, n) == \E i \in Slot : T[i].cmac = x /\ T[i].sid = n
Ends(q, k, n) == \E l \in DOMAIN q : l > k /\ q[l] = Bye(n)
Backed(T, x, n, q, k, O) == Has(T, x, n) \/ Ends(q, k, n) \/ x \in O
Sure(x, T, q, st, s, O) ==
    /\ st = "up" => Backed(T, x, s, q, 0, O)
    /\ \A k \in DOMAIN q, n \in 0 .. MaxSid : q[k] = Welcome(n) => Backed(T, x, n, q, k, O)
Beliefs == \A x \in Host : Sure(x, sess, toHost[x], hst[x], sid[x], orphan)

LEMMA BeliefsGive == TypeOK /\ Beliefs => UpHasSession
<1> SUFFICES ASSUME TypeOK, Beliefs, NEW h \in Host, hst[h] = "up" PROVE HasSession(h) \/ Told(h) \/ h \in orphan
  BY DEF UpHasSession
<1>1. Backed(sess, h, sid[h], toHost[h], 0, orphan)
  BY DEF Beliefs, Sure
<1>2. ASSUME Has(sess, h, sid[h]) PROVE HasSession(h)
  BY <1>2, NameAssumption DEF Has, HasSession, sess_by_cmac, used
<1>3. ASSUME Ends(toHost[h], 0, sid[h]) PROVE Told(h)
  BY <1>3 DEF Ends, Told, Bye
<1> QED BY <1>1, <1>2, <1>3 DEF Backed

LEMMA Heads ==
    ASSUME NEW q \in Seq(Down), q # <<>>
    PROVE  /\ Tail(q) \in Seq(Down) /\ Len(q) \in Nat \ {0} /\ DOMAIN q = 1 .. Len(q) /\ Head(q) = q[1]
           /\ DOMAIN Tail(q) = 1 .. Len(q) - 1 /\ \A k \in 1 .. Len(q) - 1 : Tail(q)[k] = q[k + 1]
OBVIOUS

LEMMA Appends ==
    ASSUME NEW q \in Seq(Down), NEW m \in Down
    PROVE  /\ Append(q, m) \in Seq(Down) /\ Len(q) \in Nat /\ DOMAIN q = 1 .. Len(q) /\ DOMAIN Append(q, m) = 1 .. Len(q) + 1
           /\ Append(q, m)[Len(q) + 1] = m /\ \A k \in 1 .. Len(q) : Append(q, m)[k] = q[k]
OBVIOUS

\* The host's wire is as it was, the table has what it had of the host, and no orphan is
\* forgotten.
LEMMA SureStays ==
    ASSUME NEW x, NEW T, NEW T2, NEW q, NEW st, NEW st2, NEW s, NEW O, NEW O2,
           Sure(x, T, q, st, s, O), st2 = "up" => st = "up",
           \A n : Has(T, x, n) => Has(T2, x, n) \/ x \in O2,
           x \in O => x \in O2
    PROVE  Sure(x, T2, q, st2, s, O2)
BY DEF Sure, Backed

\* The AC sends the host a frame; if that is PADS, the session it names is there.
LEMMA SureSaid ==
    ASSUME NEW x, NEW T, NEW T2, NEW q \in Seq(Down), NEW m \in Down, NEW st, NEW s, NEW O,
           Sure(x, T, q, st, s, O),
           \A n : Has(T, x, n) => Has(T2, x, n) \/ m = Bye(n),
           \A n \in 0 .. MaxSid : m = Welcome(n) => Has(T2, x, n)
    PROVE  Sure(x, T2, Append(q, m), st, s, O)
<1> DEFINE r == Append(q, m)
<1>1. /\ Len(q) \in Nat /\ DOMAIN q = 1 .. Len(q) /\ DOMAIN r = 1 .. Len(q) + 1
      /\ r[Len(q) + 1] = m /\ \A k \in 1 .. Len(q) : r[k] = q[k]
  BY Appends
<1> HIDE DEF r
<1>2. ASSUME NEW n, NEW k \in 0 .. Len(q), Backed(T, x, n, q, k, O) PROVE Backed(T2, x, n, r, k, O)
  <2>1. CASE Has(T, x, n)
    <3>1. ASSUME m = Bye(n) PROVE Ends(r, k, n)
      <4>1. Len(q) + 1 \in DOMAIN r /\ Len(q) + 1 > k /\ r[Len(q) + 1] = Bye(n)
        BY <3>1, <1>1
      <4> QED BY <4>1 DEF Ends
    <3> QED BY <2>1, <3>1 DEF Backed
  <2>2. CASE Ends(q, k, n)
    <3>1. PICK l \in 1 .. Len(q) : l > k /\ q[l] = Bye(n)
      BY <2>2, <1>1 DEF Ends
    <3>2. l \in DOMAIN r /\ r[l] = Bye(n)
      BY <3>1, <1>1
    <3> QED BY <3>1, <3>2 DEF Ends, Backed
  <2> QED BY <1>2, <2>1, <2>2 DEF Backed
<1>3. st = "up" => Backed(T2, x, s, r, 0, O)
  BY <1>1, <1>2 DEF Sure
<1>4. ASSUME NEW k \in DOMAIN r, NEW n \in 0 .. MaxSid, r[k] = Welcome(n) PROVE Backed(T2, x, n, r, k, O)
  <2>1. CASE k = Len(q) + 1
    BY <2>1, <1>1, <1>4 DEF Backed
  <2>2. CASE k \in 1 .. Len(q)
    <3>1. q[k] = Welcome(n) /\ k \in DOMAIN q /\ k \in 0 .. Len(q)
      BY <2>2, <1>1, <1>4
    <3>2. Backed(T, x, n, q, k, O)
      BY <3>1 DEF Sure
    <3> QED BY <3>1, <3>2, <1>2
  <2> QED BY <2>1, <2>2, <1>1, <1>4
<1> QED BY <1>3, <1>4 DEF Sure, r

\* The host's first frame is taken or lost: a host that is up did not lose the PADT that ends
\* its session without becoming an orphan, or has just taken the PADS that names it.
LEMMA SureGot ==
    ASSUME NEW x, NEW T, NEW q \in Seq(Down), q # <<>>, NEW st, NEW st2, NEW s, NEW s2 \in 0 .. MaxSid, NEW O, NEW O2,
           Sure(x, T, q, st, s, O), x \in O => x \in O2,
           st2 = "up" => \/ st = "up" /\ s2 = s /\ (Head(q) = Bye(s) => x \in O2)
                         \/ Head(q) = Welcome(s2)
    PROVE  Sure(x, T, Tail(q), st2, s2, O2)
<1> DEFINE r == Tail(q)
<1>1. /\ Len(q) \in Nat \ {0} /\ DOMAIN q = 1 .. Len(q) /\ Head(q) = q[1]
      /\ DOMAIN r = 1 .. Len(q) - 1 /\ \A k \in 1 .. Len(q) - 1 : r[k] = q[k + 1]
  BY Heads
<1> HIDE DEF r
<1>2. ASSUME NEW n, NEW k \in 0 .. Len(q), Ends(q, k + 1, n) PROVE Ends(r, k, n)
  <2>1. PICK l \in 1 .. Len(q) : l > k + 1 /\ q[l] = Bye(n)
    BY <1>1, <1>2 DEF Ends
  <2>2. l - 1 \in DOMAIN r /\ r[l - 1] = Bye(n) /\ l - 1 > k
    BY <2>1, <1>1
  <2> QED BY <2>2 DEF Ends
<1>3. ASSUME st2 = "up" PROVE Backed(T, x, s2, r, 0, O2)
  <2>1. CASE st = "up" /\ s2 = s /\ (Head(q) = Bye(s) => x \in O2)
    <3>1. Backed(T, x, s, q, 0, O)
      BY <2>1 DEF Sure
    <3>2. ASSUME Ends(q, 0, s) PROVE Ends(r, 0, s) \/ x \in O2
      <4>1. PICK l \in 1 .. Len(q) : q[l] = Bye(s)
        BY <3>2, <1>1 DEF Ends
      <4>2. CASE l = 1
        BY <4>1, <4>2, <2>1, <1>1
      <4>3. CASE l # 1
        <5>1. l - 1 \in DOMAIN r /\ r[l - 1] = Bye(s) /\ l - 1 > 0
          BY <4>1, <4>3, <1>1
        <5> QED BY <5>1 DEF Ends
      <4> QED BY <4>2, <4>3
    <3> QED BY <2>1, <3>1, <3>2 DEF Backed
  <2>2. CASE Head(q) = Welcome(s2)
    <3>1. 1 \in DOMAIN q /\ q[1] = Welcome(s2)
      BY <2>2, <1>1
    <3>2. Backed(T, x, s2, q, 1, O)
      BY <3>1 DEF Sure
    <3>3. Ends(q, 1, s2) => Ends(r, 0, s2)
      BY <1>1, <1>2
    <3> QED BY <3>2, <3>3 DEF Backed
  <2> QED BY <1>3, <2>1, <2>2
<1>4. ASSUME NEW k \in DOMAIN r, NEW n \in 0 .. MaxSid, r[k] = Welcome(n) PROVE Backed(T, x, n, r, k, O2)
  <2>1. k \in 0 .. Len(q) /\ k + 1 \in DOMAIN q /\ q[k + 1] = Welcome(n)
    BY <1>1, <1>4
  <2>2. Backed(T, x, n, q, k + 1, O)
    BY <2>1 DEF Sure
  <2> QED BY <2>1, <2>2, <1>2 DEF Backed
<1> QED BY <1>3, <1>4 DEF Sure, r

LEMMA Named == ASSUME NEW m \in Down PROVE /\ m.type = "PADS" => m = Welcome(m.sid) /\ m.sid \in 0 .. MaxSid
                                           /\ m.type = "PADT" => m = Bye(m.sid) /\ m.sid \in 0 .. MaxSid
BY DEF Down, Welcome, Bye

LEMMA WireType == ASSUME TypeOK, NEW x \in Host PROVE toHost[x] \in Seq(Down) /\ sid[x] \in 0 .. MaxSid
BY DEF TypeOK

\* Steps that leave the wires to the hosts and what the AC has of them alone.
LEMMA BeliefsStay ==
    ASSUME TypeOK, Beliefs, UNCHANGED <<toHost, sid>>, orphan \subseteq orphan',
           \A x \in Host : hst'[x] = "up" => hst[x] = "up",
           \A x \in Host : \A n : Has(sess, x, n) => Has(sess', x, n) \/ x \in orphan'
    PROVE  Beliefs'
<1> SUFFICES ASSUME NEW x \in Host PROVE Sure(x, sess', toHost[x], hst'[x], sid[x], orphan')
  BY DEF Beliefs
<1>1. Sure(x, sess, toHost[x], hst[x], sid[x], orphan)
  BY DEF Beliefs
<1> QED BY <1>1, SureStays

\* The AC sends host h a frame.
LEMMA BeliefsSaid ==
    ASSUME TypeOK, Beliefs, NEW h \in Host, NEW m \in Down, toHost' = Say(toHost, h, m), UNCHANGED <<hst, sid, orphan>>,
           \A x \in Host : \A n : Has(sess, x, n) => Has(sess', x, n) \/ (x = h /\ m = Bye(n)),
           \A n \in 0 .. MaxSid : m = Welcome(n) => Has(sess', h, n)
    PROVE  Beliefs'
<1> SUFFICES ASSUME NEW x \in Host PROVE Sure(x, sess', toHost'[x], hst[x], sid[x], orphan)
  BY DEF Beliefs
<1>1. Sure(x, sess, toHost[x], hst[x], sid[x], orphan) /\ toHost[x] \in Seq(Down)
  BY WireType DEF Beliefs
<1>2. CASE x = h
  <2>1. toHost'[x] = Append(toHost[x], m)
    BY <1>2 DEF Say, TypeOK
  <2> QED BY <1>1, <1>2, <2>1, SureSaid
<1>3. CASE x # h
  <2>1. toHost'[x] = toHost[x]
    BY <1>3 DEF Say, TypeOK
  <2> QED BY <1>1, <1>3, <2>1, SureStays
<1> QED BY <1>2, <1>3

\* Host h takes a frame, or it is lost.
LEMMA BeliefsGot ==
    ASSUME TypeOK, TypeOK', Beliefs, NEW h \in Host, toHost[h] # <<>>, toHost' = Got(toHost, h), UNCHANGED sess,
           orphan \subseteq orphan', \A x \in Host \ {h} : hst'[x] = hst[x] /\ sid'[x] = sid[x],
           hst'[h] = "up" => \/ hst[h] = "up" /\ sid'[h] = sid[h] /\ (Head(toHost[h]) = Bye(sid[h]) => h \in orphan')
                             \/ Head(toHost[h]) = Welcome(sid'[h])
    PROVE  Beliefs'
<1> SUFFICES ASSUME NEW x \in Host PROVE Sure(x, sess, toHost'[x], hst'[x], sid'[x], orphan')
  BY DEF Beliefs
<1>1. Sure(x, sess, toHost[x], hst[x], sid[x], orphan) /\ toHost[x] \in Seq(Down)
  BY WireType DEF Beliefs
<1>2. CASE x = h
  <2>1. toHost'[x] = Tail(toHost[x]) /\ sid'[x] \in 0 .. MaxSid
    BY <1>2 DEF Got, TypeOK
  <2> QED BY <1>1, <1>2, <2>1, SureGot
<1>3. CASE x # h
  <2>1. toHost'[x] = toHost[x]
    BY <1>3 DEF Got, TypeOK
  <2> QED BY <1>1, <1>3, <2>1, SureStays
<1> QED BY <1>2, <1>3

\* A host dials: what it is owed from before, PADS on their way, it is still owed.
LEMMA BeliefsDial == ASSUME TypeOK, Beliefs, NEW h \in Host, Dial(h) PROVE Beliefs'
<1> SUFFICES ASSUME NEW x \in Host PROVE Sure(x, sess, toHost[x], hst'[x], sid[x], orphan')
  BY DEF Beliefs, Dial, acVars
<1>1. Sure(x, sess, toHost[x], hst[x], sid[x], orphan)
  BY DEF Beliefs
<1>2. hst'[h] = "padi" /\ \A y \in Host \ {h} : hst'[y] = hst[y]
  BY DEF Dial, TypeOK
<1>3. \A y \in Host \ {h} : y \in orphan => y \in orphan'
  BY DEF Dial
<1>4. CASE x # h \/ x \in orphan'
  BY <1>1, <1>2, <1>3, <1>4, SureStays
<1>5. CASE x = h /\ x \notin orphan'
  <2>1. CASE h \in orphan
    <3>1. \A k \in DOMAIN toHost[h] : toHost[h][k].type # "PADS"
      BY <1>5, <2>1 DEF Dial
    <3> QED BY <3>1, <1>2, <1>5 DEF Sure, Welcome
  <2>2. CASE h \notin orphan
    BY <1>1, <1>2, <1>5, <2>2, SureStays
  <2> QED BY <2>1, <2>2
<1> QED BY <1>4, <1>5

LEMMA BeliefsHost ==
    ASSUME TypeOK, TypeOK', Beliefs, NEW h \in Host, HostTakes(h) \/ Quit(h) \/ Timeout(h) \/ Crash(h) \/ LoseUp(h) \/ LoseDown(h)
    PROVE  Beliefs'
<1>1. toHost[h] # <<>> => Head(toHost[h]) \in Down
  BY GotType DEF TypeOK
<1>2. CASE Pado(h)
  <2>1. hst'[h] = "padr" /\ \A x \in Host \ {h} : hst'[x] = hst[x]
    BY <1>2 DEF Pado, TypeOK
  <2> QED BY <1>2, <2>1, BeliefsGot DEF Pado, acVars
<1>3. CASE Pads(h)
  <2>1. Head(toHost[h]) = Welcome(sid'[h])
    BY <1>1, <1>3, Named DEF Pads, TypeOK
  <2>2. \A x \in Host \ {h} : hst'[x] = hst[x] /\ sid'[x] = sid[x]
    BY <1>3 DEF Pads, TypeOK
  <2> QED BY <1>3, <2>1, <2>2, BeliefsGot DEF Pads, acVars
<1>4. CASE Padt(h)
  <2>1. hst'[h] = "off" /\ \A x \in Host \ {h} : hst'[x] = hst[x]
    BY <1>4 DEF Padt, TypeOK
  <2> QED BY <1>4, <2>1, BeliefsGot DEF Padt, acVars
<1>5. CASE Other(h)
  <2>1. hst[h] = "up" => Head(toHost[h]) # Bye(sid[h])
    BY <1>5 DEF Other, Bye
  <2> QED BY <1>5, <2>1, BeliefsGot DEF Other, acVars, hostVars
<1>6. CASE Quit(h) \/ Timeout(h) \/ Crash(h) \/ LoseUp(h)
  <2>1. \A x \in Host : hst'[x] = "up" => hst[x] = "up"
    BY <1>6 DEF Quit, Timeout, Crash, LoseUp, hostVars, TypeOK
  <2>2. UNCHANGED <<toHost, sid, sess, orphan>>
    BY <1>6 DEF Quit, Timeout, Crash, LoseUp, hostVars, acVars, wires
  <2> QED BY <2>1, <2>2, BeliefsStay
<1>7. CASE LoseDown(h)
  <2>1. Head(toHost[h]) = Bye(sid[h]) => h \in orphan'
    BY <1>7 DEF LoseDown, Bye
  <2> QED BY <1>7, <2>1, BeliefsGot DEF LoseDown, acVars, hostVars
<1> QED BY <1>2, <1>3, <1>4, <1>5, <1>6, <1>7 DEF HostTakes

\* The id PADS gives is that of a session of the host.
LEMMA BeliefsPadr == ASSUME TypeOK, Beliefs, NEW h \in Host, AcPadr(h) PROVE Beliefs'
<1>1. UNCHANGED <<hst, sid, orphan>>
  BY DEF AcPadr, hostVars
<1>2. \A n, k : Welcome(n) = Welcome(k) => n = k
  BY DEF Welcome
<1>3. CASE sess_by_cmac(h) # {} /\ UNCHANGED sess /\ toHost' = Say(toHost, h, [type |-> "PADS", sid |-> sess[First(sess_by_cmac(h))].sid])
  <2> DEFINE i == First(sess_by_cmac(h))
             m == Welcome(sess[i].sid)
  <2>1. i \in Slot /\ i \in sess_by_cmac(h)
    BY <1>3, SlotOf DEF sess_by_cmac
  <2>2. Has(sess, h, sess[i].sid)
    BY <2>1 DEF Has, sess_by_cmac
  <2>3. m \in Down
    BY <2>1, SessTypes DEF Down, Welcome
  <2>4. toHost' = Say(toHost, h, m)
    BY <1>3 DEF Welcome
  <2>5. \A n \in 0 .. MaxSid : m = Welcome(n) => Has(sess', h, n)
    BY <2>2, <1>2, <1>3
  <2> HIDE DEF m
  <2> QED BY <1>1, <1>3, <2>3, <2>4, <2>5, BeliefsSaid
<1>4. CASE sess_by_cmac(h) = {} /\ slot_found /\ sess' = sess_alloc(h) /\ toHost' = Say(toHost, h, [type |-> "PADS", sid |-> First(free_sids)])
  <2> DEFINE i == First(free_slots)
             k == First(free_sids)
             m == Welcome(k)
  <2>1. conf.slots \in Slot
    BY ConfTypes DEF TypeOK
  <2>2. i \in Slot /\ ~used(i)
    <3>1. free_slots \in SUBSET Nat /\ free_slots \subseteq Slot
      BY <2>1, SizeFacts DEF free_slots, Slot
    <3> QED BY <3>1, <1>4, FirstIsIn DEF slot_found, free_slots
  <2>3. k \in Sid
    BY <1>4, Alloc DEF TypeOK, Table
  <2>4. sess' = [sess EXCEPT ![i] = Opened(h, k)]
    BY <1>4 DEF sess_alloc
  <2> HIDE DEF i, k
  <2>5. Has(sess', h, k)
    BY <2>2, <2>4 DEF Has, Opened, TypeOK
  <2>6. \A x \in Host : \A n : Has(sess, x, n) => Has(sess', x, n)
    BY <2>2, <2>4, NameAssumption DEF Has, used, TypeOK
  <2>7. m \in Down
    BY <2>3, SizeFacts DEF Down, Welcome, Sid
  <2>8. toHost' = Say(toHost, h, m)
    BY <1>4 DEF Welcome, k
  <2>9. \A n \in 0 .. MaxSid : m = Welcome(n) => Has(sess', h, n)
    BY <2>5, <1>2
  <2> HIDE DEF m
  <2> QED BY <1>1, <2>6, <2>7, <2>8, <2>9, BeliefsSaid
<1>5. CASE UNCHANGED <<toHost, sess>>
  BY <1>1, <1>5, BeliefsStay
<1> QED BY <1>3, <1>4, <1>5 DEF AcPadr

\* Only the session of that id goes, and who believes in it becomes an orphan.
LEMMA BeliefsPadt == ASSUME TypeOK, Beliefs, NEW h \in Host, AcPadt(h) PROVE Beliefs'
<1> DEFINE n == Head(toAc[h]).sid
           S == sess_by_sid(n)
           i == First(S)
<1>1. UNCHANGED <<hst, sid, toHost>>
  BY DEF AcPadt, hostVars
<1>2. CASE S = {}
  BY <1>1, <1>2, BeliefsStay DEF AcPadt
<1>3. CASE S # {}
  <2>1. i \in Slot /\ i \in S
    BY <1>3, SlotOf DEF sess_by_sid
  <2>2. sess[i].sid = n
    BY <2>1 DEF sess_by_sid
  <2>3. sess' = [sess EXCEPT ![i] = Unused] /\ orphan' = orphan \cup {x \in {sess[i].cmac} : Believes(x, n)}
    BY <1>3 DEF AcPadt, sess_free
  <2> SUFFICES ASSUME NEW x \in Host PROVE Sure(x, sess', toHost[x], hst[x], sid[x], orphan')
    BY <1>1 DEF Beliefs
  <2>4. Sure(x, sess, toHost[x], hst[x], sid[x], orphan)
    BY DEF Beliefs
  <2> HIDE DEF n, S, i
  <2>5. \A k : Has(sess, x, k) => Has(sess', x, k) \/ (x = sess[i].cmac /\ k = n)
    BY <2>1, <2>2, <2>3 DEF Has, TypeOK
  <2>6. CASE x = sess[i].cmac /\ ~Believes(x, n)
    <3>1. hst[x] = "up" => sid[x] # n
      BY <2>6 DEF Believes
    <3>2. \A k \in DOMAIN toHost[x] : toHost[x][k] # Welcome(n)
      BY <2>6 DEF Believes, Welcome
    <3>3. orphan \subseteq orphan'
      BY <2>3
    <3> QED BY <3>1, <3>2, <3>3, <2>4, <2>5 DEF Sure, Backed
  <2>7. CASE x # sess[i].cmac \/ Believes(x, n)
    <3>1. x \in orphan \/ x = sess[i].cmac => x \in orphan'
      BY <2>3, <2>7
    <3> QED BY <3>1, <2>4, <2>5, SureStays
  <2> QED BY <2>6, <2>7
<1> QED BY <1>2, <1>3

LEMMA HasKept ==
    ASSUME \A i \in Slot : sess'[i].cmac = sess[i].cmac /\ sess'[i].sid = sess[i].sid
    PROVE  \A x \in Host : \A n : Has(sess, x, n) => Has(sess', x, n)
BY DEF Has

\* Frames of a session: no PADS among the answers, no session lost.
LEMMA BeliefsInner == ASSUME TypeOK, Beliefs, NEW h \in Host, AcInner(h) PROVE Beliefs'
<1>1. UNCHANGED <<hst, sid, orphan>>
  BY DEF AcInner, hostVars
<1>2. \A x \in Host : \A n : Has(sess, x, n) => Has(sess', x, n)
  BY InnerTakes, HasKept
<1>3. CASE toHost' = toHost
  BY <1>1, <1>2, <1>3, BeliefsStay
<1>4. ASSUME NEW j \in Slot, NEW f \in Down, used(j), f.type \in {"data", "ndreply"}, toHost' = ac_session_send(j, f) PROVE Beliefs'
  <2>1. sess[j].cmac \in Host
    BY <1>4, SessTypes DEF used
  <2>2. \A n : f # Welcome(n)
    BY <1>4 DEF Welcome
  <2> QED BY <1>1, <1>2, <1>4, <2>1, <2>2, BeliefsSaid DEF ac_session_send
<1> QED BY <1>3, <1>4, DispatchShape

\* The session of an idle host goes, and the PADT that says so is the last on its wire.
LEMMA BeliefsReap == ASSUME TypeOK, Beliefs, NEW i \in Slot, Reap(i) PROVE Beliefs'
<1> DEFINE c == sess[i].cmac
           m == Bye(sess[i].sid)
<1>1. c \in Host /\ m \in Down
  BY SessTypes DEF Reap, used, Down, Bye
<1>2. toHost' = Say(toHost, c, m) /\ sess' = [sess EXCEPT ![i] = Unused] /\ UNCHANGED <<hst, sid, orphan>>
  BY DEF Reap, ac_session_send, Bye, sess_free, hostVars
<1>3. \A x \in Host : \A n : Has(sess, x, n) => Has(sess', x, n) \/ (x = c /\ m = Bye(n))
  BY <1>2 DEF Has, TypeOK
<1>4. \A n : m # Welcome(n)
  BY DEF Bye, Welcome
<1> HIDE DEF c, m
<1> QED BY <1>1, <1>2, <1>3, <1>4, BeliefsSaid

LEMMA BeliefsOther ==
    ASSUME TypeOK, Beliefs,
           \/ \E d \in Addr \cup Host : Island(d)
           \/ \E i \in Slot : Quiet(i) \/ Reap(i)
           \/ Restart \/ (\E S \in SUBSET Host : Edit(S)) \/ \E a \in Addr, h \in Host : Lease(a, h)
    PROVE  Beliefs'
<1>1. ASSUME NEW d \in Addr \cup Host, Island(d) PROVE Beliefs'
  <2> DEFINE S == IF d \in Host THEN sess_by_wmac(d) ELSE sess_by_addr(sess, d)
             m == [type |-> "data", sid |-> sess[First(S)].sid, dst |-> d]
  <2>1. S # {} /\ toHost' = ac_session_send(First(S), m) /\ UNCHANGED <<sess, hst, sid, orphan>>
    BY <1>1 DEF Island, acVars, hostVars
  <2>2. S \subseteq Slot /\ \A i \in S : used(i)
    BY DEF sess_by_wmac, sess_by_addr, used
  <2> HIDE DEF S
  <2>3. First(S) \in Slot /\ used(First(S))
    BY <2>1, <2>2, SlotOf
  <2>4. sess[First(S)].cmac \in Host /\ m \in Down
    BY <2>3, SessTypes DEF Down, used
  <2>5. \A n : m # Welcome(n)
    BY DEF Welcome
  <2> HIDE DEF m
  <2> QED BY <2>1, <2>4, <2>5, BeliefsSaid DEF ac_session_send
<1>2. ASSUME NEW i \in Slot, Quiet(i) PROVE Beliefs'
  <2>1. sess' = [sess EXCEPT ![i].idle = TRUE] /\ UNCHANGED <<hst, sid, toHost, orphan>>
    BY <1>2 DEF Quiet, hostVars, wires
  <2>2. \A j \in Slot : sess'[j].cmac = sess[j].cmac /\ sess'[j].sid = sess[j].sid
    BY <2>1 DEF TypeOK, Session
  <2> QED BY <2>1, <2>2, HasKept, BeliefsStay
<1>3. CASE Restart
  <2>1. \A x \in Host : \A n : Has(sess, x, n) => x \in orphan'
    BY <1>3, NameAssumption DEF Restart, Has, used
  <2> QED BY <1>3, <2>1, BeliefsStay DEF Restart, hostVars, wires
<1>4. ASSUME (\E S \in SUBSET Host : Edit(S)) \/ \E a \in Addr, h \in Host : Lease(a, h) PROVE Beliefs'
  <2>1. UNCHANGED <<sess, hst, sid, toHost, orphan>>
    BY <1>4 DEF Edit, Lease, acVars, hostVars, wires
  <2> QED BY <2>1, BeliefsStay
<1> QED BY <1>1, <1>2, <1>3, <1>4, BeliefsReap

LEMMA BeliefsStep == ASSUME TypeOK, Beliefs, [Next]_vars PROVE Beliefs'
<1>1. TypeOK'
  BY StepKeeps
<1>2. CASE UNCHANGED vars
  BY <1>2, BeliefsStay DEF vars, acVars, hostVars, wires
<1>3. CASE Next
  <2>1. ASSUME NEW h \in Host, AcTakes(h) PROVE Beliefs'
    <3>1. CASE AcPadi(h)
      <4> DEFINE m == [type |-> "PADO"]
      <4>1. m \in Down /\ \A n : m # Welcome(n)
        BY DEF Down, Welcome
      <4>2. toHost' = Say(toHost, h, m) /\ UNCHANGED <<sess, hst, sid, orphan>>
        BY <3>1 DEF AcPadi, acVars, hostVars
      <4> HIDE DEF m
      <4> QED BY <4>1, <4>2, BeliefsSaid
    <3>2. CASE AcRefuse(h) \/ AcStray(h)
      <4>1. UNCHANGED <<sess, hst, sid, toHost, orphan>>
        BY <3>2 DEF AcRefuse, AcStray, acVars, hostVars
      <4> QED BY <4>1, BeliefsStay
    <3> QED BY <2>1, <3>1, <3>2, BeliefsPadr, BeliefsPadt, BeliefsInner DEF AcTakes
  <2>2. ASSUME NEW h \in Host, NEW kind, NEW s, NEW d, Inner(h, kind, s, d) PROVE Beliefs'
    <3>1. UNCHANGED <<sess, hst, sid, toHost, orphan>>
      BY <2>2 DEF Inner, acVars, hostVars
    <3> QED BY <3>1, BeliefsStay
  <2> QED BY <1>1, <1>3, <2>1, <2>2, BeliefsHost, BeliefsDial, BeliefsOther DEF Next
<1> QED BY <1>2, <1>3

\* A host that is up has its session, is being told that it is gone, or is an orphan: its PADT
\* was lost, the AC was restarted, or a late PADT closed the session.  For any number of hosts
\* and sessions and any loss, delay, crash and restart.
THEOREM Believers == Spec => []UpHasSession
<1>1. Init => TypeOK /\ Beliefs
  <2> SUFFICES ASSUME Init PROVE Beliefs
    BY TypeInit
  <2>1. \A h \in Host : hst[h] = "off" /\ toHost[h] = <<>>
    BY DEF Init
  <2> QED BY <2>1 DEF Beliefs, Sure
<1>2. TypeOK /\ Beliefs /\ [Next]_vars => TypeOK' /\ Beliefs'
  BY StepKeeps, BeliefsStep
<1> QED BY <1>1, <1>2, BeliefsGive, PTL DEF Spec

-----------------------------------------------------------------------------
(* Isolation.  While no lease changes hands: a frame on its way to the AC     *)
(* claims only addresses of its sender, so a session learns only addresses    *)
(* of its host, and what is on its way to a host was meant for it.            *)

Rightful(T, o) ==
    \A i \in Slot : T[i].cmac # NoHost =>
        /\ T[i].wmac \in {NoHost, T[i].cmac}
        /\ T[i].addr # NoAddr => T[i].cmac = o[T[i].addr] /\ T[i].wmac = T[i].cmac
RightUp(h, o) ==
    {m \in Up : m.type \in {"discover", "request", "nd", "uni"} =>
                    (m.src # NoAddr => o[m.src] = h) /\ (m.type = "request" => m.dst # NoAddr /\ o[m.dst] = h)}
RightDown(h, o) ==
    {m \in Down : /\ m.type = "data" => h = IF m.dst \in Host THEN m.dst ELSE o[m.dst]
                  /\ m.type = "ndreply" => m.mac = o[m.dst]}
WiresRight(a, b, o) == \A x \in Host : a[x] \in Seq(RightUp(x, o)) /\ b[x] \in Seq(RightDown(x, o))
Isolated == owner[AcAddr] = NoHost /\ (edits = 0 => Rightful(sess, owner) /\ WiresRight(toAc, toHost, owner))

LEMMA IsolatedGives == TypeOK /\ Isolated => Isolation
<1> SUFFICES ASSUME TypeOK, Isolated, edits = 0 PROVE Isolation
  BY DEF Isolation
<1>1. ASSUME NEW a \in Addr, NEW i \in sess_by_addr(sess, a) PROVE sess[i].cmac = owner[a] /\ sess[i].wmac = owner[a]
  BY <1>1 DEF Isolated, Rightful, sess_by_addr
<1>2. ASSUME NEW h \in Host, NEW k \in DOMAIN toHost[h] PROVE toHost[h][k] \in RightDown(h, owner)
  BY <1>2 DEF Isolated, WiresRight
<1> QED BY <1>1, <1>2 DEF Isolation, RightDown

LEMMA SaidIn ==
    ASSUME NEW S, NEW q \in [Host -> Seq(S)], NEW h \in Host, NEW m, NEW x \in Host, NEW R, q[x] \in Seq(R), x = h => m \in R
    PROVE  Say(q, h, m)[x] \in Seq(R)
BY DEF Say

LEMMA GotIn ==
    ASSUME NEW S, NEW q \in [Host -> Seq(S)], NEW h \in Host, q[h] # <<>>, NEW x \in Host, NEW R, q[x] \in Seq(R)
    PROVE  Got(q, h)[x] \in Seq(R) /\ (x = h => Head(q[h]) \in R)
BY DEF Got

\* The wires after a step: as they were, with a right frame more, or with a frame less.
SaysUp(h) == toAc' = toAc \/ (toAc[h] # <<>> /\ toAc' = Got(toAc, h)) \/ \E m \in RightUp(h, owner) : toAc' = Say(toAc, h, m)
SaysDown(h) == toHost' = toHost \/ (toHost[h] # <<>> /\ toHost' = Got(toHost, h)) \/ \E m \in RightDown(h, owner) : toHost' = Say(toHost, h, m)

LEMMA IsolatedStays ==
    ASSUME TypeOK, Isolated, UNCHANGED <<owner, edits>>, NEW h \in Host, NEW g \in Host,
           edits = 0 => Rightful(sess', owner) /\ SaysUp(h) /\ SaysDown(g)
    PROVE  Isolated'
<1>1. SUFFICES ASSUME edits = 0 PROVE WiresRight(toAc', toHost', owner)
  BY DEF Isolated
<1>2. WiresRight(toAc, toHost, owner) /\ SaysUp(h) /\ SaysDown(g)
  BY <1>1 DEF Isolated
<1> SUFFICES ASSUME NEW x \in Host PROVE toAc'[x] \in Seq(RightUp(x, owner)) /\ toHost'[x] \in Seq(RightDown(x, owner))
  BY DEF WiresRight
<1>3. toAc \in [Host -> Seq(Up)] /\ toHost \in [Host -> Seq(Down)]
  BY DEF TypeOK
<1>4. toAc[x] \in Seq(RightUp(x, owner)) /\ toHost[x] \in Seq(RightDown(x, owner))
  BY <1>2 DEF WiresRight
<1>5. toAc'[x] \in Seq(RightUp(x, owner))
  BY <1>2, <1>3, <1>4, SaidIn, GotIn DEF SaysUp
<1>6. toHost'[x] \in Seq(RightDown(x, owner))
  BY <1>2, <1>3, <1>4, SaidIn, GotIn DEF SaysDown
<1> QED BY <1>5, <1>6

LEMMA RightControl ==
    ASSUME NEW h \in Host
    PROVE  /\ \A m \in Up : m.type \in {"PADI", "PADR", "PADT"} => m \in RightUp(h, owner)
           /\ \A m \in Down : m.type \in {"PADO", "PADS", "PADT"} => m \in RightDown(h, owner)
BY DEF RightUp, RightDown

\* What hosts do of their own accord, and what is lost.
LEMMA IsolatedHost ==
    ASSUME TypeOK, Isolated, NEW h \in Host,
           Dial(h) \/ HostTakes(h) \/ Quit(h) \/ Timeout(h) \/ Crash(h) \/ LoseUp(h) \/ LoseDown(h)
    PROVE  Isolated'
<1>1. UNCHANGED <<owner, edits, sess>>
  BY DEF Dial, HostTakes, Pado, Pads, Padt, Other, Quit, Timeout, Crash, LoseUp, LoseDown, acVars
<1>2. \A n \in {"PADI", "PADR"} : [type |-> n] \in RightUp(h, owner)
  BY RightControl DEF Up
<1>3. [type |-> "PADT", sid |-> sid[h]] \in RightUp(h, owner)
  <2>1. [type |-> "PADT", sid |-> sid[h]] \in Up
    BY DEF Up, TypeOK
  <2> QED BY <2>1, RightControl
<1>4. SaysUp(h)
  BY <1>2, <1>3 DEF SaysUp, Dial, HostTakes, Pado, Pads, Padt, Other, Quit, Timeout, Crash, LoseUp, LoseDown, wires
<1>5. SaysDown(h)
  BY DEF SaysDown, Dial, HostTakes, Pado, Pads, Padt, Other, Quit, Timeout, Crash, LoseUp, LoseDown, wires
<1> QED BY <1>1, <1>4, <1>5, IsolatedStays DEF Isolated

\* A frame of the TAP claims an address the host has.
LEMMA IsolatedTap ==
    ASSUME TypeOK, Isolated, NEW h \in Host, NEW kind \in {"discover", "request", "nd", "uni"}, NEW s \in Addr \cup {NoAddr},
           NEW d \in Addr \cup {NoAddr}, Inner(h, kind, s, d)
    PROVE  Isolated'
<1> DEFINE m == [type |-> kind, sid |-> sid[h], src |-> s, dst |-> d]
<1>1. m \in Up
  BY DEF Up, TypeOK
<1>2. (s # NoAddr => owner[s] = h) /\ (kind = "request" => d # NoAddr /\ owner[d] = h)
  BY DEF Inner
<1>3. m \in RightUp(h, owner)
  BY <1>1, <1>2 DEF RightUp
<1>4. toAc' = Say(toAc, h, m) /\ UNCHANGED <<toHost, owner, edits, sess>>
  BY DEF Inner, acVars
<1> HIDE DEF m
<1> QED BY <1>3, <1>4, IsolatedStays DEF Isolated, SaysUp, SaysDown

LEMMA RightfulFree == ASSUME TypeOK, NEW i \in Slot, Rightful(sess, owner) PROVE Rightful(sess_free(i), owner)
<1>1. \A j \in Slot : sess_free(i)[j] = IF j = i THEN Unused ELSE sess[j]
  BY DEF sess_free, TypeOK
<1> QED BY <1>1 DEF Rightful, Unused

\* A slot's next session knows no MAC and no address.
LEMMA RightfulAlloc == ASSUME TypeOK, NEW h \in Host, Rightful(sess, owner) PROVE Rightful(sess_alloc(h), owner)
<1> DEFINE e == Opened(h, First(free_sids))
<1>1. \A j \in Slot : sess_alloc(h)[j] = IF j = First(free_slots) THEN e ELSE sess[j]
  BY DEF sess_alloc, TypeOK
<1>2. e.wmac = NoHost /\ e.addr = NoAddr
  BY DEF Opened
<1> HIDE DEF e
<1> QED BY <1>1, <1>2 DEF Rightful

\* ac_inner: a session learns its own host's MAC and address, and what it sends is right.
LEMMA IsolatedInner == ASSUME TypeOK, Isolated, NEW h \in Host, AcInner(h) PROVE Isolated'
<1>1. UNCHANGED <<owner, edits>> /\ toAc' = Got(toAc, h)
  BY DEF AcInner
<1>2. CASE edits # 0
  BY <1>1, <1>2 DEF Isolated
<1>3. CASE edits = 0
  <2> DEFINE m == Head(toAc[h])
             i == First(sess_by_cmac(h))
             T == [sess EXCEPT ![i] = Learn(sess[i], h, m)]
             to == {j \in sess_by_addr(T, m.dst) : j = First(sess_by_addr(T, m.dst)) /\ j # i}
  <2>1. /\ toAc[h] # <<>> /\ m \in Up /\ m.type \in {"discover", "request", "nd", "uni"}
        /\ m.src \in Addr \cup {NoAddr} /\ m.dst \in Addr \cup {NoAddr}
        /\ i \in Slot /\ used(i) /\ sess[i].cmac = h /\ sess' = T /\ Dispatch(h)
    BY InnerTakes
  <2>2. Rightful(sess, owner) /\ WiresRight(toAc, toHost, owner) /\ owner[AcAddr] = NoHost
    BY <1>3 DEF Isolated
  <2>3. m \in RightUp(h, owner)
    BY <2>1, <2>2, GotIn DEF WiresRight, TypeOK
  <2>4. \/ toHost' = toHost
        \/ m.type = "nd" /\ m.dst = AcAddr
           /\ toHost' = ac_session_send(i, [type |-> "ndreply", sid |-> sess[i].sid, dst |-> AcAddr, mac |-> NoHost])
        \/ \E j \in to :
              \/ m.type = "nd"
                 /\ toHost' = ac_session_send(i, [type |-> "ndreply", sid |-> sess[i].sid, dst |-> m.dst, mac |-> sess[j].wmac])
              \/ m.type = "uni"
                 /\ toHost' = ac_session_send(j, [type |-> "data", sid |-> sess[j].sid, dst |-> m.dst])
    BY <2>1 DEF Dispatch
  <2>5. Learn(sess[i], h, m).cmac = sess[i].cmac
    BY <2>1, LearnTypes, SessTypes
  <2> HIDE DEF m, i
  <2>6. \A j \in to : j \in Slot /\ used(j) /\ sess[j].addr = m.dst /\ m.dst \in Addr
    <3> SUFFICES ASSUME NEW j \in to PROVE j \in Slot /\ used(j) /\ sess[j].addr = m.dst /\ m.dst \in Addr
      OBVIOUS
    <3>1. i \in Slot /\ m.dst \in Addr \cup {NoAddr}
      BY <2>1
    <3> QED BY <3>1, <2>5, FoundOther
  <2>7. Rightful(sess', owner)
    <3> DEFINE e == Learn(sess[i], h, m)
    <3>1. e.wmac = h /\ e.addr = IF m.type = "request" THEN m.dst ELSE IF m.src # NoAddr THEN m.src ELSE sess[i].addr
      BY <2>1, SessTypes DEF Learn, Session
    <3>2. e.addr # NoAddr => owner[e.addr] = h
      BY <3>1, <2>1, <2>2, <2>3 DEF RightUp, Rightful, used
    <3>3. \A j \in Slot : T[j] = IF j = i THEN e ELSE sess[j]
      BY <2>1 DEF TypeOK
    <3>4. e.cmac = h
      BY <2>1, <2>5
    <3> HIDE DEF e, T
    <3> QED BY <3>1, <3>2, <3>3, <3>4, <2>1, <2>2 DEF Rightful
  <2>8. \E g \in Host : SaysDown(g)
    <3> HIDE DEF to
    <3>1. CASE toHost' = toHost
      BY <3>1 DEF SaysDown
    <3>2. CASE m.type = "nd" /\ m.dst = AcAddr
               /\ toHost' = ac_session_send(i, [type |-> "ndreply", sid |-> sess[i].sid, dst |-> AcAddr, mac |-> NoHost])
      <4> DEFINE f == [type |-> "ndreply", sid |-> sess[i].sid, dst |-> AcAddr, mac |-> NoHost]
      <4>1. f \in RightDown(h, owner)
        BY <2>1, <2>2, SessTypes, NameAssumption DEF Down, RightDown
      <4>2. toHost' = Say(toHost, h, f)
        BY <2>1, <3>2 DEF ac_session_send
      <4> HIDE DEF f
      <4> QED BY <4>1, <4>2 DEF SaysDown
    <3>3. ASSUME NEW j \in to,
                 toHost' = ac_session_send(i, [type |-> "ndreply", sid |-> sess[i].sid, dst |-> m.dst, mac |-> sess[j].wmac])
          PROVE  SaysDown(h)
      <4> DEFINE f == [type |-> "ndreply", sid |-> sess[i].sid, dst |-> m.dst, mac |-> sess[j].wmac]
      <4>1. sess[j].wmac = owner[m.dst]
        BY <2>2, <2>6, NameAssumption DEF Rightful, used
      <4>2. f \in Down
        BY <2>1, <2>6, SessTypes DEF Down
      <4>3. f \in RightDown(h, owner)
        BY <4>1, <4>2 DEF RightDown
      <4>4. toHost' = Say(toHost, h, f)
        BY <2>1, <3>3 DEF ac_session_send
      <4> HIDE DEF f
      <4> QED BY <4>3, <4>4 DEF SaysDown
    <3>4. ASSUME NEW j \in to, toHost' = ac_session_send(j, [type |-> "data", sid |-> sess[j].sid, dst |-> m.dst])
          PROVE  \E g \in Host : SaysDown(g)
      <4> DEFINE f == [type |-> "data", sid |-> sess[j].sid, dst |-> m.dst]
                 g == sess[j].cmac
      <4>1. g = owner[m.dst] /\ g \in Host
        BY <2>2, <2>6, NameAssumption, SessTypes DEF Rightful, used
      <4>2. f \in Down
        BY <2>6, SessTypes DEF Down
      <4>3. f \in RightDown(g, owner)
        BY <4>1, <4>2, <2>6, NameAssumption DEF RightDown
      <4>4. toHost' = Say(toHost, g, f)
        BY <3>4 DEF ac_session_send
      <4> HIDE DEF f, g
      <4> QED BY <4>1, <4>3, <4>4 DEF SaysDown
    <3> QED BY <2>4, <3>1, <3>2, <3>3, <3>4
  <2>9. SaysUp(h)
    BY <1>1, <2>1 DEF SaysUp
  <2> QED BY <1>1, <2>7, <2>8, <2>9, IsolatedStays
<1> QED BY <1>2, <1>3

LEMMA IsolatedAc == ASSUME TypeOK, Isolated, NEW h \in Host, AcTakes(h) PROVE Isolated'
<1>1. CASE AcInner(h)
  BY <1>1, IsolatedInner
<1>2. CASE AcPadi(h) \/ AcPadr(h) \/ AcRefuse(h) \/ AcPadt(h) \/ AcStray(h)
  <2>1. UNCHANGED <<owner, edits>> /\ SaysUp(h)
    BY <1>2 DEF AcPadi, AcPadr, AcRefuse, AcPadt, AcStray, Arrives, SaysUp
  <2>2. ASSUME Rightful(sess, owner) PROVE Rightful(sess', owner)
    <3>1. CASE AcPadt(h)
      <4>1. \A S \in SUBSET Slot : S # {} => First(S) \in Slot
        BY SlotOf
      <4> QED BY <2>2, <3>1, <4>1, RightfulFree DEF AcPadt, sess_by_sid
    <3>2. CASE AcPadr(h)
      BY <2>2, <3>2, RightfulAlloc DEF AcPadr
    <3> QED BY <1>2, <2>2, <3>1, <3>2 DEF AcPadi, AcRefuse, AcStray, acVars
  <2>3. SaysDown(h)
    <3>1. TypeOK'
      BY <1>2, AcTypes DEF AcTakes
    <3>2. CASE AcPadi(h)
      <4>1. [type |-> "PADO"] \in RightDown(h, owner)
        BY RightControl DEF Down
      <4> QED BY <3>2, <4>1 DEF AcPadi, SaysDown
    <3>3. CASE AcPadr(h)
      <4>1. ASSUME NEW n \in 0 .. MaxSid PROVE [type |-> "PADS", sid |-> n] \in RightDown(h, owner)
        <5>1. [type |-> "PADS", sid |-> n] \in Down
          BY DEF Down
        <5> QED BY <5>1, RightControl
      <4>2. sess_by_cmac(h) # {} => sess[First(sess_by_cmac(h))].sid \in 0 .. MaxSid
        BY SlotOf, SessTypes DEF sess_by_cmac
      <4>3. sess_by_cmac(h) = {} /\ slot_found => First(free_sids) \in 0 .. MaxSid
        BY Alloc, SizeFacts DEF TypeOK, Table, Sid
      <4> QED BY <3>3, <4>1, <4>2, <4>3 DEF AcPadr, SaysDown
    <3> QED BY <1>2, <3>2, <3>3 DEF AcRefuse, AcPadt, AcStray, SaysDown
  <2> QED BY <2>1, <2>2, <2>3, IsolatedStays DEF Isolated
<1> QED BY <1>1, <1>2 DEF AcTakes

LEMMA IsolatedOther ==
    ASSUME TypeOK, Isolated,
           \/ \E d \in Addr \cup Host : Island(d)
           \/ \E i \in Slot : Quiet(i) \/ Reap(i)
           \/ Restart \/ (\E S \in SUBSET Host : Edit(S)) \/ \E a \in Addr, h \in Host : Lease(a, h)
    PROVE  Isolated'
<1>1. ASSUME NEW d \in Addr \cup Host, Island(d) PROVE Isolated'
  <2> DEFINE S == IF d \in Host THEN sess_by_wmac(d) ELSE sess_by_addr(sess, d)
             j == First(S)
             m == [type |-> "data", sid |-> sess[j].sid, dst |-> d]
             g == sess[j].cmac
  <2>1. S # {} /\ toHost' = Say(toHost, g, m) /\ UNCHANGED <<sess, toAc, owner, edits>>
    BY <1>1 DEF Island, acVars, ac_session_send
  <2>2. S \subseteq Slot /\ \A i \in S : used(i) /\ (d \in Host => sess[i].wmac = d) /\ (d \notin Host => sess[i].addr = d /\ d # NoAddr)
    BY DEF sess_by_wmac, sess_by_addr, used
  <2> HIDE DEF S
  <2>3. j \in S /\ j \in Slot
    BY <2>1, <2>2, SlotOf
  <2> HIDE DEF j
  <2>4. g \in Host /\ m \in Down
    BY <2>2, <2>3, SessTypes DEF Down, used
  <2>5. edits = 0 => g = IF d \in Host THEN d ELSE owner[d]
    BY <2>2, <2>3, NameAssumption DEF Isolated, Rightful, used
  <2>6. edits = 0 => m \in RightDown(g, owner)
    BY <2>4, <2>5 DEF RightDown
  <2>7. edits = 0 => SaysDown(g)
    <3> HIDE DEF m, g
    <3> QED BY <2>1, <2>6 DEF SaysDown
  <2> HIDE DEF m, g
  <2> QED BY <2>1, <2>4, <2>7, IsolatedStays DEF Isolated, SaysUp
<1>2. ASSUME NEW i \in Slot, Quiet(i) PROVE Isolated'
  <2>1. sess' = [sess EXCEPT ![i].idle = TRUE] /\ UNCHANGED <<toAc, toHost, owner, edits>>
    BY <1>2 DEF Quiet, wires
  <2>2. \A j \in Slot : sess'[j].cmac = sess[j].cmac /\ sess'[j].wmac = sess[j].wmac /\ sess'[j].addr = sess[j].addr
    BY <2>1 DEF TypeOK, Session
  <2>3. Rightful(sess, owner) => Rightful(sess', owner)
    BY <2>2 DEF Rightful
  <2>4. sess[i].cmac \in Host
    BY <1>2, SessTypes DEF Quiet, used
  <2> QED BY <2>1, <2>3, <2>4, IsolatedStays DEF Isolated, SaysUp, SaysDown
<1>3. ASSUME NEW i \in Slot, Reap(i) PROVE Isolated'
  <2> DEFINE g == sess[i].cmac
             m == [type |-> "PADT", sid |-> sess[i].sid]
  <2>1. toHost' = Say(toHost, g, m) /\ sess' = sess_free(i) /\ UNCHANGED <<toAc, owner, edits>>
    BY <1>3 DEF Reap, ac_session_send
  <2>2. g \in Host /\ m \in Down
    BY <1>3, SessTypes DEF Reap, used, Down
  <2>3. m \in RightDown(g, owner)
    BY <2>2, RightControl
  <2> HIDE DEF m, g
  <2> QED BY <2>1, <2>2, <2>3, RightfulFree, IsolatedStays DEF Isolated, SaysUp, SaysDown
<1>4. CASE Restart
  <2>1. UNCHANGED <<toAc, toHost, owner, edits>> /\ sess' = [i \in Slot |-> Unused]
    BY <1>4 DEF Restart, wires
  <2>2. Rightful(sess', owner)
    BY <2>1 DEF Rightful, Unused
  <2> QED BY <2>1, <2>2 DEF Isolated, WiresRight
<1>5. ASSUME (\E S \in SUBSET Host : Edit(S)) \/ \E a \in Addr, h \in Host : Lease(a, h) PROVE Isolated'
  <2>1. edits' = edits + 1 /\ owner'[AcAddr] = owner[AcAddr]
    BY <1>5, NameAssumption DEF Edit, Lease, TypeOK
  <2>2. edits' # 0
    BY <2>1 DEF TypeOK
  <2> QED BY <2>1, <2>2 DEF Isolated
<1> QED BY <1>1, <1>2, <1>3, <1>4, <1>5

LEMMA IsolatedStep == ASSUME TypeOK, Isolated, [Next]_vars PROVE Isolated'
<1>1. CASE UNCHANGED vars
  BY <1>1 DEF vars, acVars, wires, Isolated, Rightful, WiresRight
<1>2. CASE Next
  <2>1. ASSUME NEW h \in Host, NEW kind \in conf.kinds \ {"island"}, NEW s \in Addr \cup {NoAddr}, NEW d \in Addr \cup {NoAddr},
               Inner(h, kind, s, d)
        PROVE  Isolated'
    <3>1. kind \in {"discover", "request", "nd", "uni"}
      BY ConfAssumption DEF TypeOK, Conf
    <3> QED BY <3>1, <2>1, IsolatedTap
  <2> QED BY <1>2, <2>1, IsolatedHost, IsolatedAc, IsolatedOther DEF Next
<1> QED BY <1>1, <1>2

\* As long as no lease changes hands, the AC gives no host a frame for another, and no ND reply
\* that names the wrong wire MAC: for any number of hosts, sessions and addresses, through any
\* reuse of slots and ids and any loss, delay, crash and restart.
THEOREM Separate == Spec => []Isolation
<1>1. Init => TypeOK /\ Isolated
  <2> SUFFICES ASSUME Init PROVE Isolated
    BY TypeInit
  <2>1. owner[AcAddr] = NoHost
    BY ConfAssumption DEF Init
  <2>2. Rightful(sess, owner)
    BY DEF Init, Rightful, Unused
  <2>3. WiresRight(toAc, toHost, owner)
    BY DEF Init, WiresRight
  <2> QED BY <2>1, <2>2, <2>3 DEF Isolated
<1>2. TypeOK /\ Isolated /\ [Next]_vars => TypeOK' /\ Isolated'
  BY StepKeeps, IsolatedStep
<1> QED BY <1>1, <1>2, IsolatedGives, PTL DEF Spec
=============================================================================
