---------------------------- MODULE Dhcp69Proofs ----------------------------
(***************************************************************************)
(* Proofs about Dhcp69, for every number of clients, pool and table size,   *)
(* lease time, and whatever the network does.                               *)
(***************************************************************************)
EXTENDS Dhcp69, LeastProofs, FiniteSetTheorems, TLAPS

-----------------------------------------------------------------------------
(* The lease table.                                                          *)

Table == [Slot -> LeaseEntry]

\* OneLease and SharedOnlyIfRevived of a table.
One(T) == \A i, j \in Slot : T[i].used /\ T[j].used /\ T[i].mac = T[j].mac => i = j
Shared(T, rev) ==
    \A i, j \in Slot : live(T[i]) /\ live(T[j]) /\ T[i].addr = T[j].addr =>
        i = j \/ {T[i].mac, T[j].mac} \cap rev # {}

LEMMA EntryTypes ==
    ASSUME NEW T \in Table, NEW i \in Slot
    PROVE  /\ T[i] \in LeaseEntry /\ T[i].used \in BOOLEAN /\ T[i].left \in 0 .. Lease
           /\ T[i].addr \in Addr \cup {NoAddr} /\ T[i].mac \in Client \cup {NoMac}
<1>1. T[i] \in LeaseEntry
  BY DEF Table
<1> QED BY <1>1 DEF LeaseEntry

LEMMA ProbedInPool == \A c \in Client : \A k \in Nat : probed(c, k) \in Addr
BY PoolAssumption DEF probed, Pool, Addr

LEMMA LeaseOf ==
    ASSUME NEW T \in Table, NEW c \in Client, lease_find(T, c) # {}
    PROVE  lease_of(T, c) \in Slot /\ T[lease_of(T, c)].used /\ T[lease_of(T, c)].mac = c
<1>1. lease_find(T, c) \in SUBSET Nat
  BY SizeAssumption DEF lease_find, Slot
<1>2. lease_of(T, c) \in lease_find(T, c)
  BY <1>1, FirstIsIn DEF lease_of
<1> QED BY <1>2 DEF lease_find

\* What lease_alloc does: one slot is now the client's only lease, with a full term; it
\* was the client's before, or nobody's, and then its address is one no live lease has.
LEMMA Alloc ==
    ASSUME NEW T \in Table, NEW c \in Client, alloc_ok(T, c), One(T)
    PROVE  \E i \in Slot :
             LET U == lease_alloc(T, c) IN
             /\ U \in Table
             /\ U[i].used /\ U[i].mac = c /\ U[i].left = Lease
             /\ \A j \in Slot : j # i => U[j] = T[j] /\ ~(T[j].used /\ T[j].mac = c)
             /\ \/ i = lease_of(T, c) /\ lease_find(T, c) # {} /\ U[i].addr = T[i].addr
                \/ lease_find(T, c) = {} /\ ~lease_addr_taken(T, U[i].addr) /\ ~live(T[i])
<1>1. CASE lease_find(T, c) # {}
  <2> DEFINE i == lease_of(T, c)
             U == [T EXCEPT ![i].left = Lease]
  <2>1. i \in Slot /\ T[i].used /\ T[i].mac = c
    BY <1>1, LeaseOf
  <2>2. lease_alloc(T, c) = U
    BY <1>1 DEF lease_alloc
  <2>3. T[i] \in LeaseEntry
    BY <2>1, EntryTypes
  <2> HIDE DEF i
  <2>4. U[i] = [T[i] EXCEPT !.left = Lease] /\ \A j \in Slot : j # i => U[j] = T[j]
    BY <2>1 DEF Table
  <2>5. [T[i] EXCEPT !.left = Lease] \in LeaseEntry
    BY <2>3, SizeAssumption DEF LeaseEntry
  <2>6. U[i].used = T[i].used /\ U[i].mac = T[i].mac /\ U[i].addr = T[i].addr /\ U[i].left = Lease
    BY <2>3, <2>4 DEF LeaseEntry
  <2>7. U \in Table
    BY <2>4, <2>5 DEF Table
  <2>8. \A j \in Slot : j # i => ~(T[j].used /\ T[j].mac = c)
    BY <2>1 DEF One
  <2> HIDE DEF U
  <2> QED BY <2>1, <2>2, <2>4, <2>6, <2>7, <2>8, <1>1 DEF i
<1>2. CASE lease_find(T, c) = {}
  <2> DEFINE i == First(free_slots(T))
             k == First(free_probes(T, c))
             e == [used |-> TRUE, mac |-> c, addr |-> probed(c, k), left |-> Lease]
             U == [T EXCEPT ![i] = e]
  <2>1. i \in Slot /\ ~live(T[i])
    <3>1. free_slots(T) \in SUBSET Nat /\ free_slots(T) # {}
      BY <1>2, SizeAssumption DEF alloc_ok, free_slots, Slot
    <3>2. i \in free_slots(T)
      BY <3>1, FirstIsIn
    <3> QED BY <3>2 DEF free_slots
  <2>2. k \in Nat /\ ~lease_addr_taken(T, probed(c, k))
    <3>1. free_probes(T, c) \in SUBSET Nat /\ free_probes(T, c) # {}
      BY <1>2, SizeAssumption DEF alloc_ok, free_probes
    <3>2. k \in free_probes(T, c)
      BY <3>1, FirstIsIn
    <3> QED BY <3>1, <3>2 DEF free_probes
  <2>3. lease_alloc(T, c) = U
    BY <1>2 DEF lease_alloc
  <2>4. e \in LeaseEntry /\ e.used /\ e.mac = c /\ e.addr = probed(c, k) /\ e.left = Lease
    BY <2>2, ProbedInPool, SizeAssumption DEF LeaseEntry
  <2> HIDE DEF i, k, e
  <2>5. U[i] = e /\ (\A j \in Slot : j # i => U[j] = T[j]) /\ U \in Table
    BY <2>1, <2>4 DEF Table
  <2>6. \A j \in Slot : ~(T[j].used /\ T[j].mac = c)
    BY <1>2 DEF lease_find
  <2> HIDE DEF U
  <2> QED BY <2>1, <2>2, <2>3, <2>4, <2>5, <2>6, <1>2
<1> QED BY <1>1, <1>2

\* note_revival, as a relation between the old history and the new.
Noted(T, c, rev, new) ==
    new = IF lease_find(T, c) = {} THEN rev \ {c}
          ELSE IF live(T[lease_of(T, c)]) THEN rev ELSE rev \cup {c}

LEMMA AllocKeeps ==
    ASSUME NEW T \in Table, NEW c \in Client, alloc_ok(T, c), One(T),
           NEW rev, NEW new, Shared(T, rev), Noted(T, c, rev, new)
    PROVE  LET U == lease_alloc(T, c) IN
           U \in Table /\ One(U) /\ Shared(U, new) /\ lease_find(U, c) # {}
<1> DEFINE U == lease_alloc(T, c)
<1>1. PICK i \in Slot :
        /\ U \in Table
        /\ U[i].used /\ U[i].mac = c
        /\ \A j \in Slot : j # i => U[j] = T[j] /\ ~(T[j].used /\ T[j].mac = c)
        /\ \/ i = lease_of(T, c) /\ lease_find(T, c) # {} /\ U[i].addr = T[i].addr
           \/ lease_find(T, c) = {} /\ ~lease_addr_taken(T, U[i].addr)
  BY Alloc
<1> HIDE DEF U
<1>2. One(U)
  BY <1>1 DEF One
<1>3. lease_find(U, c) # {}
  BY <1>1 DEF lease_find
<1>4. Shared(U, new)
  <2> SUFFICES ASSUME NEW j \in Slot, NEW l \in Slot, live(U[j]), live(U[l]), U[j].addr = U[l].addr, j # l
               PROVE  {U[j].mac, U[l].mac} \cap new # {}
    BY DEF Shared
  <2>1. CASE j # i /\ l # i
    <3>1. {T[j].mac, T[l].mac} \cap rev # {} /\ T[j].mac # c /\ T[l].mac # c
      BY <2>1, <1>1 DEF Shared, live
    <3> QED BY <3>1, <2>1, <1>1 DEF Noted
  <2>2. ASSUME NEW o \in Slot, o # i, live(U[o]), U[o].addr = U[i].addr
        PROVE  {U[o].mac, U[i].mac} \cap new # {}
    <3>1. live(T[o]) /\ T[o].addr = U[i].addr /\ T[o].mac = U[o].mac
      BY <2>2, <1>1
    <3>2. i = lease_of(T, c) /\ lease_find(T, c) # {} /\ U[i].addr = T[i].addr
      BY <3>1, <1>1 DEF lease_addr_taken
    <3>3. CASE live(T[i])
      <4>1. T[i].mac = c
        BY <3>2, LeaseOf
      <4>2. {T[o].mac, T[i].mac} \cap rev # {}
        BY <3>1, <3>2, <3>3, <2>2 DEF Shared
      <4> QED BY <4>1, <4>2, <3>1, <3>2, <3>3, <1>1 DEF Noted
    <3>4. CASE ~live(T[i])
      BY <3>2, <3>4, <1>1 DEF Noted
    <3> QED BY <3>3, <3>4
  <2> QED BY <2>1, <2>2
<1> QED BY <1>1, <1>2, <1>3, <1>4 DEF U

\* A REQUEST that is granted moves the client's lease to an address no live lease has.
LEMMA MoveKeeps ==
    ASSUME NEW U \in Table, NEW c \in Client, One(U), lease_find(U, c) # {},
           NEW rev, Shared(U, rev), NEW a \in Addr \cup {NoAddr},
           a = U[lease_of(U, c)].addr \/ ~lease_addr_taken(U, a)
    PROVE  LET V == [U EXCEPT ![lease_of(U, c)].addr = a] IN
           V \in Table /\ One(V) /\ Shared(V, rev)
<1> DEFINE i == lease_of(U, c)
           V == [U EXCEPT ![i].addr = a]
<1>1. i \in Slot /\ U[i] \in LeaseEntry
  BY LeaseOf, EntryTypes
<1> HIDE DEF i
<1>2. V[i] = [U[i] EXCEPT !.addr = a] /\ \A j \in Slot : j # i => V[j] = U[j]
  BY <1>1 DEF Table
<1>3. V[i] \in LeaseEntry /\ V[i].used = U[i].used /\ V[i].mac = U[i].mac /\ V[i].addr = a /\ V[i].left = U[i].left
  BY <1>1, <1>2 DEF LeaseEntry
<1>4. V \in Table
  BY <1>2, <1>3 DEF Table
<1> HIDE DEF V
<1>5. One(V)
  <2>1. \A j \in Slot : (V[j].used => U[j].used) /\ V[j].mac = U[j].mac
    BY <1>2, <1>3
  <2> QED BY <2>1 DEF One
<1>6. \A j \in Slot : live(V[j]) <=> live(U[j])
  BY <1>2, <1>3 DEF live
<1>7. a = U[i].addr \/ ~lease_addr_taken(U, a)
  BY DEF i
<1>8. Shared(V, rev)
  <2> SUFFICES ASSUME NEW j \in Slot, NEW l \in Slot, live(V[j]), live(V[l]), V[j].addr = V[l].addr, j # l
               PROVE  {V[j].mac, V[l].mac} \cap rev # {}
    BY DEF Shared
  <2>1. CASE j # i /\ l # i
    BY <2>1, <1>2 DEF Shared
  <2>2. ASSUME NEW o \in Slot, o # i, live(V[o]), live(V[i]), V[o].addr = V[i].addr
        PROVE  {V[o].mac, V[i].mac} \cap rev # {}
    <3>1. live(U[o]) /\ live(U[i]) /\ U[o].addr = a /\ U[o].mac = V[o].mac
      BY <2>2, <1>1, <1>2, <1>3, <1>6
    <3>2. a = U[i].addr
      BY <3>1, <1>7 DEF lease_addr_taken
    <3> QED BY <3>1, <3>2, <2>2, <1>1, <1>3 DEF Shared
  <2> QED BY <2>1, <2>2
<1> QED BY <1>4, <1>5, <1>8 DEF V, i

LEMMA ReleaseKeeps ==
    ASSUME NEW T \in Table, NEW U, U \in [Slot -> LeaseEntry], One(T), NEW rev, Shared(T, rev),
           \A i \in Slot : U[i] = T[i] \/ ~U[i].used
    PROVE  One(U) /\ Shared(U, rev)
BY DEF One, Shared, live

LEMMA EmptyType == Empty \in LeaseEntry
BY SizeAssumption DEF Empty, LeaseEntry

\* The passing of time takes no lease to life.
LEMMA TickKeeps ==
    ASSUME NEW T \in Table, One(T), NEW rev, Shared(T, rev)
    PROVE  LET U == [i \in Slot |-> [T[i] EXCEPT !.left = Less(@)]] IN
           U \in Table /\ One(U) /\ Shared(U, rev)
<1> DEFINE U == [i \in Slot |-> [T[i] EXCEPT !.left = Less(@)]]
<1>1. ASSUME NEW i \in Slot
      PROVE  /\ U[i] \in LeaseEntry
             /\ U[i].used = T[i].used /\ U[i].mac = T[i].mac /\ U[i].addr = T[i].addr
             /\ U[i].left > 0 => T[i].left > 0
  <2>1. T[i] \in LeaseEntry
    BY EntryTypes
  <2>2. U[i] = [T[i] EXCEPT !.left = Less(T[i].left)]
    OBVIOUS
  <2> HIDE DEF U
  <2>3. T[i].left \in 0 .. Lease
    BY EntryTypes
  <2>4. Less(T[i].left) \in 0 .. Lease /\ (Less(T[i].left) > 0 => T[i].left > 0)
    BY <2>3, SizeAssumption DEF Less
  <2> QED BY <2>1, <2>2, <2>4 DEF LeaseEntry
<1>2. U \in Table
  BY <1>1 DEF Table
<1> HIDE DEF U
<1>3. \A i \in Slot : /\ U[i].used => T[i].used
                      /\ U[i].mac = T[i].mac /\ U[i].addr = T[i].addr
                      /\ live(U[i]) => live(T[i])
  BY <1>1 DEF live
<1>4. One(U)
  BY <1>3 DEF One
<1>5. Shared(U, rev)
  BY <1>3 DEF Shared
<1> QED BY <1>2, <1>4, <1>5 DEF U

-----------------------------------------------------------------------------
(* The steps.                                                                *)

LEMMA TakenType ==
    ASSUME NEW m, NEW out \in SUBSET Message, net \subseteq Message, faults \in Nat, Taken(m, out)
    PROVE  net' \subseteq Message /\ faults' \in Nat
BY DEF Taken

LEMMA MessageTypes ==
    ASSUME TypeOK, NEW m \in net \cup RawMessage
    PROVE  m.mac \in Client /\ m.addr \in Addr \cup {NoAddr}
<1>1. CASE m \in net
  BY <1>1 DEF TypeOK, Message, Client
<1>2. CASE m \in RawMessage
  BY <1>2 DEF RawMessage, Msg, Client
<1> QED BY <1>1, <1>2

LEMMA ReplyType ==
    ASSUME NEW c, NEW a \in Addr \cup {NoAddr}, NEW type \in {"OFFER", "ACK"}
    PROVE  Reply(type, c, a) \in SUBSET Message
BY DEF Reply, Message, Msg

\* The peer table stays within its array.
LEMMA LearnKeeps ==
    ASSUME TypeOK, file \subseteq peers, NEW c \in Client, learn_peer(c)
    PROVE  /\ peers' \subseteq Client /\ file' \subseteq Client /\ file' \subseteq peers'
           /\ Cardinality(peers') <= MaxPeers
<1>1. IsFiniteSet(peers) /\ IsFiniteSet(file) /\ peers \subseteq Client /\ Cardinality(peers) <= MaxPeers
  BY PeerAssumption, FS_Subset DEF TypeOK
<1>2. Cardinality(file) <= Cardinality(peers) /\ Cardinality(file) \in Nat /\ Cardinality(peers) \in Nat /\ MaxPeers \in Nat
  BY <1>1, FS_Subset, FS_CardinalityType, SizeAssumption
<1> DEFINE Grows(S) == Cardinality(S \cup {c}) <= Cardinality(S) + 1 /\ Cardinality(S \cup {c}) \in Nat
<1>0. ASSUME NEW S, IsFiniteSet(S), Cardinality(S) \in Nat PROVE Grows(S)
  <2>1. Cardinality(S \cup {c}) = IF c \in S THEN Cardinality(S) ELSE Cardinality(S) + 1
    BY <1>0, FS_AddElement
  <2> QED BY <1>0, <2>1
<1>3. Grows(file)
  BY <1>0, <1>1, <1>2
<1>4. Grows(peers)
  BY <1>0, <1>1, <1>2
<1>5. CASE Auth /\ c \notin peers /\ Cardinality(peers) < MaxPeers /\ HasFile
  <2>1. file' = file \cup {c} /\ peers' = file \cup {c}
    BY <1>5 DEF learn_peer
  <2> QED BY <2>1, <1>1, <1>2, <1>3, <1>5
<1>6. CASE Auth /\ c \notin peers /\ Cardinality(peers) < MaxPeers /\ ~HasFile
  <2>1. file' = file /\ peers' = peers \cup {c}
    BY <1>6 DEF learn_peer
  <2> QED BY <2>1, <1>1, <1>2, <1>4, <1>6
<1>7. CASE ~(Auth /\ c \notin peers /\ Cardinality(peers) < MaxPeers)
  <2>1. file' = file /\ peers' = peers
    BY <1>7 DEF learn_peer
  <2> QED BY <2>1, <1>1
<1> QED BY <1>5, <1>6, <1>7

\* IndInv, with what a server step can change spelt out.
LEMMA ServerPart ==
    ASSUME TypeOK, UNCHANGED <<clientVars, asked>>,
           leases' \in Table, One(leases'), Shared(leases', revived'), revived' \subseteq Client,
           peers' \subseteq Client, file' \subseteq peers', Cardinality(peers') <= MaxPeers,
           net' \subseteq Message, faults' \in Nat
    PROVE  IndInv'
BY DEF IndInv, TypeOK, OneLease, SharedOnlyIfRevived, One, Shared, Table, clientVars

LEMMA ServerStep ==
    ASSUME IndInv, NEW m \in net \cup RawMessage, ServerRecv(m)
    PROVE  IndInv'
<1> DEFINE c == m.mac
<1>1. /\ TypeOK /\ leases \in Table /\ One(leases) /\ Shared(leases, revived)
      /\ revived \subseteq Client /\ net \subseteq Message /\ faults \in Nat /\ file \subseteq peers
      /\ peers \subseteq Client /\ Cardinality(peers) <= MaxPeers
  BY DEF IndInv, TypeOK, OneLease, SharedOnlyIfRevived, One, Shared, Table
<1>2. c \in Client /\ m.addr \in Addr \cup {NoAddr}
  BY <1>1, MessageTypes
<1>3. note_revival(c) => Noted(leases, c, revived, revived') /\ revived' \subseteq Client
  BY <1>1, <1>2 DEF note_revival, Noted
<1>4. CASE ServerIgnore(m)
  <2>1. file' \subseteq peers' /\ peers' \subseteq Client /\ Cardinality(peers') <= MaxPeers
    BY <1>1, <1>2, <1>4, LearnKeeps DEF ServerIgnore
  <2>2. net' \subseteq Message /\ faults' \in Nat
    BY <1>1, <1>4, TakenType DEF ServerIgnore
  <2>3. leases' = leases /\ revived' = revived /\ UNCHANGED <<clientVars, asked>>
    BY <1>4 DEF ServerIgnore
  <2> QED BY <1>1, <2>1, <2>2, <2>3, ServerPart
<1>5. CASE ServerDiscover(m)
  <2>1. file' \subseteq peers' /\ peers' \subseteq Client /\ Cardinality(peers') <= MaxPeers
    BY <1>1, <1>2, <1>5, LearnKeeps DEF ServerDiscover
  <2>2. leases' \in Table /\ One(leases') /\ Shared(leases', revived') /\ lease_find(leases', c) # {}
    <3>1. alloc_ok(leases, c) /\ leases' = lease_alloc(leases, c) /\ note_revival(c)
      BY <1>5 DEF ServerDiscover
    <3> QED BY <3>1, <1>1, <1>2, <1>3, AllocKeeps
  <2>3. leases'[lease_of(leases', c)].addr \in Addr \cup {NoAddr}
    BY <2>2, <1>2, LeaseOf, EntryTypes
  <2>4. Reply("OFFER", c, leases'[lease_of(leases', c)].addr) \in SUBSET Message
    BY <2>3, ReplyType
  <2>5. net' \subseteq Message /\ faults' \in Nat
    BY <1>1, <1>5, <2>4, TakenType DEF ServerDiscover
  <2>6. revived' \subseteq Client /\ UNCHANGED <<clientVars, asked>>
    BY <1>3, <1>5 DEF ServerDiscover
  <2> QED BY <1>1, <2>1, <2>2, <2>5, <2>6, ServerPart
<1>6. CASE ServerRequest(m)
  <2> DEFINE U == lease_alloc(leases, c)
  <2>1. file' \subseteq peers' /\ peers' \subseteq Client /\ Cardinality(peers') <= MaxPeers
    BY <1>1, <1>2, <1>6, LearnKeeps DEF ServerRequest
  <2>2. U \in Table /\ One(U) /\ Shared(U, revived') /\ lease_find(U, c) # {}
    <3>1. alloc_ok(leases, c) /\ note_revival(c)
      BY <1>6 DEF ServerRequest
    <3> QED BY <3>1, <1>1, <1>2, <1>3, AllocKeeps
  <2>3. \/ may_have(U, c, m.addr) /\ leases' = [U EXCEPT ![lease_of(U, c)].addr = m.addr]
        \/ leases' = U
    BY <1>6 DEF ServerRequest
  <2>4. Reply("ACK", c, m.addr) \in SUBSET Message
    BY <1>2, ReplyType
  <2>5. net' \subseteq Message /\ faults' \in Nat
    BY <1>1, <1>6, <2>4, TakenType DEF ServerRequest
  <2>6. revived' \subseteq Client /\ UNCHANGED <<clientVars, asked>>
    BY <1>3, <1>6 DEF ServerRequest
  <2> HIDE DEF U
  <2>7. leases' \in Table /\ One(leases') /\ Shared(leases', revived')
    <3>1. CASE leases' = U
      BY <3>1, <2>2
    <3>2. CASE may_have(U, c, m.addr) /\ leases' = [U EXCEPT ![lease_of(U, c)].addr = m.addr]
      <4>1. m.addr = U[lease_of(U, c)].addr \/ ~lease_addr_taken(U, m.addr)
        BY <3>2 DEF may_have
      <4> QED BY <4>1, <3>2, <2>2, <1>2, MoveKeeps
    <3> QED BY <2>3, <3>1, <3>2
  <2> QED BY <1>1, <2>1, <2>5, <2>6, <2>7, ServerPart
<1>7. CASE ServerRelease(m)
  <2>1. file' \subseteq peers' /\ peers' \subseteq Client /\ Cardinality(peers') <= MaxPeers
    BY <1>1, <1>2, <1>7, LearnKeeps DEF ServerRelease
  <2>2. leases' \in [Slot -> LeaseEntry] /\ \A i \in Slot : leases'[i] = leases[i] \/ ~leases'[i].used
    <3>1. \A i \in Slot : leases[i] \in LeaseEntry
      BY <1>1, EntryTypes
    <3>2. ~Empty.used
      BY DEF Empty
    <3> HIDE DEF Empty
    <3> QED BY <1>7, <3>1, <3>2, EmptyType DEF ServerRelease
  <2>3. One(leases') /\ Shared(leases', revived)
    BY <1>1, <2>2, ReleaseKeeps
  <2>4. UNCHANGED <<revived, clientVars, net, faults, asked>>
    BY <1>7 DEF ServerRelease
  <2> QED BY <1>1, <2>1, <2>2, <2>3, <2>4, ServerPart DEF Table
<1> QED BY <1>4, <1>5, <1>6, <1>7 DEF ServerRecv

\* A step of the daemons or the network leaves the tables alone, or only their times.
LEMMA RestPart ==
    ASSUME IndInv, UNCHANGED serverVars,
           cst' \in [Tun -> {"off", "discover", "request", "idle"}], attempt' \in [Tun -> 0 .. Attempts - 1],
           addr' \in [Tun -> Addr \cup {NoAddr}], left' \in [Tun -> 0 .. Lease], up' \in [Tun -> BOOLEAN],
           due' \subseteq Tun, net' \subseteq Message, faults' \in Nat, asked' \in Nat
    PROVE  IndInv'
BY DEF IndInv, TypeOK, OneLease, SharedOnlyIfRevived, live, serverVars

LEMMA ClientStep ==
    ASSUME IndInv,
           \/ \E c \in Tun : TunStart(c) \/ TunRenewAsked(c) \/ TunStop(c) \/ TunTimer(c)
           \/ \E m \in net : TunRecv(m) \/ Lose(m)
    PROVE  IndInv'
<1>1. TypeOK
  BY DEF IndInv
<1>2. /\ 0 \in 0 .. Attempts - 1 /\ Lease \in 0 .. Lease
      /\ \A c \in Tun : attempts_left(c) => attempt[c] + 1 \in 0 .. Attempts - 1
  BY <1>1, SizeAssumption DEF TypeOK, attempts_left
<1>3. ASSUME NEW c \in Tun, dhcp_acquire(c), asked' \in Nat PROVE IndInv'
  <2>1. net' \subseteq Message
    BY <1>1, <1>3 DEF dhcp_acquire, DISCOVER, Msg, Message, TypeOK
  <2> QED BY <1>1, <1>2, <1>3, <2>1, RestPart DEF dhcp_acquire, TypeOK
<1>4. ASSUME NEW c \in Tun, TunStart(c) \/ TunRenewAsked(c) \/ TunRenew(c) PROVE IndInv'
  BY <1>1, <1>3, <1>4 DEF TunStart, TunRenewAsked, TunRenew, TypeOK
<1>5. ASSUME NEW c \in Tun, TunStop(c) PROVE IndInv'
  BY <1>1, <1>5, RestPart DEF TunStop, TypeOK
<1>6. ASSUME NEW c \in Tun, TunGiveUp(c) PROVE IndInv'
  BY <1>1, <1>6, RestPart DEF TunGiveUp, TypeOK
<1>7. ASSUME NEW c \in Tun, TunResend(c) PROVE IndInv'
  <2>1. addr' = addr /\ addr[c] \in Addr \cup {NoAddr}
    BY <1>1, <1>7 DEF TunResend, TypeOK
  <2>2. DISCOVER(c) \subseteq Message /\ REQUEST(c) \subseteq Message
    BY <2>1 DEF DISCOVER, REQUEST, Msg, Message
  <2>3. net' \subseteq Message
    BY <1>1, <1>7, <2>2 DEF TunResend, TypeOK
  <2> QED BY <1>1, <1>2, <1>7, <2>1, <2>3, RestPart DEF TunResend, TypeOK
<1>8. \A m \in net : m.mac \in Tun /\ m.addr \in Addr \cup {NoAddr}
  BY <1>1 DEF TypeOK, Message
<1>9. ASSUME NEW m \in net, TunRecvOffer(m) PROVE IndInv'
  <2>1. m.mac \in Tun /\ m.addr \in Addr \cup {NoAddr}
    BY <1>8
  <2>2. addr' \in [Tun -> Addr \cup {NoAddr}] /\ addr'[m.mac] = m.addr
    BY <1>1, <1>9, <2>1 DEF TunRecvOffer, TypeOK
  <2>3. REQUEST(m.mac) \in SUBSET Message
    BY <2>1, <2>2 DEF REQUEST, Msg, Message
  <2>4. net' \subseteq Message /\ faults' \in Nat
    BY <1>1, <1>9, <2>3, TakenType DEF TunRecvOffer, TypeOK
  <2> QED BY <1>1, <1>2, <1>9, <2>2, <2>4, RestPart DEF TunRecvOffer, TypeOK
<1>10. ASSUME NEW m \in net, TunRecvAck(m) PROVE IndInv'
  <2>1. net' \subseteq Message /\ faults' \in Nat
    BY <1>1, <1>10, TakenType DEF TunRecvAck, TypeOK
  <2> QED BY <1>1, <1>2, <1>10, <2>1, RestPart DEF TunRecvAck, TypeOK
<1>11. ASSUME NEW m \in net, TunRecvOther(m) PROVE IndInv'
  <2>1. net' \subseteq Message /\ faults' \in Nat
    BY <1>1, <1>11, TakenType DEF TunRecvOther, TypeOK
  <2> QED BY <1>1, <1>11, <2>1, RestPart DEF TunRecvOther, TypeOK, clientVars
<1>12. ASSUME NEW m \in net, Lose(m) PROVE IndInv'
  BY <1>1, <1>12, RestPart DEF Lose, TypeOK, clientVars
<1> QED BY <1>4, <1>5, <1>6, <1>7, <1>9, <1>10, <1>11, <1>12 DEF TunTimer, TunRecv

LEMMA TickStep == ASSUME IndInv, Tick PROVE IndInv'
<1>1. TypeOK /\ leases \in Table /\ One(leases) /\ Shared(leases, revived)
  BY DEF IndInv, TypeOK, OneLease, SharedOnlyIfRevived, One, Shared, Table
<1>2. leases' \in Table /\ One(leases') /\ Shared(leases', revived)
  BY <1>1, TickKeeps DEF Tick
<1>3. left' \in [Tun -> 0 .. Lease]
  BY <1>1, SizeAssumption DEF Tick, Less, TypeOK
<1>4. due' \subseteq Tun /\ UNCHANGED <<peers, file, revived, cst, attempt, addr, up, net, faults, asked>>
  BY DEF Tick, Waiting
<1> QED BY <1>1, <1>2, <1>3, <1>4 DEF IndInv, TypeOK, OneLease, SharedOnlyIfRevived, One, Shared, Table

LEMMA IndInit == Init => IndInv
<1> SUFFICES ASSUME Init PROVE IndInv
  OBVIOUS
<1>1. leases \in [Slot -> LeaseEntry] /\ \A i \in Slot : ~leases[i].used
  BY EmptyType DEF Init, Empty
<1>2. OneLease /\ SharedOnlyIfRevived
  BY <1>1 DEF OneLease, SharedOnlyIfRevived, live
<1>3. peers \subseteq Client /\ file \subseteq Client /\ file \subseteq peers /\ Cardinality(peers) <= MaxPeers
  BY ClientAssumption, PeerAssumption DEF Init
<1> QED BY <1>1, <1>2, <1>3, SizeAssumption DEF Init, IndInv, TypeOK

LEMMA IndStep == IndInv /\ [Next]_vars => IndInv'
<1> SUFFICES ASSUME IndInv, [Next]_vars PROVE IndInv'
  OBVIOUS
<1>1. ASSUME NEW S \in SUBSET Client, peer_file_load(S) PROVE IndInv'
  BY <1>1 DEF peer_file_load, IndInv, TypeOK, OneLease, SharedOnlyIfRevived, live, clientVars
<1>2. CASE UNCHANGED vars
  BY <1>2 DEF vars, serverVars, clientVars, IndInv, TypeOK, OneLease, SharedOnlyIfRevived, live
<1> QED BY <1>1, <1>2, ServerStep, ClientStep, TickStep DEF Next

\* Type correctness of server and daemons: every table entry is well formed, no attempt
\* counter passes its limit and no more peers are learned than the array holds.
THEOREM DhcpTypeCorrect == Spec => []TypeOK
<1>1. IndInv => TypeOK
  BY DEF IndInv
<1> QED BY <1>1, IndInit, IndStep, PTL DEF Spec

\* lease_find's first match is the only one: a client never has two leases, whatever is
\* requested, released, expired or taken over, in any order.
THEOREM OneLeasePerClient == Spec => []OneLease
<1>1. IndInv => OneLease
  BY DEF IndInv
<1> QED BY <1>1, IndInit, IndStep, PTL DEF Spec

\* Renewing an expired lease is the only way two clients come to have one address:
\* whatever the hash, the pool and the requests, lease_alloc and REQUEST give none away.
THEOREM SharedOnlyByRevival == Spec => []SharedOnlyIfRevived
<1>1. IndInv => SharedOnlyIfRevived
  BY DEF IndInv
<1> QED BY <1>1, IndInit, IndStep, PTL DEF Spec
-----------------------------------------------------------------------------
(* What a daemon believes.  On a timely network no time passes while a frame is *)
(* on its way: the lease an OFFER or an ACK tells of is still the client's,     *)
(* with its whole term.  A REQUEST may be late in one way, repeated after the   *)
(* lease has run out and gone to somebody else; the client then has nothing     *)
(* else on its way.                                                             *)

LeasedIn(T, c, a, n) == \E i \in Slot : live(T[i]) /\ T[i].mac = c /\ T[i].addr = a /\ T[i].left >= n
Leased(c, a, n) == LeasedIn(leases, c, a, n)
Of(c) == {m \in net : m.mac = c}

Wires(c) ==
    /\ c \in due => Of(c) = {} /\ cst[c] \in {"discover", "request"}
    /\ \A m \in Of(c) : m.type \in {"OFFER", "ACK"} => Leased(c, m.addr, Lease)
    /\ \A m \in Of(c) : m.type = "REQUEST" =>
          Leased(c, m.addr, Lease) \/ (cst[c] = "request" /\ \A o \in Of(c) : o.type = "REQUEST")
    /\ \A m \in Of(c) : m.type \in {"REQUEST", "ACK"} /\ cst[c] = "request" => m.addr = addr[c]

Believes(c) == Wires(c) /\ (Holds(c) => Leased(c, addr[c], left[c]))
Believed == \A c \in Tun : Believes(c)

\* A client has one address.
LEMMA LeasedOne ==
    ASSUME NEW T, One(T), NEW c, NEW a, NEW b, NEW n, NEW k, LeasedIn(T, c, a, n), LeasedIn(T, c, b, k)
    PROVE  a = b
BY DEF One, LeasedIn, live

LEMMA AllocOther ==
    ASSUME NEW T \in Table, One(T), NEW d \in Client, alloc_ok(T, d), NEW c, c # d
    PROVE  \A a, n : LeasedIn(T, c, a, n) => LeasedIn(lease_alloc(T, d), c, a, n)
<1> DEFINE U == lease_alloc(T, d)
<1>1. PICK i \in Slot :
        /\ \A j \in Slot : j # i => U[j] = T[j]
        /\ (i = lease_of(T, d) /\ lease_find(T, d) # {}) \/ ~live(T[i])
  BY Alloc
<1>2. i = lease_of(T, d) /\ lease_find(T, d) # {} => T[i].mac = d
  BY LeaseOf
<1> HIDE DEF U
<1>3. \A j \in Slot : live(T[j]) /\ T[j].mac = c => U[j] = T[j]
  BY <1>1, <1>2
<1>4. \A a, n : LeasedIn(T, c, a, n) => LeasedIn(U, c, a, n)
  BY <1>3 DEF LeasedIn
<1> QED BY <1>4 DEF U

LEMMA AllocOwn ==
    ASSUME NEW T \in Table, One(T), NEW c \in Client, alloc_ok(T, c)
    PROVE  LET U == lease_alloc(T, c) IN
           /\ U \in Table /\ One(U) /\ lease_find(U, c) # {}
           /\ LeasedIn(U, c, U[lease_of(U, c)].addr, Lease)
           /\ \A a, n : LeasedIn(T, c, a, n) => a = U[lease_of(U, c)].addr
<1> DEFINE U == lease_alloc(T, c)
<1>1. PICK i \in Slot :
             /\ U \in Table
             /\ U[i].used /\ U[i].mac = c /\ U[i].left = Lease
             /\ \A j \in Slot : j # i => U[j] = T[j] /\ ~(T[j].used /\ T[j].mac = c)
             /\ \/ i = lease_of(T, c) /\ lease_find(T, c) # {} /\ U[i].addr = T[i].addr
                \/ lease_find(T, c) = {} /\ ~lease_addr_taken(T, U[i].addr) /\ ~live(T[i])
  BY Alloc
<1> HIDE DEF U
<1>2. One(U) /\ lease_find(U, c) # {}
  BY <1>1 DEF One, lease_find
<1>3. lease_of(U, c) = i
  BY <1>1, <1>2, LeaseOf DEF One
<1>4. LeasedIn(U, c, U[i].addr, Lease)
  BY <1>1, SizeAssumption DEF LeasedIn, live
<1>5. ASSUME NEW a, NEW n, LeasedIn(T, c, a, n) PROVE a = U[i].addr
  BY <1>1, <1>5 DEF LeasedIn, live
<1> QED BY <1>1, <1>2, <1>3, <1>4, <1>5 DEF U

\* Writing the address of a lease leaves its other fields alone.
LEMMA Readdressed ==
    ASSUME NEW e \in LeaseEntry, NEW b
    PROVE  LET f == [e EXCEPT !.addr = b] IN
           f.used = e.used /\ f.mac = e.mac /\ f.addr = b /\ f.left = e.left
BY DEF LeaseEntry

\* The lease that a granted REQUEST moves is the sender's.
LEMMA Moved ==
    ASSUME NEW U \in Table, One(U), NEW d \in Client, lease_find(U, d) # {}, NEW b,
           LeasedIn(U, d, U[lease_of(U, d)].addr, Lease)
    PROVE  LET V == [U EXCEPT ![lease_of(U, d)].addr = b] IN
           /\ LeasedIn(V, d, b, Lease)
           /\ \A c, a, n : c # d /\ LeasedIn(U, c, a, n) => LeasedIn(V, c, a, n)
<1> DEFINE i == lease_of(U, d)
           V == [U EXCEPT ![i].addr = b]
<1>1. i \in Slot /\ U[i].used /\ U[i].mac = d /\ U[i] \in LeaseEntry
  BY LeaseOf, EntryTypes
<1>2. live(U[i]) /\ U[i].left >= Lease
  BY <1>1 DEF LeasedIn, One, live
<1> HIDE DEF i
<1>3. V[i] = [U[i] EXCEPT !.addr = b] /\ \A j \in Slot : j # i => V[j] = U[j]
  BY <1>1 DEF Table
<1> HIDE DEF V
<1>4. V[i].used = U[i].used /\ V[i].mac = U[i].mac /\ V[i].addr = b /\ V[i].left = U[i].left
  <2> DEFINE e == U[i]
  <2>1. e \in LeaseEntry /\ V[i] = [e EXCEPT !.addr = b]
    BY <1>1, <1>3
  <2> HIDE DEF e
  <2>2. V[i].used = e.used /\ V[i].mac = e.mac /\ V[i].addr = b /\ V[i].left = e.left
    BY <2>1, Readdressed
  <2> QED BY <2>2 DEF e
<1>5. LeasedIn(V, d, b, Lease)
  BY <1>1, <1>2, <1>4 DEF LeasedIn, live
<1>6. ASSUME NEW c, NEW a, NEW n, c # d, LeasedIn(U, c, a, n) PROVE LeasedIn(V, c, a, n)
  BY <1>1, <1>3, <1>6 DEF LeasedIn
<1> QED BY <1>5, <1>6 DEF V, i

-----------------------------------------------------------------------------
\* A step that leaves c alone: its frames, if it has fewer, and its lease.
Spares(c) ==
    /\ cst'[c] = cst[c] /\ addr'[c] = addr[c] /\ left'[c] = left[c] /\ up'[c] = up[c]
    /\ c \in due' => c \in due
    /\ Of(c)' \subseteq Of(c)
    /\ \A a, n : Leased(c, a, n) => Leased(c, a, n)'

LEMMA Spared == ASSUME NEW c \in Tun, Believes(c), Spares(c) PROVE Believes(c)'
BY DEF Believes, Wires, Spares, Holds

LEMMA TakenOf ==
    ASSUME NEW m, NEW out, Taken(m, out), NEW c
    PROVE  \A n \in Of(c)' : n \in Of(c) \/ (n \in out /\ n.mac = c)
BY DEF Taken, Of
\* A message of another client.
LEMMA ServerOther ==
    ASSUME IndInv, NEW m \in net \cup RawMessage, ServerRecv(m), NEW c \in Tun, m.mac # c
    PROVE  Spares(c)
<1> DEFINE d == m.mac
<1>1. leases \in Table /\ One(leases) /\ d \in Client
  BY MessageTypes DEF IndInv, TypeOK, OneLease, One, Table
<1>2. ASSUME NEW type, NEW a, NEW n \in Reply(type, d, a) PROVE n.mac = d
  BY <1>2 DEF Reply, Msg
<1>3. UNCHANGED clientVars
  BY DEF ServerRecv, ServerIgnore, ServerDiscover, ServerRequest, ServerRelease
<1>4. Of(c)' \subseteq Of(c)
  <2>1. CASE ServerRelease(m)
    BY <2>1 DEF ServerRelease, Of
  <2>2. CASE ServerIgnore(m)
    BY <2>2, TakenOf DEF ServerIgnore
  <2>3. CASE ServerDiscover(m)
    BY <2>3, <1>2, TakenOf DEF ServerDiscover
  <2>4. CASE ServerRequest(m)
    BY <2>4, <1>2, TakenOf DEF ServerRequest
  <2> QED BY <2>1, <2>2, <2>3, <2>4 DEF ServerRecv
<1>5. \A a, n : Leased(c, a, n) => LeasedIn(leases', c, a, n)
  <2>1. CASE ServerRelease(m)
    <3>1. \A j \in Slot : leases[j].mac = c /\ leases[j].used => leases'[j] = leases[j]
      BY <2>1, <1>1, LeaseOf DEF ServerRelease
    <3> QED BY <3>1 DEF Leased, LeasedIn, live
  <2>2. CASE ServerIgnore(m)
    BY <2>2 DEF ServerIgnore, Leased
  <2>3. CASE ServerDiscover(m)
    BY <2>3, <1>1, AllocOther DEF ServerDiscover, Leased
  <2>4. CASE ServerRequest(m)
    <3> DEFINE U == lease_alloc(leases, d)
    <3>1. /\ U \in Table /\ One(U) /\ lease_find(U, d) # {} /\ LeasedIn(U, d, U[lease_of(U, d)].addr, Lease)
          /\ \A a, n : Leased(c, a, n) => LeasedIn(U, c, a, n)
      BY <2>4, <1>1, AllocOther, AllocOwn DEF ServerRequest, Leased
    <3>2. leases' = U \/ leases' = [U EXCEPT ![lease_of(U, d)].addr = m.addr]
      BY <2>4 DEF ServerRequest
    <3> HIDE DEF U
    <3> QED BY <1>1, <3>1, <3>2, Moved
  <2> QED BY <2>1, <2>2, <2>3, <2>4 DEF ServerRecv
<1> QED BY <1>3, <1>4, <1>5 DEF Spares, Leased, clientVars

\* A message of c itself.
LEMMA ServerOwn ==
    ASSUME IndInv, NEW c \in Tun, Believes(c), NEW m \in net \cup RawMessage, m.mac = c, ServerRecv(m)
    PROVE  Believes(c)'
<1>1. leases \in Table /\ One(leases) /\ c \in Client
  BY DEF IndInv, TypeOK, OneLease, One, Table, Client
<1>2. m \in net /\ m \in Of(c) /\ m.type # "RELEASE"
  <2>1. m \in RawMessage => m.mac \in Raw
    BY DEF RawMessage, Msg
  <2>2. m \in net
    BY <2>1, ClientAssumption
  <2>3. m.type # "RELEASE"
    BY <2>2 DEF IndInv, TypeOK, Message
  <2> QED BY <2>2, <2>3 DEF Of
<1>3. c \notin due
  BY <1>2 DEF Believes, Wires
<1>4. UNCHANGED <<cst, addr, left, up, due>>
  BY DEF ServerRecv, ServerIgnore, ServerDiscover, ServerRequest, ServerRelease, clientVars
<1>5. left[c] \in Nat /\ left[c] <= Lease /\ Lease \in Nat /\ Lease >= Lease
  BY SizeAssumption DEF IndInv, TypeOK
<1>6. CASE ServerIgnore(m)
  <2>1. Of(c)' \subseteq Of(c) /\ leases' = leases
    BY <1>6, TakenOf DEF ServerIgnore
  <2> QED BY <1>4, <2>1, Spared DEF Spares, Leased
<1>7. ASSUME NEW T \in Table, NEW a, LeasedIn(T, c, a, Lease), leases' = T,
             Leased(c, addr[c], left[c]) => addr[c] = a,
             \A n \in Of(c)' : n.type \in {"OFFER", "ACK"} => n.addr = a,
             \A n \in Of(c)' : n.type = "REQUEST" => n.addr = a \/ (cst[c] = "request" /\ \A o \in Of(c)' : o.type = "REQUEST"),
             \A n \in Of(c)' : n.type \in {"REQUEST", "ACK"} /\ cst[c] = "request" => n.addr = addr[c]
      PROVE  Believes(c)'
  <2>1. Leased(c, a, Lease)' /\ Leased(c, a, left[c])'
    <3>1. \A i \in Slot : T[i].left \in Nat
      BY <1>5, EntryTypes
    <3> QED BY <1>4, <1>5, <1>7, <3>1 DEF Leased, LeasedIn
  <2>2. Wires(c)'
    BY <1>3, <1>4, <1>7, <2>1 DEF Wires
  <2>3. Holds(c)' => Leased(c, addr[c], left[c])'
    BY <1>4, <1>7, <2>1 DEF Believes, Holds
  <2> QED BY <1>4, <2>2, <2>3 DEF Believes
<1>8. CASE ServerDiscover(m)
  <2> DEFINE U == lease_alloc(leases, c)
             a == U[lease_of(U, c)].addr
  <2>1. U \in Table /\ LeasedIn(U, c, a, Lease) /\ leases' = U /\ \A b, n : Leased(c, b, n) => b = a
    BY <1>1, <1>8, AllocOwn DEF ServerDiscover, Leased
  <2>2. \A n \in Of(c)' : n \in Of(c) \/ n = Msg("OFFER", c, a)
    <3>1. Taken(m, Reply("OFFER", c, a))
      BY <1>8, <2>1 DEF ServerDiscover
    <3> QED BY <3>1, TakenOf DEF Reply
  <2>3. Msg("OFFER", c, a).type = "OFFER" /\ Msg("OFFER", c, a).addr = a
    BY DEF Msg
  <2>4. m.type = "DISCOVER"
    BY <1>8 DEF ServerDiscover
  <2> HIDE DEF U, a
  <2>5. \A n \in Of(c) : n.type = "REQUEST" => Leased(c, n.addr, Lease)
    BY <1>2, <2>4 DEF Believes, Wires
  <2> QED BY <1>7, <2>1, <2>2, <2>3, <2>5 DEF Believes, Wires
<1>9. CASE ServerRequest(m)
  <2> DEFINE U == lease_alloc(leases, c)
             a == U[lease_of(U, c)].addr
  <2>1. /\ U \in Table /\ One(U) /\ lease_find(U, c) # {}
        /\ LeasedIn(U, c, a, Lease) /\ \A b, n : Leased(c, b, n) => b = a
    BY <1>1, <1>9, AllocOwn DEF ServerRequest, Leased
  <2>2. \/ leases' = [U EXCEPT ![lease_of(U, c)].addr = m.addr] /\ Taken(m, Reply("ACK", c, m.addr))
        \/ m.addr # a /\ leases' = U /\ Taken(m, {})
    BY <1>9 DEF ServerRequest, may_have
  <2>3. m.type = "REQUEST"
    BY <1>9 DEF ServerRequest
  <2> HIDE DEF U, a
  <2>4. CASE leases' = [U EXCEPT ![lease_of(U, c)].addr = m.addr] /\ Taken(m, Reply("ACK", c, m.addr))
    <3>1. LeasedIn(leases', c, m.addr, Lease) /\ leases' \in Table
      <4>1. leases' \in Table
        BY ServerStep DEF IndInv, TypeOK, Table
      <4> QED BY <1>1, <2>1, <2>4, <4>1, Moved DEF a
    <3>2. \A n \in Of(c)' : n \in Of(c) \/ n = Msg("ACK", c, m.addr)
      BY <2>4, TakenOf DEF Reply
    <3>3. Msg("ACK", c, m.addr).type = "ACK" /\ Msg("ACK", c, m.addr).addr = m.addr
      BY DEF Msg
    <3>4. CASE Leased(c, m.addr, Lease)
      <4>1. \A b, n : Leased(c, b, n) => b = m.addr
        BY <3>4, <2>1
      <4>2. \A n \in Of(c) : n.type \in {"OFFER", "ACK"} => n.addr = m.addr
        BY <4>1 DEF Believes, Wires
      <4>3. \A n \in Of(c) : n.type = "REQUEST" => n.addr = m.addr
        <5> SUFFICES ASSUME NEW n \in Of(c), n.type = "REQUEST" PROVE n.addr = m.addr
          OBVIOUS
        <5>1. CASE Leased(c, n.addr, Lease)
          BY <4>1, <5>1
        <5>2. CASE cst[c] = "request"
          BY <1>2, <2>3, <5>2 DEF Believes, Wires
        <5> QED BY <5>1, <5>2 DEF Believes, Wires
      <4>4. \A n \in Of(c)' : n.type \in {"REQUEST", "ACK"} /\ cst[c] = "request" => n.addr = addr[c]
        BY <1>2, <2>3, <3>2, <3>3 DEF Believes, Wires
      <4> QED BY <1>7, <3>1, <3>2, <3>3, <4>1, <4>2, <4>3, <4>4
    <3>5. CASE ~Leased(c, m.addr, Lease)
      <4>1. cst[c] = "request" /\ (\A o \in Of(c) : o.type = "REQUEST" /\ o.addr = addr[c]) /\ m.addr = addr[c]
        BY <1>2, <2>3, <3>5 DEF Believes, Wires
      <4> QED BY <1>7, <3>1, <3>2, <3>3, <4>1
    <3> QED BY <3>4, <3>5
  <2>5. CASE m.addr # a /\ leases' = U /\ Taken(m, {})
    <3>1. cst[c] = "request" /\ (\A o \in Of(c) : o.type = "REQUEST" /\ o.addr = addr[c])
      BY <1>2, <2>1, <2>3, <2>5 DEF Believes, Wires
    <3>2. \A n \in Of(c)' : n \in Of(c)
      BY <2>5, TakenOf
    <3> QED BY <1>7, <2>1, <2>5, <3>1, <3>2
  <2> QED BY <2>2, <2>4, <2>5
<1> QED BY <1>2, <1>6, <1>8, <1>9 DEF ServerRecv, ServerRelease
\* The daemon's own steps: what it sends, and what it takes.
LEMMA TunOther ==
    ASSUME IndInv, NEW d \in Tun, NEW c \in Tun, c # d,
           \/ TunStart(d) \/ TunRenewAsked(d) \/ TunStop(d) \/ TunTimer(d)
           \/ \E m \in net : m.mac = d /\ TunRecv(m)
    PROVE  Spares(c)
<1>1. /\ cst'[c] = cst[c] /\ addr'[c] = addr[c] /\ left'[c] = left[c] /\ up'[c] = up[c]
      /\ c \in due' => c \in due
      /\ leases' = leases
  BY DEF IndInv, TypeOK, TunStart, TunRenewAsked, TunStop, TunTimer, TunRecv, TunRenew, TunResend, TunGiveUp, dhcp_acquire,
         TunRecvOffer, TunRecvAck, TunRecvOther, serverVars, clientVars
<1>2. \A n \in DISCOVER(d) \cup REQUEST(d) : n.mac = d
  BY DEF DISCOVER, REQUEST, Msg
<1>3. Of(c)' \subseteq Of(c)
  <2>1. CASE TunStart(d) \/ TunRenewAsked(d) \/ TunStop(d) \/ TunTimer(d)
    BY <1>2, <2>1 DEF TunStart, TunRenewAsked, TunStop, TunTimer, TunRenew, TunResend, TunGiveUp, dhcp_acquire, Of
  <2>2. ASSUME NEW m \in net, m.mac = d, TunRecv(m) PROVE Of(c)' \subseteq Of(c)
    BY <1>2, <2>2, TakenOf DEF TunRecv, TunRecvOffer, TunRecvAck, TunRecvOther
  <2> QED BY <2>1, <2>2
<1> QED BY <1>1, <1>3 DEF Spares, Leased

\* A daemon whose wait has expired has nothing on its way.
LEMMA TunOwnTimer ==
    ASSUME IndInv, NEW c \in Tun, Believes(c), TunStart(c) \/ TunRenewAsked(c) \/ TunStop(c) \/ TunTimer(c)
    PROVE  Believes(c)'
<1>1. \A a, n : Leased(c, a, n)' <=> Leased(c, a, n)
  <2>1. leases' = leases
    BY DEF TunStart, TunRenewAsked, TunStop, TunTimer, TunRenew, TunResend, TunGiveUp, dhcp_acquire, serverVars
  <2> QED BY <2>1 DEF Leased
<1>2. CASE TunStart(c) \/ TunRenewAsked(c) \/ TunRenew(c)
  <2>1. /\ cst[c] # "request" /\ c \notin due' /\ cst'[c] = "discover"
        /\ UNCHANGED <<addr, left, up>> /\ net' = net \cup DISCOVER(c)
    <3>1. c \notin due
      BY <1>2 DEF TunStart, TunRenewAsked, TunRenew, Believes, Wires
    <3> QED BY <1>2, <3>1 DEF IndInv, TypeOK, TunStart, TunRenewAsked, TunRenew, dhcp_acquire
  <2>2. \A n \in Of(c)' : n \in Of(c) \/ n.type = "DISCOVER"
    BY <2>1 DEF Of, DISCOVER, Msg
  <2>3. \A n \in Of(c) : n.type = "REQUEST" => Leased(c, n.addr, Lease)
    BY <2>1 DEF Believes, Wires
  <2> QED BY <1>1, <2>1, <2>2, <2>3 DEF Believes, Wires, Holds
<1>3. CASE TunStop(c)
  <2>1. cst[c] = "idle" /\ cst'[c] = "off" /\ ~up'[c] /\ UNCHANGED <<addr, left, due, net>>
    BY <1>3 DEF IndInv, TypeOK, TunStop
  <2> QED BY <1>1, <2>1 DEF Believes, Wires, Holds, Of
<1>4. CASE TunResend(c) \/ TunGiveUp(c)
  <2>1. Of(c) = {} /\ c \notin due' /\ UNCHANGED <<addr, left, up>>
    BY <1>4 DEF Believes, Wires, TunResend, TunGiveUp
  <2>2. CASE TunGiveUp(c)
    <3>1. net' = net
      BY <2>2 DEF TunGiveUp
    <3> QED BY <1>1, <2>1, <3>1 DEF Believes, Wires, Holds, Of
  <2>3. CASE TunResend(c)
    <3>1. cst' = cst /\ \A n \in Of(c)' : (cst[c] # "request" /\ n.type = "DISCOVER") \/ (cst[c] = "request" /\ n.type = "REQUEST" /\ n.addr = addr[c])
      <4>1. cst' = cst /\ addr' = addr /\ net' = net \cup (IF cst[c] = "discover" THEN DISCOVER(c) ELSE REQUEST(c)) /\ cst[c] \in {"discover", "request"}
        BY <2>3 DEF TunResend, Believes, Wires
      <4>2. \A n \in DISCOVER(c) : n.type = "DISCOVER"
        BY DEF DISCOVER, Msg
      <4>3. \A n \in REQUEST(c) : n.type = "REQUEST" /\ n.addr = addr[c]
        BY <4>1 DEF REQUEST, Msg
      <4> QED BY <2>1, <4>1, <4>2, <4>3 DEF Of
    <3> QED BY <1>1, <2>1, <3>1 DEF Believes, Wires, Holds
  <2> QED BY <1>4, <2>2, <2>3
<1> QED BY <1>2, <1>3, <1>4 DEF TunTimer
\* An OFFER or an ACK taken: the lease it tells of is the client's, with its whole term.
LEMMA TunOwnRecv ==
    ASSUME IndInv, NEW c \in Tun, Believes(c), NEW m \in net, m.mac = c, TunRecv(m)
    PROVE  Believes(c)'
<1>1. \A a, n : Leased(c, a, n)' <=> Leased(c, a, n)
  <2>1. leases' = leases
    BY DEF TunRecv, TunRecvOffer, TunRecvAck, TunRecvOther, serverVars
  <2> QED BY <2>1 DEF Leased
<1>2. m \in Of(c) /\ c \notin due /\ One(leases)
  BY DEF Of, Believes, Wires, IndInv, OneLease, One
<1>3. CASE TunRecvOffer(m)
  <2>1. /\ m.type = "OFFER" /\ cst[c] = "discover" /\ cst'[c] = "request" /\ addr'[c] = m.addr /\ left'[c] = Lease
        /\ c \notin due' /\ Taken(m, REQUEST(c))
    BY <1>2, <1>3 DEF IndInv, TypeOK, TunRecvOffer
  <2>2. \A n \in REQUEST(c) : n.type = "REQUEST" /\ n.addr = m.addr
    BY <2>1 DEF REQUEST, Msg
  <2>3. \A n \in Of(c)' : n \in Of(c) \/ (n.type = "REQUEST" /\ n.addr = m.addr)
    BY <2>1, <2>2, TakenOf
  <2>4. Leased(c, m.addr, Lease)
    BY <1>2, <2>1 DEF Believes, Wires
  <2>5. \A n \in Of(c) : n.type \in {"OFFER", "ACK", "REQUEST"} => Leased(c, n.addr, Lease) /\ n.addr = m.addr
    <3>1. \A n \in Of(c) : n.type \in {"OFFER", "ACK", "REQUEST"} => Leased(c, n.addr, Lease)
      BY <2>1 DEF Believes, Wires
    <3> QED BY <1>2, <2>4, <3>1, LeasedOne DEF Leased
  <2> QED BY <1>1, <2>1, <2>3, <2>4, <2>5 DEF Believes, Wires
<1>4. CASE TunRecvAck(m)
  <2>1. /\ m.type = "ACK" /\ cst[c] = "request" /\ cst'[c] = "idle" /\ addr' = addr /\ left'[c] = Lease
        /\ c \notin due' /\ Taken(m, {})
    BY <1>2, <1>4 DEF IndInv, TypeOK, TunRecvAck
  <2>2. \A n \in Of(c)' : n \in Of(c)
    BY <2>1, TakenOf
  <2>3. Leased(c, addr[c], Lease) /\ \A n \in Of(c) : n.type \in {"OFFER", "ACK", "REQUEST"} => Leased(c, n.addr, Lease)
    BY <1>2, <2>1 DEF Believes, Wires
  <2> QED BY <1>1, <2>1, <2>2, <2>3 DEF Believes, Wires
<1>5. CASE TunRecvOther(m)
  <2>1. Of(c)' \subseteq Of(c) /\ UNCHANGED <<cst, addr, left, up, due>>
    BY <1>5, TakenOf DEF TunRecvOther, clientVars
  <2> QED BY <1>1, <2>1, Spared DEF Spares
<1> QED BY <1>3, <1>4, <1>5 DEF TunRecv

LEMMA TickBelieved == ASSUME Timely, IndInv, Believed, Tick PROVE Believed'
<1> SUFFICES ASSUME NEW c \in Tun PROVE Believes(c)'
  BY DEF Believed
<1>1. /\ net = {} /\ net' = {} /\ UNCHANGED <<addr, up, cst>> /\ left'[c] = Less(left[c]) /\ left[c] \in Nat
      /\ c \in due' => cst[c] \in {"discover", "request"}
  BY DEF Tick, Waiting, IndInv, TypeOK
<1>2. Wires(c)'
  BY <1>1 DEF Wires, Of
<1>3. ASSUME Holds(c)' PROVE Leased(c, addr[c], left[c])'
  <2>1. Holds(c) /\ left'[c] = left[c] - 1 /\ left[c] - 1 > 0
    BY <1>1, <1>3 DEF Holds, Less
  <2>2. PICK i \in Slot : live(leases[i]) /\ leases[i].mac = c /\ leases[i].addr = addr[c] /\ leases[i].left >= left[c]
    BY <2>1 DEF Believed, Believes, Leased, LeasedIn
  <2>3. leases[i] \in LeaseEntry /\ leases[i].left \in Nat
    BY SizeAssumption DEF IndInv, TypeOK, LeaseEntry
  <2>4. leases'[i] = [leases[i] EXCEPT !.left = Less(leases[i].left)]
    BY DEF Tick
  <2>5. /\ leases'[i].used = leases[i].used /\ leases'[i].mac = leases[i].mac /\ leases'[i].addr = leases[i].addr
        /\ leases'[i].left = Less(leases[i].left)
    BY <2>3, <2>4 DEF LeaseEntry
  <2>6. leases'[i].left >= left[c] - 1 /\ leases'[i].left > 0
    BY <1>1, <2>1, <2>2, <2>3, <2>5 DEF Less
  <2> QED BY <1>1, <2>1, <2>2, <2>5, <2>6 DEF Leased, LeasedIn, live
<1> QED BY <1>1, <1>2, <1>3 DEF Believes

LEMMA BelievedStep == ASSUME Timely PROVE IndInv /\ Believed /\ [Next]_vars => Believed'
<1> SUFFICES ASSUME IndInv, Believed, [Next]_vars PROVE Believed'
  OBVIOUS
<1>0. \A m \in net : m.mac \in Tun
  BY DEF IndInv, TypeOK, Message
<1>1. ASSUME NEW d \in Tun, TunStart(d) \/ TunRenewAsked(d) \/ TunStop(d) \/ TunTimer(d) PROVE Believed'
  BY <1>1, TunOther, TunOwnTimer, Spared DEF Believed
<1>2. ASSUME NEW m \in net, TunRecv(m) PROVE Believed'
  BY <1>0, <1>2, TunOther, TunOwnRecv, Spared DEF Believed
<1>3. ASSUME NEW m \in net, Lose(m) PROVE Believed'
  <2>1. \A c \in Tun : Spares(c)
    BY <1>3 DEF Lose, Spares, Of, Leased, clientVars, serverVars
  <2> QED BY <2>1, Spared DEF Believed
<1>4. ASSUME NEW m \in net \cup RawMessage, ServerRecv(m) PROVE Believed'
  BY <1>4, ServerOther, ServerOwn, Spared DEF Believed
<1>5. ASSUME NEW S \in SUBSET Client, peer_file_load(S) PROVE Believed'
  <2>1. \A c \in Tun : Spares(c)
    BY <1>5 DEF peer_file_load, Spares, Of, Leased, clientVars
  <2> QED BY <2>1, Spared DEF Believed
<1>6. CASE UNCHANGED vars
  <2>1. \A c \in Tun : Spares(c)
    BY <1>6 DEF vars, Spares, Of, Leased, clientVars, serverVars
  <2> QED BY <2>1, Spared DEF Believed
<1> QED BY <1>1, <1>2, <1>3, <1>4, <1>5, <1>6, TickBelieved DEF Next

\* On a network where no frame outlives a tick, a daemon never uses an address the server does not have
\* leased to it for at least as long, whatever is lost, repeated or answered twice, however
\* many clients compete for the addresses and the slots, and although the address in an ACK
\* is not looked at and the OFFER is written into the lease before it is confirmed
\* (dhcp_acquire, lease_alloc).
THEOREM HeldStaysLeased == ASSUME Timely PROVE Spec => []HeldIsLeased
<1>1. Init => Believed
  BY DEF Init, Believed, Believes, Wires, Of, Holds
<1>2. IndInv /\ Believed => HeldIsLeased
  BY DEF HeldIsLeased, Believed, Believes, Leased, LeasedIn
<1>3. IndInv /\ Believed /\ [Next]_vars => Believed'
  BY BelievedStep
<1> QED BY <1>1, <1>2, <1>3, IndInit, IndStep, PTL DEF Spec

-----------------------------------------------------------------------------
(* How long a daemon's lease lasts.  A wait that expires has cost a frame, so   *)
(* fewer waits expire than there are attempts; each takes a tick, and a daemon   *)
(* that renews has more ticks left than that.                                   *)

Served(c) == mac_allowed(c) /\ check_msg(c)
Waits(c) == cst[c] \in {"discover", "request"}
Answered(c) == IF cst[c] = "discover" THEN {"DISCOVER", "OFFER"} ELSE {"REQUEST", "ACK"}
OnWay(c) == \E m \in Of(c) : m.type \in Answered(c)
Late(c) == IF c \in due THEN 1 ELSE 0

Lasts(c) ==
    /\ \A m \in Of(c) : m.type \in {"OFFER", "ACK"} => Served(c)
    /\ up[c] => Served(c)
    /\ up[c] /\ Bearable =>
          /\ cst[c] # "off"
          /\ cst[c] = "idle" => left[c] >= Attempts
          /\ Waits(c) => /\ left[c] + attempt[c] + Late(c) >= Attempts
                         /\ attempt[c] <= faults
                         /\ c \in due \/ ~OnWay(c) => attempt[c] < faults
AllLast == \A c \in Tun : Lasts(c)

\* A daemon renews when there is time for as many waits as it makes, and its server does not
\* forget its key: there is no peer file to edit, or any key is served.
Lasting == Timely /\ Attempts <= (Lease + 5) \div 6 /\ Attempts < Lease \div 3 /\ (Learn \/ ~HasFile)

\* What a daemon counts.
LEMMA Numbers ==
    ASSUME TypeOK, NEW c \in Tun
    PROVE  /\ left[c] \in Nat /\ left[c] <= Lease /\ attempt[c] \in Nat /\ attempt[c] < Attempts /\ faults \in Nat
           /\ Late(c) \in {0, 1} /\ Attempts \in Nat /\ Attempts >= 1 /\ Lease \in Nat
           /\ cst[c] \in {"off", "discover", "request", "idle"} /\ c \in Client
<1>1. left[c] \in 0 .. Lease /\ attempt[c] \in 0 .. Attempts - 1 /\ faults \in Nat
      /\ cst[c] \in {"off", "discover", "request", "idle"}
  BY DEF TypeOK
<1>2. Attempts \in Nat /\ Attempts >= 1 /\ Lease \in Nat
  BY SizeAssumption
<1>3. Late(c) \in {0, 1} /\ c \in Client
  BY DEF Late, Client
<1> QED BY <1>1, <1>2, <1>3

\* While the network is bearable, a daemon that is up has a lease.
LEMMA HasLease ==
    ASSUME TypeOK, NEW c \in Tun, Lasts(c), up[c], Bearable
    PROVE  left[c] > 0
<1>1. /\ left[c] \in Nat /\ attempt[c] \in Nat /\ faults \in Nat /\ Attempts \in Nat /\ Attempts >= 1
      /\ faults < Attempts /\ cst[c] \in {"off", "discover", "request", "idle"}
  BY Numbers DEF Bearable
<1>2. CASE cst[c] = "idle"
  BY <1>1, <1>2 DEF Lasts
<1>3. CASE Waits(c) /\ c \in due
  <2>1. left[c] + attempt[c] + 1 >= Attempts /\ attempt[c] < faults
    BY <1>3 DEF Lasts, Late
  <2> QED BY <1>1, <2>1
<1>4. CASE Waits(c) /\ c \notin due
  <2>1. left[c] + attempt[c] + 0 >= Attempts /\ attempt[c] <= faults
    BY <1>4 DEF Lasts, Late
  <2> QED BY <1>1, <2>1
<1> QED BY <1>1, <1>2, <1>3, <1>4 DEF Lasts, Waits

\* A client that is served stays so.
LEMMA ServedStays ==
    ASSUME Lasting, [Next]_vars, NEW c, Served(c)
    PROVE  Served(c)'
<1>1. Learn \/ peers \subseteq peers'
  <2>1. ASSUME NEW d, learn_peer(d), ~HasFile PROVE peers \subseteq peers'
    BY <2>1 DEF learn_peer
  <2>2. ASSUME NEW m \in net \cup RawMessage, ServerRecv(m), ~HasFile PROVE peers \subseteq peers'
    BY <2>1, <2>2 DEF ServerRecv, ServerIgnore, ServerDiscover, ServerRequest, ServerRelease
  <2>3. ASSUME NEW S \in SUBSET Client, peer_file_load(S) PROVE HasFile
    BY <2>3 DEF peer_file_load
  <2>4. CASE \/ \E d \in Tun : TunStart(d) \/ TunRenewAsked(d) \/ TunStop(d) \/ TunTimer(d)
             \/ \E m \in net : TunRecv(m) \/ Lose(m)
             \/ Tick \/ UNCHANGED vars
    BY <2>4 DEF TunStart, TunRenewAsked, TunStop, TunTimer, TunRenew, TunResend, TunGiveUp, dhcp_acquire,
                TunRecv, TunRecvOffer, TunRecvAck, TunRecvOther, Lose, Tick, vars, serverVars
  <2> QED BY <2>2, <2>3, <2>4 DEF Next, Lasting
<1> QED BY <1>1 DEF Served, mac_allowed, check_msg

\* A step that leaves the daemon where it is: a frame it waits for stays, or costs a fault.
Stays(c) ==
    /\ cst'[c] = cst[c] /\ attempt'[c] = attempt[c] /\ left'[c] = left[c] /\ up'[c] = up[c]
    /\ c \in due' <=> c \in due
    /\ faults' \in Nat /\ faults' >= faults
    /\ \A m \in Of(c)' : m.type \in {"OFFER", "ACK"} => m \in Of(c) \/ Served(c)
    /\ up[c] /\ Bearable /\ Waits(c) /\ OnWay(c) => OnWay(c)' \/ faults' > faults

LEMMA StaysLasts ==
    ASSUME TypeOK, NEW c \in Tun, Lasts(c), Served(c) => Served(c)', Stays(c)
    PROVE  Lasts(c)'
<1>1. attempt[c] \in Nat /\ faults \in Nat /\ faults' \in Nat /\ faults' >= faults /\ Attempts \in Nat
  BY Numbers DEF Stays
<1>2. Bearable' => Bearable
  BY <1>1 DEF Bearable
<1>3. Late(c)' = Late(c) /\ (Waits(c)' <=> Waits(c))
  BY DEF Stays, Late, Waits
<1>4. ASSUME up[c], Bearable, Waits(c)
      PROVE  attempt[c] <= faults' /\ (c \in due \/ ~OnWay(c)' => attempt[c] < faults')
  <2>1. attempt[c] <= faults /\ (c \in due \/ ~OnWay(c) => attempt[c] < faults)
    BY <1>4 DEF Lasts
  <2>2. OnWay(c) => OnWay(c)' \/ faults' > faults
    BY <1>4 DEF Stays
  <2>3. CASE c \in due \/ ~OnWay(c)
    BY <1>1, <2>1, <2>3
  <2>4. CASE faults' > faults
    BY <1>1, <2>1, <2>4
  <2>5. CASE c \notin due /\ OnWay(c)'
    BY <1>1, <2>1, <2>5
  <2> QED BY <2>2, <2>3, <2>4, <2>5
<1>5. up'[c] => Served(c)'
  BY DEF Stays, Lasts
<1>6. \A m \in Of(c)' : m.type \in {"OFFER", "ACK"} => Served(c)'
  BY DEF Stays, Lasts
<1>7. ASSUME up'[c], Bearable'
      PROVE  /\ cst'[c] # "off"
             /\ cst'[c] = "idle" => left'[c] >= Attempts
             /\ Waits(c)' => /\ left'[c] + attempt'[c] + Late(c)' >= Attempts
                             /\ attempt'[c] <= faults'
                             /\ c \in due' \/ ~OnWay(c)' => attempt'[c] < faults'
  <2>1. up[c] /\ Bearable
    BY <1>2, <1>7 DEF Stays
  <2>2. cst[c] # "off" /\ (cst[c] = "idle" => left[c] >= Attempts)
        /\ (Waits(c) => left[c] + attempt[c] + Late(c) >= Attempts)
    BY <2>1 DEF Lasts
  <2> QED BY <1>3, <1>4, <2>1, <2>2 DEF Stays
<1> QED BY <1>5, <1>6, <1>7 DEF Lasts

\* Steps of others, and losses.
LEMMA OthersStay ==
    ASSUME TypeOK, NEW c \in Tun, UNCHANGED <<cst, attempt, left, up, due>>, faults' \in Nat,
           \/ Of(c)' = Of(c) /\ faults' >= faults
           \/ Of(c)' \subseteq Of(c) /\ faults' > faults
    PROVE  Stays(c)
<1>1. faults \in Nat
  BY DEF TypeOK
<1>2. OnWay(c) => OnWay(c)' \/ faults' > faults
  BY DEF OnWay, Answered
<1> QED BY <1>1, <1>2 DEF Stays

\* What a frame that is taken leaves behind.
LEMMA TakenLeaves ==
    ASSUME TypeOK, NEW m, NEW out, Taken(m, out)
    PROVE  /\ faults' \in Nat /\ faults' >= faults /\ out \subseteq net' /\ net \ {m} \subseteq net'
           /\ net' \subseteq net \cup out /\ (m \in net => m \in net' \/ faults' > faults \/ m \notin net')
           /\ faults' > faults \/ net' = (net \ {m}) \cup out
BY DEF Taken, TypeOK

\* The server and a message of another client.
LEMMA ServerStays ==
    ASSUME IndInv, NEW c \in Tun, NEW m \in net \cup RawMessage, ServerRecv(m), m.mac # c
    PROVE  Stays(c)
<1> DEFINE d == m.mac
<1>1. UNCHANGED <<cst, attempt, left, up, due>>
  BY DEF ServerRecv, ServerIgnore, ServerDiscover, ServerRequest, ServerRelease, clientVars
<1>2. TypeOK
  BY DEF IndInv
<1>3. \A type, a : \A n \in Reply(type, d, a) : n.mac = d
  BY DEF Reply, Msg
<1>4. ASSUME NEW out, Taken(m, out), \A n \in out : n.mac = d PROVE Stays(c)
  <2>1. faults' \in Nat /\ faults' >= faults /\ net' \subseteq net \cup out /\ net \ {m} \subseteq net'
    BY <1>2, <1>4, TakenLeaves
  <2>2. Of(c)' = Of(c)
    BY <1>4, <2>1 DEF Of
  <2> QED BY <1>1, <1>2, <2>1, <2>2, OthersStay
<1>5. CASE ServerRelease(m)
  BY <1>1, <1>2, <1>5, OthersStay DEF ServerRelease, Of, TypeOK
<1>6. CASE ServerIgnore(m)
  BY <1>4, <1>6 DEF ServerIgnore
<1>7. CASE ServerDiscover(m)
  BY <1>3, <1>4, <1>7 DEF ServerDiscover
<1>8. CASE ServerRequest(m)
  <2>1. Taken(m, Reply("ACK", d, m.addr)) \/ Taken(m, {})
    BY <1>8 DEF ServerRequest
  <2> QED BY <1>3, <1>4, <2>1
<1> QED BY <1>5, <1>6, <1>7, <1>8 DEF ServerRecv

\* The server and a message of c: the answer takes its place.
LEMMA ServerAnswers ==
    ASSUME IndInv, NEW c \in Tun, Believes(c), Lasts(c), NEW m \in net \cup RawMessage, m.mac = c, ServerRecv(m)
    PROVE  Stays(c)
<1>1. TypeOK /\ leases \in Table /\ One(leases) /\ c \in Client
  BY DEF IndInv, TypeOK, OneLease, One, Table, Client
<1>2. m \in net /\ m \in Of(c) /\ m.type # "RELEASE"
  <2>1. m \in RawMessage => m.mac \in Raw
    BY DEF RawMessage, Msg
  <2>2. m \in net
    BY <2>1, ClientAssumption
  <2>3. m.type # "RELEASE"
    BY <1>1, <2>2 DEF TypeOK, Message
  <2> QED BY <2>2, <2>3 DEF Of
<1>3. UNCHANGED <<cst, attempt, addr, left, up, due>> /\ faults \in Nat
  BY <1>1 DEF TypeOK, ServerRecv, ServerIgnore, ServerDiscover, ServerRequest, ServerRelease, clientVars
<1>4. /\ ServerIgnore(m) => Taken(m, {})
      /\ ServerDiscover(m) => m.type = "DISCOVER" /\ Served(c) /\ \E a : Taken(m, {Msg("OFFER", c, a)})
      /\ ServerRequest(m) => m.type = "REQUEST" /\ Served(c) /\ (Taken(m, {Msg("ACK", c, m.addr)}) \/ Taken(m, {}))
  BY DEF ServerIgnore, ServerDiscover, ServerRequest, Served, Reply
<1>5. ServerIgnore(m) \/ ServerDiscover(m) \/ ServerRequest(m)
  BY <1>2 DEF ServerRecv, ServerRelease
<1>6. \A a, t : Msg(t, c, a).mac = c /\ Msg(t, c, a).type = t /\ Msg(t, c, a).addr = a
  BY DEF Msg
<1>7. PICK out : Taken(m, out) /\ (\A n \in out : n.mac = c /\ Served(c) /\ n.type \in {"OFFER", "ACK"})
  <2>1. CASE ServerIgnore(m)
    BY <1>4, <2>1
  <2>2. CASE ServerDiscover(m)
    <3>1. PICK a : Taken(m, {Msg("OFFER", c, a)}) /\ Served(c)
      BY <1>4, <2>2
    <3> QED BY <1>6, <3>1
  <2>3. CASE ServerRequest(m)
    <3>1. CASE Taken(m, {Msg("ACK", c, m.addr)})
      BY <1>4, <1>6, <2>3, <3>1
    <3> QED BY <1>4, <2>3, <3>1
  <2> QED BY <1>5, <2>1, <2>2, <2>3
<1>8. /\ faults' \in Nat /\ faults' >= faults /\ net' \subseteq net \cup out /\ net \ {m} \subseteq net'
      /\ faults' > faults \/ net' = (net \ {m}) \cup out
  BY <1>1, <1>7, TakenLeaves
<1>9. \A n \in Of(c)' : n.type \in {"OFFER", "ACK"} => n \in Of(c) \/ Served(c)
  BY <1>7, <1>8 DEF Of
<1>10. ASSUME up[c], Bearable, Waits(c), OnWay(c) PROVE OnWay(c)' \/ faults' > faults
  <2>1. PICK n \in Of(c) : n.type \in Answered(c)
    BY <1>10 DEF OnWay
  <2>2. Answered(c)' = Answered(c)
    BY <1>3 DEF Answered
  <2>3. CASE n # m
    <3>1. n \in Of(c)'
      BY <1>8, <2>1, <2>3 DEF Of
    <3> QED BY <2>1, <2>2, <3>1 DEF OnWay
  <2>4. CASE n = m
    <3>1. Served(c) /\ Leased(c, addr[c], left[c])
      <4>1. left[c] > 0
        BY <1>1, <1>10, HasLease
      <4> QED BY <1>10, <4>1 DEF Believes, Holds, Lasts
    <3>2. alloc_ok(leases, c)
      BY <3>1 DEF alloc_ok, lease_find, Leased, LeasedIn, live
    <3>3. CASE ServerIgnore(m)
      <4>1. m.type \notin {"DISCOVER", "REQUEST"}
        BY <1>2, <3>1, <3>2, <3>3 DEF ServerIgnore, Served
      <4> QED BY <3>3, <4>1 DEF ServerIgnore
    <3>4. CASE ServerDiscover(m)
      <4>1. PICK a : Taken(m, {Msg("OFFER", c, a)})
        BY <1>4, <3>4
      <4>2. Msg("OFFER", c, a) \in Of(c)'
        BY <1>1, <1>6, <4>1, TakenLeaves DEF Of
      <4>3. cst[c] = "discover"
        BY <1>4, <1>10, <2>1, <2>4, <3>4 DEF Answered, Waits
      <4> QED BY <1>3, <1>6, <4>2, <4>3 DEF OnWay, Answered
    <3>5. CASE ServerRequest(m)
      <4>1. cst[c] = "request" /\ m.addr = addr[c]
        <5>1. cst[c] = "request"
          BY <1>4, <1>10, <2>1, <2>4, <3>5 DEF Answered, Waits
        <5> QED BY <1>2, <1>4, <3>5, <5>1 DEF Believes, Wires
      <4>2. Taken(m, {Msg("ACK", c, m.addr)})
        <5> DEFINE U == lease_alloc(leases, c)
                   a == U[lease_of(U, c)].addr
        <5>1. addr[c] = a
          BY <1>1, <3>1, <3>2, AllocOwn DEF Leased
        <5>2. may_have(U, c, m.addr)
          BY <4>1, <5>1 DEF may_have
        <5>3. Taken(m, Reply("ACK", c, m.addr))
          BY <3>5, <5>2 DEF ServerRequest
        <5> QED BY <5>3 DEF Reply
      <4>3. Msg("ACK", c, m.addr) \in Of(c)'
        BY <1>1, <1>6, <4>2, TakenLeaves DEF Of
      <4> QED BY <1>3, <1>6, <4>1, <4>3 DEF OnWay, Answered
    <3> QED BY <1>5, <3>3, <3>4, <3>5
  <2> QED BY <2>3, <2>4
<1> QED BY <1>3, <1>8, <1>9, <1>10 DEF Stays

\* The daemon's own steps.  It starts to wait with its message on its way.
LEMMA SendLasts ==
    ASSUME Lasting, TypeOK, NEW c \in Tun, Lasts(c), Served(c) => Served(c)', c \notin due',
           Waits(c)', OnWay(c)', up'[c] = up[c], faults' \in Nat, faults' >= faults, attempt'[c] \in Nat,
           \A m \in Of(c)' : m.type \in {"OFFER", "ACK"} => m \in Of(c),
           up[c] /\ Bearable => attempt'[c] <= faults' /\ left'[c] \in Nat /\ left'[c] + attempt'[c] >= Attempts
    PROVE  Lasts(c)'
<1>1. Bearable' => Bearable
  BY Numbers DEF Bearable
<1>2. Late(c)' = 0
  BY DEF Late
<1>3. (\A m \in Of(c)' : m.type \in {"OFFER", "ACK"} => Served(c)') /\ (up'[c] => Served(c)')
  BY DEF Lasts
<1>4. cst'[c] # "off" /\ cst'[c] # "idle"
  BY DEF Waits
<1>5. up[c] /\ Bearable => attempt'[c] <= faults' /\ left'[c] + attempt'[c] + Late(c)' >= Attempts
  BY <1>2, Numbers
<1> QED BY <1>1, <1>3, <1>4, <1>5 DEF Lasts

\* A daemon starts, is told to renew, stops, or a wait or its lease's time is up.
LEMMA TimerLasts ==
    ASSUME Lasting, TypeOK, NEW c \in Tun, Believes(c), Lasts(c), Served(c) => Served(c)',
           TunStart(c) \/ TunRenewAsked(c) \/ TunStop(c) \/ TunTimer(c)
    PROVE  Lasts(c)'
<1>1. /\ left[c] \in Nat /\ attempt[c] \in Nat /\ attempt[c] < Attempts /\ faults \in Nat /\ Attempts \in Nat
      /\ c \in due => Waits(c)
  BY Numbers DEF Believes, Wires, Waits
<1>2. CASE TunStart(c) \/ TunRenewAsked(c) \/ TunRenew(c)
  <2>1. /\ c \notin due' /\ cst'[c] = "discover" /\ attempt'[c] = 0 /\ UNCHANGED <<left, up, faults>>
        /\ net' = net \cup DISCOVER(c) /\ cst[c] \in {"off", "idle"}
    BY <1>1, <1>2 DEF TunStart, TunRenewAsked, TunRenew, dhcp_acquire, TypeOK, Waits
  <2>2. Msg("DISCOVER", c, NoAddr).mac = c /\ Msg("DISCOVER", c, NoAddr).type = "DISCOVER"
    BY DEF Msg
  <2>3. Waits(c)' /\ OnWay(c)'
    BY <2>1, <2>2 DEF Waits, OnWay, Answered, Of, DISCOVER
  <2>4. \A m \in Of(c)' : m.type \in {"OFFER", "ACK"} => m \in Of(c)
    BY <2>1, <2>2 DEF Of, DISCOVER
  <2>5. up[c] /\ Bearable => left[c] >= Attempts
    BY <2>1 DEF Lasts
  <2> QED BY <1>1, <2>1, <2>3, <2>4, <2>5, SendLasts
<1>3. CASE TunStop(c)
  <2>1. ~up'[c] /\ Of(c)' = Of(c)
    BY <1>3 DEF TunStop, TypeOK, Of
  <2> QED BY <2>1 DEF Lasts
<1>4. CASE TunResend(c)
  <2>1. /\ c \in due /\ c \notin due' /\ attempt'[c] = attempt[c] + 1 /\ UNCHANGED <<left, up, faults, cst>> /\ addr' = addr
        /\ net' = net \cup (IF cst[c] = "discover" THEN DISCOVER(c) ELSE REQUEST(c)) /\ Waits(c)
    BY <1>1, <1>4 DEF TunResend, TypeOK
  <2>2. \A t, a : Msg(t, c, a).mac = c /\ Msg(t, c, a).type = t
    BY DEF Msg
  <2>3. Waits(c)' /\ OnWay(c)'
    <3>1. CASE cst[c] = "discover"
      BY <2>1, <2>2, <3>1 DEF Waits, OnWay, Answered, Of, DISCOVER
    <3>2. CASE cst[c] = "request"
      BY <2>1, <2>2, <3>2 DEF Waits, OnWay, Answered, Of, REQUEST
    <3> QED BY <2>1, <3>1, <3>2 DEF Waits
  <2>4. \A m \in Of(c)' : m.type \in {"OFFER", "ACK"} => m \in Of(c)
    BY <2>1, <2>2 DEF Of, DISCOVER, REQUEST
  <2>5. up[c] /\ Bearable => attempt[c] < faults /\ left[c] + attempt[c] + 1 >= Attempts
    BY <2>1 DEF Lasts, Late
  <2>6. attempt'[c] \in Nat /\ (up[c] /\ Bearable => attempt'[c] <= faults' /\ left'[c] \in Nat /\ left'[c] + attempt'[c] >= Attempts)
    BY <1>1, <2>1, <2>5
  <2> QED BY <1>1, <2>1, <2>3, <2>4, <2>6, SendLasts
<1>5. CASE TunGiveUp(c)
  <2>1. c \in due /\ attempt[c] + 1 >= Attempts /\ UNCHANGED <<faults, up>> /\ Of(c)' = Of(c)
    BY <1>1, <1>5 DEF TunGiveUp, attempts_left, Of
  <2>2. ~(up[c] /\ Bearable)
    BY <1>1, <2>1 DEF Lasts, Bearable
  <2> QED BY <2>1, <2>2 DEF Lasts, Bearable
<1> QED BY <1>2, <1>3, <1>4, <1>5 DEF TunTimer

\* A daemon is answered.
LEMMA RecvLasts ==
    ASSUME Lasting, TypeOK, NEW c \in Tun, Believes(c), Lasts(c), Served(c) => Served(c)', NEW m \in net, m.mac = c, TunRecv(m)
    PROVE  Lasts(c)'
<1>1. /\ left[c] \in Nat /\ attempt[c] \in Nat /\ faults \in Nat /\ Attempts \in Nat /\ Lease \in Nat /\ Lease >= Attempts
  BY Numbers DEF Lasting
<1>2. m \in Of(c) /\ c \notin due
  BY DEF Of, Believes, Wires
<1>3. CASE TunRecvOffer(m)
  <2>1. /\ cst'[c] = "request" /\ attempt'[c] = 0 /\ left'[c] = Lease /\ up' = up /\ c \notin due' /\ Taken(m, REQUEST(c))
    BY <1>3 DEF TunRecvOffer, TypeOK
  <2>2. Msg("REQUEST", c, addr'[c]).mac = c /\ Msg("REQUEST", c, addr'[c]).type = "REQUEST"
    BY DEF Msg
  <2>3. faults' \in Nat /\ faults' >= faults /\ REQUEST(c) \subseteq net' /\ net' \subseteq net \cup REQUEST(c)
    BY <2>1, TakenLeaves
  <2>4. Waits(c)' /\ OnWay(c)'
    BY <2>1, <2>2, <2>3 DEF Waits, OnWay, Answered, Of, REQUEST
  <2>5. \A n \in Of(c)' : n.type \in {"OFFER", "ACK"} => n \in Of(c)
    BY <2>2, <2>3 DEF Of, REQUEST
  <2> QED BY <1>1, <1>2, <2>1, <2>3, <2>4, <2>5, SendLasts
<1>4. CASE TunRecvAck(m)
  <2>1. /\ cst'[c] = "idle" /\ left'[c] = Lease /\ m.type = "ACK" /\ Taken(m, {})
    BY <1>4 DEF TunRecvAck, TypeOK
  <2>2. Of(c)' \subseteq Of(c)
    BY <2>1, TakenLeaves DEF Of
  <2>3. Served(c)'
    BY <1>2, <2>1 DEF Lasts
  <2>4. ~Waits(c)'
    BY <2>1 DEF Waits
  <2> QED BY <1>1, <2>1, <2>2, <2>3, <2>4 DEF Lasts
<1>5. CASE TunRecvOther(m)
  <2>1. UNCHANGED <<cst, attempt, left, up, due>> /\ Taken(m, {}) /\ (Waits(c) => m.type \notin Answered(c))
    BY <1>5 DEF TunRecvOther, clientVars, Waits, Answered
  <2>2. faults' \in Nat /\ faults' >= faults /\ net \ {m} \subseteq net' /\ net' \subseteq net
    BY <2>1, TakenLeaves
  <2>3. Of(c)' \subseteq Of(c) /\ \A n \in Of(c) : n # m => n \in Of(c)'
    BY <2>2 DEF Of
  <2>4. Waits(c) /\ OnWay(c) => OnWay(c)'
    BY <2>1, <2>3 DEF OnWay, Answered
  <2>5. Stays(c)
    BY <2>1, <2>2, <2>3, <2>4 DEF Stays
  <2> QED BY <2>5, StaysLasts
<1> QED BY <1>3, <1>4, <1>5 DEF TunRecv

\* Time passes when nothing is on its way: whoever waits has lost a frame since it last sent.
LEMMA TickLasts == ASSUME Lasting, TypeOK, NEW c \in Tun, Lasts(c), Served(c) => Served(c)', Tick PROVE Lasts(c)'
<1>1. /\ left[c] \in Nat /\ attempt[c] \in Nat /\ faults \in Nat /\ Attempts \in Nat /\ Attempts >= 1 /\ Lease \in Nat
  BY Numbers
<1>2. /\ net = {} /\ due = {} /\ ~Overdue(c) /\ left'[c] = Less(left[c]) /\ (c \in due' <=> Waits(c))
      /\ UNCHANGED <<cst, attempt, up, net, faults>>
  BY DEF Tick, Lasting, Waiting, Waits
<1>3. Of(c) = {} /\ Of(c)' = {} /\ ~OnWay(c) /\ (Waits(c)' <=> Waits(c)) /\ (Bearable' <=> Bearable) /\ Late(c) = 0
      /\ (Waits(c) => Late(c)' = 1)
  BY <1>2 DEF Of, OnWay, Waits, Bearable, Late
<1>4. ASSUME up[c], Bearable
      PROVE  /\ cst[c] # "off" /\ (cst[c] = "idle" => left'[c] >= Attempts)
             /\ Waits(c) => left'[c] + attempt[c] + 1 >= Attempts /\ attempt[c] < faults
  <2>1. left'[c] = left[c] - 1
    BY <1>1, <1>2, <1>4, HasLease DEF Less
  <2>2. CASE cst[c] = "idle"
    <3>1. left[c] >= Lease \div 3 \/ left[c] > (Lease + 5) \div 6
      BY <1>1, <1>2, <2>2 DEF Overdue
    <3>2. Lease \div 3 \in Nat /\ (Lease + 5) \div 6 \in Nat
      BY <1>1
    <3>3. left[c] > Attempts
      <4>1. Attempts <= (Lease + 5) \div 6 /\ Attempts < Lease \div 3
        BY DEF Lasting
      <4> DEFINE p == Lease \div 3
                 q == (Lease + 5) \div 6
      <4>2. (left[c] >= p \/ left[c] > q) /\ p \in Nat /\ q \in Nat /\ Attempts <= q /\ Attempts < p
        BY <3>1, <3>2, <4>1
      <4> HIDE DEF p, q
      <4> QED BY <1>1, <4>2
    <3>4. ~Waits(c) /\ cst[c] # "off"
      BY <2>2 DEF Waits
    <3> QED BY <1>1, <2>1, <3>3, <3>4
  <2>3. CASE Waits(c)
    <3>1. left[c] + attempt[c] + 0 >= Attempts /\ attempt[c] < faults /\ cst[c] \notin {"off", "idle"}
      BY <1>3, <1>4, <2>3 DEF Lasts, Waits
    <3> QED BY <1>1, <2>1, <3>1
  <2> QED BY <1>4, <2>2, <2>3, Numbers DEF Lasts, Waits
<1>5. ASSUME up'[c], Bearable'
      PROVE  /\ cst'[c] # "off" /\ (cst'[c] = "idle" => left'[c] >= Attempts)
             /\ Waits(c)' => /\ left'[c] + attempt'[c] + Late(c)' >= Attempts
                             /\ attempt'[c] <= faults'
                             /\ c \in due' \/ ~OnWay(c)' => attempt'[c] < faults'
  <2>1. up[c] /\ Bearable
    BY <1>2, <1>3, <1>5
  <2>2. CASE Waits(c)
    <3>1. left'[c] + attempt[c] + 1 >= Attempts /\ attempt[c] < faults /\ Late(c)' = 1
      BY <1>3, <1>4, <2>1, <2>2
    <3>2. attempt[c] <= faults
      BY <1>1, <3>1
    <3> QED BY <1>2, <1>4, <2>1, <3>1, <3>2
  <2>3. CASE ~Waits(c)
    BY <1>2, <1>3, <1>4, <2>1, <2>3
  <2> QED BY <2>2, <2>3
<1>6. up'[c] => Served(c)'
  BY <1>2 DEF Lasts
<1> QED BY <1>3, <1>5, <1>6 DEF Lasts

\* Every step keeps it.
LEMMA LastsStep == ASSUME Lasting PROVE IndInv /\ Believed /\ AllLast /\ [Next]_vars => AllLast'
<1> SUFFICES ASSUME IndInv, Believed, AllLast, [Next]_vars, NEW c \in Tun PROVE Lasts(c)'
  BY DEF AllLast
<1>1. TypeOK /\ Believes(c) /\ Lasts(c) /\ faults \in Nat
  BY DEF IndInv, Believed, AllLast, TypeOK
<1>2. Served(c) => Served(c)'
  BY ServedStays
<1>3. ASSUME Stays(c) PROVE Lasts(c)'
  BY <1>1, <1>2, <1>3, StaysLasts
<1>4. ASSUME NEW d \in Tun, TunStart(d) \/ TunRenewAsked(d) \/ TunStop(d) \/ TunTimer(d) PROVE Lasts(c)'
  <2>1. CASE d = c
    BY <1>1, <1>2, <1>4, <2>1, TimerLasts
  <2>2. CASE d # c
    <3>1. /\ cst'[c] = cst[c] /\ attempt'[c] = attempt[c] /\ left'[c] = left[c] /\ up'[c] = up[c] /\ (c \in due' <=> c \in due)
          /\ faults' = faults
      BY <1>1, <1>4, <2>2 DEF TypeOK, TunStart, TunRenewAsked, TunStop, TunTimer, TunRenew, TunResend, TunGiveUp, dhcp_acquire
    <3>2. \A n \in DISCOVER(d) \cup REQUEST(d) : n.mac = d
      BY DEF DISCOVER, REQUEST, Msg
    <3>3. Of(c)' = Of(c)
      BY <1>4, <2>2, <3>2 DEF TunStart, TunRenewAsked, TunStop, TunTimer, TunRenew, TunResend, TunGiveUp, dhcp_acquire, Of
    <3> QED BY <1>1, <1>3, <3>1, <3>3 DEF Stays, OnWay, Answered
  <2> QED BY <2>1, <2>2
<1>5. ASSUME NEW m \in net, TunRecv(m) PROVE Lasts(c)'
  <2>1. CASE m.mac = c
    BY <1>1, <1>2, <1>5, <2>1, RecvLasts
  <2>2. CASE m.mac # c
    <3> DEFINE d == m.mac
    <3>1. d \in Tun
      BY <1>1 DEF TypeOK, Message
    <3>2. /\ cst'[c] = cst[c] /\ attempt'[c] = attempt[c] /\ left'[c] = left[c] /\ up'[c] = up[c] /\ (c \in due' <=> c \in due)
      BY <1>1, <1>5, <2>2 DEF TypeOK, TunRecv, TunRecvOffer, TunRecvAck, TunRecvOther, clientVars
    <3>3. \A n \in REQUEST(d) : n.mac = d
      BY DEF REQUEST, Msg
    <3>4. PICK out : Taken(m, out) /\ \A n \in out : n.mac = d
      <4>1. Taken(m, REQUEST(d)) \/ Taken(m, {})
        BY <1>5 DEF TunRecv, TunRecvOffer, TunRecvAck, TunRecvOther
      <4> QED BY <3>3, <4>1
    <3>5. faults' \in Nat /\ faults' >= faults /\ net' \subseteq net \cup out /\ net \ {m} \subseteq net'
      BY <1>1, <3>4, TakenLeaves
    <3>6. Of(c)' = Of(c)
      BY <2>2, <3>4, <3>5 DEF Of
    <3> QED BY <1>1, <1>3, <3>2, <3>5, <3>6 DEF Stays, OnWay, Answered
  <2> QED BY <2>1, <2>2
<1>6. ASSUME NEW m \in net, Lose(m) PROVE Lasts(c)'
  <2>1. UNCHANGED <<cst, attempt, left, up, due>> /\ faults' \in Nat /\ faults' > faults /\ Of(c)' \subseteq Of(c)
    BY <1>1, <1>6 DEF Lose, clientVars, Of
  <2> QED BY <1>1, <1>3, <2>1, OthersStay
<1>7. ASSUME NEW m \in net \cup RawMessage, ServerRecv(m) PROVE Lasts(c)'
  BY <1>1, <1>3, <1>7, ServerStays, ServerAnswers
<1>8. CASE UNCHANGED vars \/ \E S \in SUBSET Client : peer_file_load(S)
  <2>1. UNCHANGED <<cst, attempt, left, up, due, faults>> /\ Of(c)' = Of(c)
    BY <1>8 DEF vars, clientVars, peer_file_load, Of
  <2>2. faults' \in Nat /\ faults' >= faults
    BY <1>1, <2>1
  <2> QED BY <1>1, <1>3, <2>1, <2>2, OthersStay
<1>9. CASE Tick
  BY <1>1, <1>2, <1>9, TickLasts
<1> QED BY <1>4, <1>5, <1>6, <1>7, <1>8, <1>9 DEF Next

\* On a timely network that loses or repeats fewer frames than dhcp_acquire makes attempts, a daemon that
\* is up never finds its lease expired, whoever else competes for the addresses and slots: it
\* renews at a third of the lease and looks again before a sixth is left (cmd_tun), its server still has
\* the address leased to it and answers every message, so each wait that expires has cost a frame.
\* The lease must be long enough for the attempts, and the server must not forget the key.
THEOREM LeaseOutlivesLoss == ASSUME Lasting PROVE Spec => []NeverLapses
<1>1. Init => Believed /\ AllLast
  BY DEF Init, Believed, Believes, Wires, Of, Holds, AllLast, Lasts
<1>2. IndInv /\ AllLast => NeverLapses
  BY HasLease DEF IndInv, AllLast, NeverLapses
<1>3. IndInv /\ Believed /\ AllLast /\ [Next]_vars => Believed' /\ AllLast'
  BY BelievedStep, LastsStep DEF Lasting
<1> QED BY <1>1, <1>2, <1>3, IndInit, IndStep, PTL DEF Spec
=============================================================================
