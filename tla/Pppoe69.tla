------------------------------- MODULE Pppoe69 -------------------------------
(***************************************************************************)
(* PPPoE69 (c/src/IPv69/pppoe69.c): an access concentrator, the AC, and the *)
(* hosts that dial it.  Dialing is PADI, PADO, PADR, PADS; a session then   *)
(* carries whole frames between the host's TAP and the AC, which answers    *)
(* for, switches between or bridges to its island what they hold.           *)
(*                                                                          *)
(* A host is the MAC it dials with, its key and, on its TAP, its wire MAC.  *)
(* The wire between a host and the AC keeps the order of frames and loses   *)
(* some.  A frame that rate_allow refuses is one that is lost.              *)
(***************************************************************************)
EXTENDS Integers, Sequences, FiniteSets, Least

CONSTANTS
    Host,         \* the hosts
    NoHost,       \* no host: the island, the AC, a MAC not learned, an unused session
    Addr,         \* addresses of hosts and of the island
    AcAddr,       \* the AC's own address
    NoAddr,       \* address 0
    MaxSessions,  \* MAX_SESSIONS, 64
    MaxSid,       \* 0xffff
    MaxPeers,     \* MAX_PEERS, 64
    Attempts,     \* 3
    Confs,        \* how the AC may be started: see Conf
    Wire          \* bound: frames on the wire to or from a host, for one more to be sent

VARIABLES
    conf,
    \* AC
    sess,         \* sess[0 .. MAX_SESSIONS-1]
    peers,        \* peers[0 .. n_peers-1]
    file,         \* the keys of the peer file
    \* hosts
    hst,          \* [Host -> where host_dial or the session loop is]
    sid,          \* [Host -> h->sid]
    attempt,      \* [Host -> attempt]
    owner,        \* [Addr -> the host that has the lease; NoHost is the island]
    \* environment
    toAc, toHost, \* the wire
    faults, edits,
    \* history
    orphan        \* hosts that believe in a session, or soon will, that went away untold

acVars == <<sess, peers, file>>
hostVars == <<hst, sid, attempt>>
wires == <<toAc, toHost>>
vars == <<conf, acVars, hostVars, owner, wires, faults, edits, orphan>>

Slot == 1 .. MaxSessions
Sid == 1 .. MaxSid

\* Sessions there is room for, --peer, the peer file (NoFile: none given), --learn, who
\* has which address and the frames hosts and the island send; bounds on the frames lost, the
\* timers early and restarts, and on leases that change hands and edits of the peer file.
NoFile == {NoHost}
Conf == [slots : Slot, cli : SUBSET Host, file : (SUBSET Host) \cup {NoFile}, learn : BOOLEAN,
         owner : [Addr -> Host \cup {NoHost}], kinds : SUBSET {"discover", "request", "nd", "uni", "island"}, faults : Nat, edits : Nat]

ASSUME NameAssumption == NoHost \notin Host /\ AcAddr \in Addr /\ NoAddr \notin Addr /\ Host \cap Addr = {}
ASSUME SizeAssumption == MaxSessions \in Nat /\ MaxSid \in Nat /\ MaxSid >= MaxSessions /\ MaxPeers \in Nat /\ Attempts \in Nat \ {0} /\ Wire \in Nat
ASSUME ConfAssumption == \A k \in Confs : k \in Conf /\ k.owner[AcAddr] = NoHost

Session == [cmac : Host \cup {NoHost}, sid : 0 .. MaxSid, wmac : Host \cup {NoHost}, addr : Addr \cup {NoAddr}, idle : BOOLEAN]
Unused == [cmac |-> NoHost, sid |-> 0, wmac |-> NoHost, addr |-> NoAddr, idle |-> FALSE]    \* memset
Up == [type : {"PADI", "PADR"}] \cup [type : {"PADT"}, sid : 0 .. MaxSid]
      \cup [type : {"discover", "request", "nd", "uni"}, sid : 0 .. MaxSid, src : Addr \cup {NoAddr}, dst : Addr \cup {NoAddr}]
Down == [type : {"PADO"}] \cup [type : {"PADS", "PADT"}, sid : 0 .. MaxSid]
        \cup [type : {"data"}, sid : 0 .. MaxSid, dst : Addr \cup Host] \cup [type : {"ndreply"}, sid : 0 .. MaxSid, dst : Addr, mac : Host \cup {NoHost}]

TypeOK ==
    /\ conf \in Confs
    /\ sess \in [Slot -> Session] /\ peers \subseteq Host /\ file \subseteq Host
    /\ hst \in [Host -> {"off", "padi", "padr", "up"}] /\ sid \in [Host -> 0 .. MaxSid] /\ attempt \in [Host -> 0 .. Attempts - 1]
    /\ owner \in [Addr -> Host \cup {NoHost}]
    /\ toAc \in [Host -> Seq(Up)] /\ toHost \in [Host -> Seq(Down)]
    /\ faults \in Nat /\ edits \in Nat /\ orphan \subseteq Host

HasFile == conf.file # NoFile
auth_enabled == conf.cli # {} \/ HasFile
InFile == IF HasFile THEN conf.file ELSE {}

Init ==
    /\ conf \in Confs
    /\ sess = [i \in Slot |-> Unused] /\ peers = conf.cli \cup InFile /\ file = InFile
    /\ hst = [h \in Host |-> "off"] /\ sid = [h \in Host |-> 0] /\ attempt = [h \in Host |-> 0]
    /\ owner = conf.owner
    /\ toAc = [h \in Host |-> <<>>] /\ toHost = [h \in Host |-> <<>>]
    /\ faults = 0 /\ edits = 0 /\ orphan = {}

-----------------------------------------------------------------------------
(* The session table.                                                        *)

used(i) == sess[i].cmac # NoHost
sess_by_cmac(h) == {i \in Slot : used(i) /\ sess[i].cmac = h}
sess_by_sid(n) == {i \in Slot : used(i) /\ sess[i].sid = n}
sess_by_addr(T, a) == {i \in Slot : T[i].cmac # NoHost /\ T[i].addr = a /\ a # NoAddr}
sess_by_wmac(h) == {i \in Slot : used(i) /\ sess[i].wmac = h}

free_slots == {i \in 1 .. conf.slots : ~used(i)}
free_sids == {n \in Sid : sess_by_sid(n) = {}}

\* Mutant: slot 0 is taken for no slot.
slot_found_nonzero == free_slots # {} /\ First(free_slots) # 1

slot_found == free_slots # {}

Opened(h, n) == [cmac |-> h, sid |-> n, wmac |-> NoHost, addr |-> NoAddr, idle |-> FALSE]

\* Mutant: ids start at 1 for every host.
sess_alloc_first(h) == [sess EXCEPT ![First(free_slots)] = Opened(h, 1)]

\* The first free slot, zeroed, with the lowest id no session has.
sess_alloc(h) == [sess EXCEPT ![First(free_slots)] = Opened(h, First(free_sids))]

sess_free(i) == [sess EXCEPT ![i] = Unused]

-----------------------------------------------------------------------------
(* The wire.                                                                 *)

Say(q, h, m) == [q EXCEPT ![h] = Append(@, m)]
Got(q, h) == [q EXCEPT ![h] = Tail(@)]
ac_session_send(i, m) == Say(toHost, sess[i].cmac, m)

\* What a host or the island sends of its own accord waits for the wire to clear.
Room(q, h) == Len(q[h]) < Wire

-----------------------------------------------------------------------------
(* The host: host_dial, then the loop of cmd_pppoe_host.                     *)

Dial(h) ==
    /\ hst[h] = "off" /\ Room(toAc, h)
    /\ hst' = [hst EXCEPT ![h] = "padi"] /\ attempt' = [attempt EXCEPT ![h] = 0]
    /\ toAc' = Say(toAc, h, [type |-> "PADI"])
    /\ orphan' = IF \E k \in DOMAIN toHost[h] : toHost[h][k].type = "PADS" THEN orphan ELSE orphan \ {h}
    /\ UNCHANGED <<conf, acVars, sid, owner, toHost, faults, edits>>

Pado(h) ==
    /\ hst[h] = "padi" /\ toHost[h] # <<>> /\ Head(toHost[h]).type = "PADO"
    /\ toHost' = Got(toHost, h) /\ toAc' = Say(toAc, h, [type |-> "PADR"])
    /\ hst' = [hst EXCEPT ![h] = "padr"] /\ attempt' = [attempt EXCEPT ![h] = 0]
    /\ UNCHANGED <<conf, acVars, sid, owner, faults, edits, orphan>>

Pads(h) ==
    /\ hst[h] = "padr" /\ toHost[h] # <<>> /\ Head(toHost[h]).type = "PADS"
    /\ toHost' = Got(toHost, h)
    /\ hst' = [hst EXCEPT ![h] = "up"] /\ sid' = [sid EXCEPT ![h] = Head(toHost[h]).sid]
    /\ UNCHANGED <<conf, acVars, attempt, owner, toAc, faults, edits, orphan>>

Padt(h) ==
    /\ hst[h] = "up" /\ toHost[h] # <<>> /\ Head(toHost[h]).type = "PADT" /\ Head(toHost[h]).sid = sid[h]
    /\ toHost' = Got(toHost, h) /\ hst' = [hst EXCEPT ![h] = "off"]
    /\ UNCHANGED <<conf, acVars, sid, attempt, owner, toAc, faults, edits, orphan>>

\* Whatever else arrives: dropped by host_wait_ctrl, or by the loop, or written to the TAP.
Other(h) ==
    /\ toHost[h] # <<>>
    /\ LET m == Head(toHost[h])
       IN ~(hst[h] = "padi" /\ m.type = "PADO") /\ ~(hst[h] = "padr" /\ m.type = "PADS")
          /\ ~(hst[h] = "up" /\ m.type = "PADT" /\ m.sid = sid[h])
    /\ toHost' = Got(toHost, h)
    /\ UNCHANGED <<conf, acVars, hostVars, owner, toAc, faults, edits, orphan>>

\* 1500 ms pass; an answer that comes at all comes before, unless the network is slow.
Slow(h) == toAc[h] # <<>> \/ toHost[h] # <<>>
Timeout(h) ==
    /\ hst[h] \in {"padi", "padr"}
    /\ faults' = IF Slow(h) THEN faults + 1 ELSE faults
    /\ \/ /\ attempt[h] < Attempts - 1
          /\ attempt' = [attempt EXCEPT ![h] = @ + 1]
          /\ toAc' = Say(toAc, h, [type |-> IF hst[h] = "padi" THEN "PADI" ELSE "PADR"])
          /\ UNCHANGED hst
       \/ /\ attempt[h] = Attempts - 1
          /\ hst' = [hst EXCEPT ![h] = "off"]
          /\ UNCHANGED <<attempt, toAc>>
    /\ UNCHANGED <<conf, acVars, sid, owner, toHost, edits, orphan>>

\* g_quit, or no TAP: PADT.
Quit(h) ==
    /\ hst[h] = "up" /\ Room(toAc, h)
    /\ hst' = [hst EXCEPT ![h] = "off"]
    /\ toAc' = Say(toAc, h, [type |-> "PADT", sid |-> sid[h]])
    /\ UNCHANGED <<conf, acVars, sid, attempt, owner, toHost, faults, edits, orphan>>

\* The process is gone without a word.
Crash(h) ==
    /\ hst[h] # "off" /\ faults' = faults + 1
    /\ hst' = [hst EXCEPT ![h] = "off"]
    /\ UNCHANGED <<conf, acVars, sid, attempt, owner, wires, edits, orphan>>

\* A frame of the TAP.  A host uses the addresses it has a lease for; it asks for such an
\* address, or about any.
Inner(h, kind, s, d) ==
    /\ hst[h] = "up" /\ Room(toAc, h) /\ (\A x \in Host : Room(toHost, x)) /\ kind \in conf.kinds
    /\ s \in {NoAddr} \cup {a \in Addr : owner[a] = h}
    /\ \/ kind = "discover" /\ s = NoAddr /\ d = NoAddr
       \/ kind = "request" /\ d # NoAddr /\ owner[d] = h /\ s \in {d, NoAddr}
       \/ kind = "nd" /\ s = NoAddr /\ d # NoAddr
       \/ kind = "uni" /\ s # NoAddr /\ d \notin {s, NoAddr}
    /\ toAc' = Say(toAc, h, [type |-> kind, sid |-> sid[h], src |-> s, dst |-> d])
    /\ UNCHANGED <<conf, acVars, hostVars, owner, toHost, faults, edits, orphan>>

-----------------------------------------------------------------------------
(* The AC takes a frame of a host: ac_rx.                                    *)

Arrives(h, type) == toAc[h] # <<>> /\ Head(toAc[h]).type = type

AcPadi(h) ==
    /\ Arrives(h, "PADI")
    /\ toAc' = Got(toAc, h) /\ toHost' = Say(toHost, h, [type |-> "PADO"])
    /\ UNCHANGED <<conf, acVars, hostVars, owner, faults, edits, orphan>>

check_padr(h) == ~auth_enabled \/ h \in peers \/ conf.learn
learns(h) == auth_enabled /\ h \notin peers /\ conf.learn /\ Cardinality(peers) < MaxPeers

\* A learned key goes into the peer file, which the loop finds changed and loads before the
\* next frame: --peer keys are gone then.
learn_pub(h) ==
    IF learns(h)
    THEN /\ file' = IF HasFile THEN file \cup {h} ELSE file
         /\ peers' = IF HasFile THEN file \cup {h} ELSE peers \cup {h}
    ELSE UNCHANGED <<file, peers>>

\* A host that has a session gets its id again, and its idle time goes on.
AcPadr(h) ==
    /\ Arrives(h, "PADR") /\ check_padr(h)
    /\ learn_pub(h) /\ toAc' = Got(toAc, h)
    /\ \/ /\ sess_by_cmac(h) # {}
          /\ toHost' = Say(toHost, h, [type |-> "PADS", sid |-> sess[First(sess_by_cmac(h))].sid])
          /\ UNCHANGED sess
       \/ /\ sess_by_cmac(h) = {} /\ slot_found
          /\ toHost' = Say(toHost, h, [type |-> "PADS", sid |-> First(free_sids)])
          /\ sess' = sess_alloc(h)
       \/ /\ sess_by_cmac(h) = {} /\ ~slot_found
          /\ UNCHANGED <<toHost, sess>>
    /\ UNCHANGED <<conf, hostVars, owner, faults, edits, orphan>>

AcRefuse(h) ==
    /\ Arrives(h, "PADR") /\ ~check_padr(h)
    /\ toAc' = Got(toAc, h)
    /\ UNCHANGED <<conf, acVars, hostVars, owner, toHost, faults, edits, orphan>>

\* The host is up with that id, or will be once it takes a PADS that is on its way.
Believes(h, n) ==
    \/ hst[h] = "up" /\ sid[h] = n
    \/ \E k \in DOMAIN toHost[h] : toHost[h][k] = [type |-> "PADS", sid |-> n]

\* PADT names a session by its id, whoever sends it and however late.
AcPadt(h) ==
    LET S == sess_by_sid(Head(toAc[h]).sid)
    IN /\ Arrives(h, "PADT")
       /\ toAc' = Got(toAc, h)
       /\ sess' = IF S # {} THEN sess_free(First(S)) ELSE sess
       /\ orphan' = IF S # {} THEN orphan \cup {x \in {sess[First(S)].cmac} : Believes(x, Head(toAc[h]).sid)} ELSE orphan
       /\ UNCHANGED <<conf, peers, file, hostVars, owner, toHost, faults, edits>>

\* The session's frame is the first of its host, with its id.
InSession(h) == {i \in sess_by_cmac(h) : i = First(sess_by_cmac(h)) /\ sess[i].sid = Head(toAc[h]).sid}

\* Mutant: the address of any control frame is taken for the host's.
Learn_target(s, h, m) ==
    [s EXCEPT !.wmac = h, !.idle = FALSE,
              !.addr = IF m.type \in {"request", "nd"} THEN m.dst ELSE IF m.src # NoAddr THEN m.src ELSE @]

\* The wire MAC and the address, of the source or of the DHCP REQUEST, are learned.
Learn(s, h, m) ==
    [s EXCEPT !.wmac = h, !.idle = FALSE,
              !.addr = IF m.type = "request" THEN m.dst ELSE IF m.src # NoAddr THEN m.src ELSE @]

\* ac_inner.  By now every session that may be found has an address; what is not for another
\* session is bridged to the island, or for the AC itself and ignored.
AcInner(h) ==
    LET m == Head(toAc[h])
        i == First(sess_by_cmac(h))
        T == [sess EXCEPT ![i] = Learn(@, h, m)]
        to == {j \in sess_by_addr(T, m.dst) : j = First(sess_by_addr(T, m.dst)) /\ j # i}
    IN /\ toAc[h] # <<>> /\ m.type \in {"discover", "request", "nd", "uni"} /\ InSession(h) # {}
       /\ toAc' = Got(toAc, h)
       /\ sess' = T
       /\ toHost' = IF m.type = "nd" /\ m.dst = AcAddr
                    THEN ac_session_send(i, [type |-> "ndreply", sid |-> sess[i].sid, dst |-> AcAddr, mac |-> NoHost])
                    ELSE IF m.type = "nd" /\ to # {}
                    THEN ac_session_send(i, [type |-> "ndreply", sid |-> sess[i].sid, dst |-> m.dst, mac |-> sess[First(to)].wmac])
                    ELSE IF m.type = "uni" /\ to # {}
                    THEN ac_session_send(First(to), [type |-> "data", sid |-> sess[First(to)].sid, dst |-> m.dst])
                    ELSE toHost
       /\ UNCHANGED <<conf, peers, file, hostVars, owner, faults, edits, orphan>>

\* No session, or another id than the session's.
AcStray(h) ==
    /\ toAc[h] # <<>> /\ Head(toAc[h]).type \in {"discover", "request", "nd", "uni"} /\ InSession(h) = {}
    /\ toAc' = Got(toAc, h)
    /\ UNCHANGED <<conf, acVars, hostVars, owner, toHost, faults, edits, orphan>>

AcTakes(h) == AcPadi(h) \/ AcPadr(h) \/ AcRefuse(h) \/ AcPadt(h) \/ AcInner(h) \/ AcStray(h)

\* A frame of the island for an address, or for a wire MAC (a DHCP69 reply).  An ND request of
\* the island is answered there with the wire MAC of the session the address finds.
Island(d) ==
    LET S == IF d \in Host THEN sess_by_wmac(d) ELSE sess_by_addr(sess, d)
    IN /\ "island" \in conf.kinds /\ S # {} /\ Room(toHost, sess[First(S)].cmac)
       /\ toHost' = ac_session_send(First(S), [type |-> "data", sid |-> sess[First(S)].sid, dst |-> d])
       /\ UNCHANGED <<conf, acVars, hostVars, owner, toAc, faults, edits, orphan>>

-----------------------------------------------------------------------------
(* Time, administration and faults.                                          *)

\* SESSION_IDLE passes without a frame from the host.  No dialing takes that long.
Quiet(i) ==
    /\ used(i) /\ ~sess[i].idle /\ hst[sess[i].cmac] \in {"off", "up"}
    /\ sess' = [sess EXCEPT ![i].idle = TRUE]
    /\ UNCHANGED <<conf, peers, file, hostVars, owner, wires, faults, edits, orphan>>

\* Mutant: the loop over sessions stops one short.
Reap_short(i) ==
    /\ used(i) /\ sess[i].idle /\ i < conf.slots
    /\ toHost' = ac_session_send(i, [type |-> "PADT", sid |-> sess[i].sid])
    /\ sess' = sess_free(i)
    /\ UNCHANGED <<conf, peers, file, hostVars, owner, toAc, faults, edits, orphan>>

\* Mutant: the host is not told.
Reap_silent(i) ==
    /\ used(i) /\ sess[i].idle
    /\ sess' = sess_free(i)
    /\ UNCHANGED <<conf, peers, file, hostVars, owner, toHost, toAc, faults, edits, orphan>>

Reap(i) ==
    /\ used(i) /\ sess[i].idle
    /\ toHost' = ac_session_send(i, [type |-> "PADT", sid |-> sess[i].sid])
    /\ sess' = sess_free(i)
    /\ UNCHANGED <<conf, peers, file, hostVars, owner, toAc, faults, edits, orphan>>

\* The AC is started anew: nobody is told.
Restart ==
    /\ faults' = faults + 1
    /\ sess' = [i \in Slot |-> Unused] /\ peers' = conf.cli \cup file
    /\ orphan' = orphan \cup {sess[i].cmac : i \in {j \in Slot : used(j)}}
    /\ UNCHANGED <<conf, file, hostVars, owner, wires, edits>>

\* Somebody edits the peer file: it is loaded, and --peer keys are gone.
Edit(S) ==
    /\ HasFile /\ edits' = edits + 1 /\ Cardinality(S) <= MaxPeers
    /\ file' = S /\ peers' = S
    /\ UNCHANGED <<conf, sess, hostVars, owner, wires, faults, orphan>>

\* The DHCP server gives an address to another host.
Lease(a, h) ==
    /\ a # AcAddr /\ edits' = edits + 1
    /\ owner' = [owner EXCEPT ![a] = h]
    /\ UNCHANGED <<conf, acVars, hostVars, wires, faults, orphan>>

LoseUp(h) ==
    /\ toAc[h] # <<>> /\ toAc' = Got(toAc, h) /\ faults' = faults + 1
    /\ UNCHANGED <<conf, acVars, hostVars, owner, toHost, edits, orphan>>

LoseDown(h) ==
    /\ toHost[h] # <<>> /\ toHost' = Got(toHost, h) /\ faults' = faults + 1
    /\ orphan' = IF Head(toHost[h]).type = "PADT" THEN orphan \cup {h} ELSE orphan
    /\ UNCHANGED <<conf, acVars, hostVars, owner, toAc, edits>>

HostTakes(h) == Pado(h) \/ Pads(h) \/ Padt(h) \/ Other(h)
Fault == faults < conf.faults

Next ==
    \/ \E h \in Host :
          \/ Dial(h) \/ HostTakes(h) \/ Quit(h) \/ AcTakes(h)
          \/ (Slow(h) => Fault) /\ Timeout(h)
          \/ Fault /\ (Crash(h) \/ LoseUp(h) \/ LoseDown(h))
          \/ \E kind \in conf.kinds \ {"island"}, s, d \in Addr \cup {NoAddr} : Inner(h, kind, s, d)
    \/ \E d \in Addr \cup Host : Island(d)
    \/ \E i \in Slot : Quiet(i) \/ Reap(i)
    \/ Fault /\ Restart
    \/ edits < conf.edits /\ ((\E S \in SUBSET Host : Edit(S)) \/ \E a \in Addr, h \in Host : Lease(a, h))

Spec == Init /\ [][Next]_vars

\* The AC's loop and the hosts' loops go on, and time passes.
FairSpec ==
    /\ Spec
    /\ \A h \in Host : WF_vars(AcTakes(h)) /\ WF_vars(HostTakes(h)) /\ WF_vars(~Slow(h) /\ Timeout(h))
    /\ \A i \in Slot : WF_vars(Quiet(i)) /\ WF_vars(Reap(i))

-----------------------------------------------------------------------------
(* Properties.                                                               *)

\* A control MAC has one session and an id names one session, whatever the order in which
\* hosts dial, close, are reaped and dial again (sess_alloc, sess_free, PADR).
SessionsUnique ==
    \A i, j \in Slot :
        used(i) /\ used(j) /\ (sess[i].cmac = sess[j].cmac \/ sess[i].sid = sess[j].sid) => i = j

HasSession(h) == \E i \in sess_by_cmac(h) : sess[i].sid = sid[h]
Told(h) == \E k \in DOMAIN toHost[h] : toHost[h][k] = [type |-> "PADT", sid |-> sid[h]]

\* A host that is up has the session it believes in, or the PADT that ends it is on its way;
\* else that PADT was lost, the AC was restarted, or a late PADT closed the session: another
\* host's, for an id it had had before, or the host's own, sent before it dialed again and took
\* an answer to an earlier dialing (nothing in PADS says which PADR it answers).
UpHasSession == \A h \in Host : hst[h] = "up" => HasSession(h) \/ Told(h) \/ h \in orphan

\* As long as no lease changes hands: the session an address finds is that of the host that
\* has the address, with that host's wire MAC, so what is wrapped into a session, and what an
\* ND reply claims, is right; a slot's next session inherits nothing (ac_inner, ac_rx).
Isolation ==
    edits = 0 =>
        /\ \A a \in Addr : \A i \in sess_by_addr(sess, a) : sess[i].cmac = owner[a] /\ sess[i].wmac = owner[a]
        /\ \A h \in Host : \A k \in DOMAIN toHost[h] :
              LET m == toHost[h][k]
              IN /\ m.type = "data" => h = IF m.dst \in Host THEN m.dst ELSE owner[m.dst]
                 /\ m.type = "ndreply" => m.mac = owner[m.dst]

\* The session of a host that is gone does not stay for ever (the idle loop).
Reaped == \A h \in Host : hst[h] = "off" /\ sess_by_cmac(h) # {} ~> hst[h] # "off" \/ sess_by_cmac(h) = {}

\* If no frame is lost or late, dialing ends with the host up, or finds the table full or the
\* host not allowed (host_dial, and the AC's part in it).
Dials ==
    \A h \in Host : hst[h] = "padi" ~> hst[h] = "up" \/ faults > 0 \/ free_slots = {} \/ ~check_padr(h)
=============================================================================
