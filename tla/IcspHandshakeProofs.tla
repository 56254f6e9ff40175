------------------------ MODULE IcspHandshakeProofs ------------------------
(***************************************************************************)
(* Proofs about IcspHandshake, for every number of clients, every allowlist *)
(* and clock skew, and every budget of losses, duplicates and accept calls. *)
(***************************************************************************)
EXTENDS IcspHandshake, TLAPS

\* What a delivery can do to the network: nothing appears but what was sent.
LEMMA DeliverNet ==
    ASSUME TypeOK, NEW m \in net, NEW out, out \subseteq Frames, Deliver(m, out)
    PROVE  /\ net' \subseteq (net \cup out)
           /\ net' \subseteq Frames
           /\ faults' \in Nat
  BY DEF TypeOK, Deliver

\* The frames the protocol sends are well formed.
LEMMA FramesTyped ==
    ASSUME NEW type \in ChunkType, NEW src \in Station, NEW to \in Station,
           NEW eph \in Nat, NEW ck \in Cookie
    PROVE  Frame(type, src, to, eph, ck) \in Frames
  BY DEF Frame, Frames

LEMMA ConstantsTyped ==
    /\ NoCookie \in Cookie /\ NoKey \in Key
    /\ Server \in Station /\ Client \subseteq Station
    /\ \A c \in Client : \A n \in Nat : NoCookie # cookie_make(c, n)
  BY StationAssumption DEF NoCookie, NoKey, Cookie, Key, Station, cookie_make

\* Every step of a client keeps the types.
LEMMA ClientType ==
    ASSUME TypeOK, NEW c \in Client, ClientStep(c)
    PROVE  TypeOK'
  <1> USE ConstantsTyped, SkewAssumption, TriesAssumption
  <1> DEFINE Sent(type, ck) == \A n \in Nat : \A to \in Station : Frame(type, c, to, n, ck) \in Frames
  <1>a. \A ck \in Cookie : Sent("INIT", ck) /\ Sent("COOKIE_ECHO", ck)
    BY FramesTyped DEF ChunkType
  <1>b. \A ck \in Cookie : \A n \in Nat : cdst' \in [Client -> SUBSET Station] =>
            INIT(c, n) \subseteq Frames /\ COOKIE_ECHO(c, ck) \subseteq Frames
    BY <1>a DEF INIT, COOKIE_ECHO
  <1>c. now + Skew[c] \in Nat /\ now + 1 + Skew[c] \in Nat
    BY DEF TypeOK
  <1>1. CASE ClientConnect(c)
    BY <1>1, <1>b, <1>c DEF TypeOK, ClientConnect, serverVars
  <1>2. CASE ClientResendInit(c)
    BY <1>2, <1>b, <1>c DEF TypeOK, ClientResendInit, RetriesLeft, serverVars
  <1>3. CASE ClientResendEcho(c)
    BY <1>3, <1>b DEF TypeOK, ClientResendEcho, RetriesLeft, serverVars
  <1>4. CASE ClientGiveUp(c)
    BY <1>4 DEF TypeOK, ClientGiveUp, serverVars
  <1>5. ASSUME NEW m \in net, ClientRecvInitAck(c, m) PROVE TypeOK'
    <2>1. m \in Frames /\ m.ck \in Cookie /\ m.eph \in Nat /\ m.src \in Station
      BY DEF TypeOK, Frames
    <2>2. cdst' \in [Client -> SUBSET Station]
      BY <1>5, <2>1 DEF TypeOK, ClientRecvInitAck
    <2>3. COOKIE_ECHO(c, m.ck) \subseteq Frames
      BY <1>b, <2>1, <2>2
    <2>4. icsp_derive_key(c, ceph[c], m.eph) \in Key
      BY <2>1 DEF TypeOK, icsp_derive_key, Key
    <2>5. net' \subseteq Frames /\ faults' \in Nat
      BY <1>5, <2>3, DeliverNet DEF ClientRecvInitAck
    <2>6. QED
      BY <1>5, <2>1, <2>2, <2>4, <2>5 DEF TypeOK, ClientRecvInitAck, serverVars
  <1>6. ASSUME NEW m \in net,
               ClientRefuseInitAck(c, m) \/ ClientRecvCookieAck(c, m) \/ ClientHearOther(c, m)
        PROVE  TypeOK'
    <2>1. m.src \in Station
      BY DEF TypeOK, Frames
    <2>2. net' \subseteq Frames /\ faults' \in Nat
      BY <1>6, DeliverNet DEF ClientRefuseInitAck, ClientRecvCookieAck, ClientHearOther
    <2>3. QED
      BY <1>6, <2>1, <2>2 DEF TypeOK, ClientRefuseInitAck, ClientRecvCookieAck, ClientHearOther, serverVars
  <1>7. QED
    BY <1>1, <1>2, <1>3, <1>4, <1>5, <1>6 DEF ClientStep

\* Every step of the server, the application and the network keeps the types.
LEMMA OtherType ==
    ASSUME TypeOK, FrameInv, ServerInv,
           ServerStep \/ ServerReaccept \/ (\E m \in net : Lose(m) \/ Damage(m))
    PROVE  TypeOK'
  <1> USE ConstantsTyped
  <1>1. ASSUME NEW m \in net, ServerRecvInit(m) PROVE TypeOK'
    <2>1. m \in Frames /\ m.eph \in Nat /\ m.src \in Client /\ m.src \in Station /\ seph + 1 \in Nat
      BY <1>1 DEF TypeOK, Frames, FrameInv, ServerRecvInit
    <2>2. cookie_make(m.src, m.eph) \in Cookie /\ icsp_derive_key(m.src, m.eph, seph + 1) \in Key
      BY <2>1 DEF cookie_make, icsp_derive_key, Cookie, Key
    <2>3. Frame("INIT_ACK", Server, m.src, seph + 1, cookie_make(m.src, m.eph)) \in Frames
      BY <2>1, <2>2, FramesTyped DEF ChunkType
    <2>4. net' \subseteq Frames /\ faults' \in Nat
      BY <1>1, <2>3, DeliverNet DEF ServerRecvInit, INIT_ACK
    <2>5. QED
      BY <1>1, <2>1, <2>2, <2>4 DEF TypeOK, ServerRecvInit, clientVars
  <1>2. ASSUME NEW m \in net, ServerRefuseInit(m) PROVE TypeOK'
    <2>1. m.eph \in Nat /\ m.src \in Station
      BY DEF TypeOK, Frames
    <2>2. cookie_make(m.src, m.eph) \in Cookie
      BY <2>1 DEF cookie_make, Cookie
    <2>3. net' \subseteq Frames /\ faults' \in Nat
      BY <1>2, DeliverNet DEF ServerRefuseInit
    <2>4. QED
      BY <1>2, <2>1, <2>2, <2>3 DEF TypeOK, ServerRefuseInit, clientVars
  <1>3. ASSUME NEW m \in net, ServerRecvEcho(m) PROVE TypeOK'
    <2>1. m.src \in Client /\ m.src \in Station
      BY <1>3 DEF TypeOK, Frames, FrameInv, ServerRecvEcho
    <2>2. Frame("COOKIE_ACK", Server, m.src, 0, NoCookie) \in Frames
      BY <2>1, FramesTyped DEF ChunkType
    <2>3. net' \subseteq Frames /\ faults' \in Nat
      BY <1>3, <2>2, DeliverNet DEF ServerRecvEcho, COOKIE_ACK
    <2>4. QED
      BY <1>3, <2>1, <2>3 DEF TypeOK, ServerRecvEcho, clientVars
  <1>4. ASSUME NEW m \in net, ServerRejectEcho(m) \/ ServerHearOther(m) PROVE TypeOK'
    <2>1. net' \subseteq Frames /\ faults' \in Nat
      BY <1>4, DeliverNet DEF ServerRejectEcho, ServerHearOther
    <2>2. QED
      BY <1>4, <2>1 DEF TypeOK, ServerRejectEcho, ServerHearOther, clientVars, serverVars
  <1>5. CASE ServerTimeout \/ ServerReaccept
    BY <1>5 DEF TypeOK, ServerTimeout, ServerReaccept, clientVars
  <1>6. ASSUME NEW m \in net, Lose(m) PROVE TypeOK'
    BY <1>6 DEF TypeOK, Lose, clientVars, serverVars
  <1>7. ASSUME NEW m \in net, Damage(m) PROVE TypeOK'
    <2>1. [m EXCEPT !.ok = FALSE] \in Frames
      BY DEF TypeOK, Frames
    <2>a. PICK d \in Frames : net' = (net \ {m}) \cup {d} /\ faults' = faults + 1
      BY <1>7, <2>1, Zenon DEF Damage
    <2>2. net' \subseteq Frames /\ faults' \in Nat
      BY <2>a DEF TypeOK
    <2>3. UNCHANGED <<now, clientVars, serverVars>>
      BY <1>7 DEF Damage
    <2>4. QED
      BY <2>2, <2>3 DEF TypeOK, clientVars, serverVars
  <1>8. QED
    BY <1>1, <1>2, <1>3, <1>4, <1>5, <1>6, <1>7 DEF ServerStep
\* Frames stay truthful when clients only move forward, keep what they are
\* committed to, and the server's side does not move.
LEMMA FramesKept ==
    ASSUME TypeOK, FrameInv, NEW m \in net,
           UNCHANGED serverVars,
           \A d \in Client : Committed(d) => Committed(d)' /\ cck'[d] = cck[d] /\ ckey'[d] = ckey[d]
    PROVE  /\ m.type = "INIT" => m.src \in Client
           /\ m.type = "INIT_ACK" /\ runs' = 1 =>
                 m.ck.eph <= lastTs' /\ (m.ck = speer' => m.eph = seph')
           /\ m.type = "COOKIE_ECHO" => m.src \in Client /\ Committed(m.src)' /\ cck'[m.src] = m.ck
           /\ m.type = "COOKIE_ACK" => m.to \in Client /\ Committed(m.to)' /\ WasAccepted(m.to)'
  BY DEF FrameInv, WasAccepted, serverVars

\* Every step of a client keeps the three invariants.
LEMMA ClientKeeps ==
    ASSUME IndInv, TypeOK', NEW c \in Client, ClientStep(c)
    PROVE  FrameInv' /\ ClientInv' /\ ServerInv'
  <1> USE ConstantsTyped
  <1>a. UNCHANGED serverVars
    BY DEF ClientStep, ClientConnect, ClientResendInit, ClientResendEcho, ClientGiveUp,
           ClientRecvInitAck, ClientRefuseInitAck, ClientRecvCookieAck, ClientHearOther
  <1>b. \A d \in Client : Committed(d) => Committed(d)' /\ cck'[d] = cck[d] /\ ckey'[d] = ckey[d]
    BY DEF IndInv, TypeOK, Committed, ClientStep, ClientConnect, ClientResendInit, ClientResendEcho,
           ClientGiveUp, ClientRecvInitAck, ClientRefuseInitAck, ClientRecvCookieAck, ClientHearOther
  <1>c. ServerInv'
    BY <1>a, <1>b DEF IndInv, ServerInv, serverVars
  <1>1. CASE ClientConnect(c) \/ ClientResendInit(c)
    <2>1. \A m \in net' : m \in net \/ (m.type = "INIT" /\ m.src = c)
      BY <1>1 DEF ClientConnect, ClientResendInit, INIT, Frame
    <2>2. FrameInv'
      BY <2>1, <1>a, <1>b, FramesKept DEF FrameInv, IndInv
    <2>3. ClientInv'
      BY <1>1, <1>a DEF IndInv, TypeOK, ClientInv, WasAccepted, serverVars, ClientConnect, ClientResendInit
    <2>4. QED
      BY <2>2, <2>3, <1>c
  <1>2. CASE ClientResendEcho(c)
    <2>1. \A m \in net' : m \in net \/ (m.type = "COOKIE_ECHO" /\ m.src = c /\ m.ck = cck[c])
      BY <1>2 DEF ClientResendEcho, COOKIE_ECHO, Frame
    <2>2. Committed(c) /\ Committed(c)' /\ cck' = cck /\ ckey' = ckey /\ cst' = cst
      BY <1>2 DEF ClientResendEcho, Committed
    <2>3. FrameInv'
      BY <2>1, <2>2, <1>a, <1>b, FramesKept DEF FrameInv, IndInv
    <2>4. ClientInv'
      BY <2>2, <1>a DEF IndInv, ClientInv, WasAccepted, serverVars
    <2>5. QED
      BY <2>3, <2>4, <1>c
  <1>3. CASE ClientGiveUp(c)
    <2>1. FrameInv'
      BY <1>3, <1>a, <1>b, FramesKept DEF FrameInv, IndInv, ClientGiveUp
    <2>2. ClientInv'
      BY <1>3, <1>a DEF IndInv, TypeOK, ClientInv, WasAccepted, serverVars, ClientGiveUp
    <2>3. QED
      BY <2>1, <2>2, <1>c
  <1>4. ASSUME NEW m \in net, ClientRecvInitAck(c, m) PROVE FrameInv' /\ ClientInv'
    <2>1. /\ cck'[c] = m.ck /\ ckey'[c].resp = m.eph /\ cst'[c] = "echo_wait" /\ Committed(c)'
          /\ \A d \in Client : d # c => cck'[d] = cck[d] /\ ckey'[d] = ckey[d] /\ cst'[d] = cst[d]
      BY <1>4 DEF IndInv, TypeOK, ClientRecvInitAck, icsp_derive_key, Committed
    <2>2. \A n \in net' : n \in net \/ (n.type = "COOKIE_ECHO" /\ n.src = c /\ n.ck = m.ck)
      BY <1>4 DEF ClientRecvInitAck, Deliver, COOKIE_ECHO, Frame
    <2>3. FrameInv'
      BY <2>1, <2>2, <1>a, <1>b, FramesKept DEF FrameInv, IndInv
    <2>4. runs = 1 => m.ck.eph <= lastTs /\ (m.ck = speer => m.eph = seph)
      BY <1>4 DEF IndInv, FrameInv, ClientRecvInitAck
    <2>5. ClientInv'
      BY <2>1, <2>4, <1>a DEF IndInv, ClientInv, WasAccepted, serverVars
    <2>6. QED
      BY <2>3, <2>5
  <1>5. ASSUME NEW m \in net, ClientRefuseInitAck(c, m) \/ ClientHearOther(c, m) PROVE FrameInv' /\ ClientInv'
    <2>1. net' \subseteq net /\ cck' = cck /\ ckey' = ckey
      BY <1>5 DEF ClientRefuseInitAck, ClientHearOther, Deliver
    <2>2. \A d \in Client : cst'[d] = cst[d] \/ cst'[d] = "failed"
      BY <1>5 DEF IndInv, TypeOK, ClientRefuseInitAck, ClientHearOther
    <2>3. FrameInv'
      BY <2>1, <1>a, <1>b, FramesKept DEF FrameInv, IndInv
    <2>4. ClientInv'
      BY <2>1, <2>2, <1>a DEF IndInv, ClientInv, WasAccepted, serverVars
    <2>5. QED
      BY <2>3, <2>4
  <1>6. ASSUME NEW m \in net, ClientRecvCookieAck(c, m) PROVE FrameInv' /\ ClientInv'
    <2>1. net' \subseteq net /\ cck' = cck /\ ckey' = ckey
      BY <1>6 DEF ClientRecvCookieAck, Deliver
    <2>2. WasAccepted(c) /\ \A d \in Client : d # c => cst'[d] = cst[d]
      BY <1>6 DEF IndInv, TypeOK, FrameInv, ClientRecvCookieAck
    <2>3. FrameInv'
      BY <2>1, <1>a, <1>b, FramesKept DEF FrameInv, IndInv
    <2>4. ClientInv'
      BY <2>1, <2>2, <1>a DEF IndInv, ClientInv, WasAccepted, serverVars
    <2>5. QED
      BY <2>3, <2>4
  <1>7. QED
    BY <1>c, <1>1, <1>2, <1>3, <1>4, <1>5, <1>6 DEF ClientStep
\* Every step of the server, the application and the network keeps them too.
\* The step that matters is an accepted INIT: its timestamp is above last_init_ts,
\* hence above every cookie handed out, so no client can yet hold its cookie.
LEMMA OtherKeeps ==
    ASSUME IndInv, TypeOK',
           ServerStep \/ ServerReaccept \/ (\E m \in net : Lose(m) \/ Damage(m))
    PROVE  FrameInv' /\ ClientInv' /\ ServerInv'
  <1> USE ConstantsTyped
  <1>1. ASSUME NEW m \in net, ServerRecvInit(m) PROVE FrameInv' /\ ClientInv' /\ ServerInv'
    <2>1. /\ m.eph \in Nat /\ m.src \in Client /\ m.eph > lastTs /\ lastTs \in Nat
          /\ lastTs' = m.eph /\ speer' = [id |-> m.src, eph |-> m.eph]
          /\ skey' = icsp_derive_key(m.src, m.eph, seph') /\ sst' = "cookie_wait"
          /\ UNCHANGED <<cst, cck, ckey, runs, accepted>>
      BY <1>1 DEF IndInv, TypeOK, Frames, FrameInv, ServerRecvInit, init_fresh, cookie_make, clientVars
    <2>2. \A n \in net' : n \in net \/
             (n.type = "INIT_ACK" /\ n.ck = speer' /\ n.eph = seph')
      BY <1>1 DEF ServerRecvInit, INIT_ACK, Deliver, Frame, cookie_make
    <2>3. \A n \in net : n.type = "INIT_ACK" /\ runs = 1 => n.ck.eph <= lastTs' /\ n.ck # speer'
      <3> SUFFICES ASSUME NEW n \in net, n.type = "INIT_ACK", runs = 1
                   PROVE  n.ck.eph <= lastTs' /\ n.ck # speer'
        OBVIOUS
      <3>1. n.ck.eph \in Nat /\ n.ck.eph <= lastTs
        BY DEF IndInv, TypeOK, FrameInv, Frames, Cookie
      <3>2. QED
        BY <3>1, <2>1
    <2>4. speer'.eph = lastTs'
      BY <2>1
    <2>5. FrameInv'
      BY <2>1, <2>2, <2>3, <2>4 DEF IndInv, TypeOK, FrameInv, Committed, WasAccepted
    <2>6. ClientInv'
      <3> SUFFICES ASSUME NEW d \in Client PROVE
              /\ cck[d] # NoCookie /\ runs = 1 =>
                    cck[d].eph <= lastTs' /\ (cck[d] = speer' => ckey[d].resp = seph')
              /\ cst[d] = "established" => WasAccepted(d)'
        BY <2>1 DEF ClientInv
      <3>1. cck[d] # NoCookie /\ runs = 1 => cck[d].eph \in Nat /\ cck[d].eph <= lastTs
        BY DEF IndInv, TypeOK, ClientInv, Cookie
      <3>2. cst[d] = "established" => WasAccepted(d)'
        BY <2>1 DEF IndInv, ClientInv, WasAccepted
      <3>3. QED
        BY <3>1, <3>2, <2>1
    <2>7. ServerInv'
      BY <1>1, <2>1 DEF ServerInv, ServerRecvInit, init_allowed
    <2>8. QED
      BY <2>5, <2>6, <2>7
  <1>2. ASSUME NEW m \in net, ServerRefuseInit(m) PROVE FrameInv' /\ ClientInv' /\ ServerInv'
    <2>1. /\ m.eph \in Nat /\ m.eph > lastTs /\ lastTs \in Nat
          /\ lastTs' = m.eph /\ speer' = [id |-> m.src, eph |-> m.eph]
          /\ sst' = "accept" /\ net' \subseteq net
          /\ UNCHANGED <<cst, cck, ckey, runs, accepted, seph>>
      BY <1>2 DEF IndInv, TypeOK, Frames, ServerRefuseInit, init_fresh, cookie_make, clientVars, Deliver
    <2>2. \A n \in net : n.type = "INIT_ACK" /\ runs = 1 => n.ck.eph <= lastTs' /\ n.ck # speer'
      <3> SUFFICES ASSUME NEW n \in net, n.type = "INIT_ACK", runs = 1
                   PROVE  n.ck.eph <= lastTs' /\ n.ck # speer'
        OBVIOUS
      <3>1. n.ck.eph \in Nat /\ n.ck.eph <= lastTs
        BY DEF IndInv, TypeOK, FrameInv, Frames, Cookie
      <3>2. QED
        BY <3>1, <2>1
    <2>3. FrameInv'
      BY <2>1, <2>2 DEF IndInv, FrameInv, Committed, WasAccepted
    <2>4. ClientInv'
      <3> SUFFICES ASSUME NEW d \in Client PROVE
              /\ cck[d] # NoCookie /\ runs = 1 =>
                    cck[d].eph <= lastTs' /\ (cck[d] = speer' => ckey[d].resp = seph')
              /\ cst[d] = "established" => WasAccepted(d)'
        BY <2>1 DEF ClientInv
      <3>1. cck[d] # NoCookie /\ runs = 1 => cck[d].eph \in Nat /\ cck[d].eph <= lastTs
        BY DEF IndInv, TypeOK, ClientInv, Cookie
      <3>2. cst[d] = "established" => WasAccepted(d)'
        BY <2>1 DEF IndInv, ClientInv, WasAccepted
      <3>3. QED
        BY <3>1, <3>2, <2>1
    <2>5. QED
      BY <2>1, <2>3, <2>4 DEF ServerInv
  <1>3. ASSUME NEW m \in net, ServerRecvEcho(m) PROVE FrameInv' /\ ClientInv' /\ ServerInv'
    <2>1. /\ m.src \in Client /\ Committed(m.src) /\ cck[m.src] = m.ck /\ m.ck = speer /\ m.src = speer.id
          /\ skey = icsp_derive_key(speer.id, speer.eph, seph)
      BY <1>3 DEF IndInv, FrameInv, ServerInv, ServerRecvEcho, cookie_valid, echo_signed
    <2>2. cck[m.src] # NoCookie
      BY <2>1, StationAssumption DEF NoCookie
    <2>3. runs = 1 => ckey[m.src].resp = skey.resp
      BY <2>1, <2>2 DEF IndInv, ClientInv, icsp_derive_key
    <2>4. /\ accepted' = accepted \cup {<<m.src, skey>>} /\ sst' = "established"
          /\ UNCHANGED <<cst, cck, ckey, lastTs, speer, seph, skey, runs>>
      BY <1>3 DEF ServerRecvEcho, clientVars
    <2>a. PICK b \in accepted' : b[1] = m.src /\ b[2] = skey
      <3>1. <<m.src, skey>>[1] = m.src /\ <<m.src, skey>>[2] = skey
        OBVIOUS
      <3>2. QED
        BY <3>1, <2>4, Zenon
    <2>5. WasAccepted(m.src)' /\ \A d \in Client : WasAccepted(d) => WasAccepted(d)'
      <3>1. WasAccepted(m.src)'
        BY <2>3, <2>4, <2>a DEF WasAccepted
      <3>2. \A d \in Client : WasAccepted(d) => WasAccepted(d)'
        <4>1. accepted \subseteq accepted' /\ runs' = runs /\ ckey' = ckey
          BY <2>4
        <4>2. QED
          BY <4>1 DEF WasAccepted
      <3>3. QED
        BY <3>1, <3>2
    <2>6. \A n \in net' : n \in net \/ (n.type = "COOKIE_ACK" /\ n.to = m.src)
      BY <1>3 DEF ServerRecvEcho, COOKIE_ACK, Deliver, Frame
    <2>7. FrameInv'
      BY <2>1, <2>4, <2>5, <2>6 DEF IndInv, FrameInv, Committed
    <2>8. ClientInv'
      BY <2>4, <2>5 DEF IndInv, ClientInv
    <2>9. ServerInv'
      BY <1>3, <2>1, <2>4 DEF IndInv, ServerInv, Committed, ServerRecvEcho
    <2>10. QED
      BY <2>7, <2>8, <2>9
  <1>4. ASSUME NEW m \in net, ServerRejectEcho(m) \/ ServerHearOther(m)
        PROVE  FrameInv' /\ ClientInv' /\ ServerInv'
    <2>1. net' \subseteq net /\ (sst' = sst \/ sst' = "accept")
          /\ UNCHANGED <<cst, cck, ckey, lastTs, speer, seph, skey, runs, accepted>>
      BY <1>4 DEF ServerRejectEcho, ServerHearOther, Deliver, clientVars, serverVars
    <2>2. QED
      BY <2>1 DEF IndInv, FrameInv, ClientInv, ServerInv, Committed, WasAccepted
  <1>5. CASE ServerTimeout
    <2>1. sst' \in {"accept", "failed"}
          /\ UNCHANGED <<net, cst, cck, ckey, lastTs, speer, seph, skey, runs, accepted>>
      BY <1>5 DEF ServerTimeout, clientVars
    <2>2. FrameInv' /\ ClientInv'
      BY <2>1 DEF IndInv, FrameInv, ClientInv, Committed, WasAccepted
    <2>3. QED
      BY <2>1, <2>2 DEF ServerInv
  <1>6. CASE ServerReaccept
    <2>1. sst' = "accept" /\ runs' # 1 /\ UNCHANGED <<net, cst, cck, ckey, accepted>>
      BY <1>6 DEF IndInv, TypeOK, ServerReaccept, clientVars
    <2>2. QED
      BY <2>1 DEF IndInv, FrameInv, ClientInv, ServerInv, Committed, WasAccepted
  <1>7. ASSUME NEW m \in net, Lose(m) PROVE FrameInv' /\ ClientInv' /\ ServerInv'
    <2>1. net' \subseteq net
          /\ UNCHANGED <<cst, cck, ckey, sst, lastTs, speer, seph, skey, runs, accepted>>
      BY <1>7 DEF Lose, clientVars, serverVars
    <2>2. QED
      BY <2>1 DEF IndInv, FrameInv, ClientInv, ServerInv, Committed, WasAccepted
  <1>8. ASSUME NEW m \in net, Damage(m) PROVE FrameInv' /\ ClientInv' /\ ServerInv'
    <2>1. UNCHANGED <<cst, cck, ckey, sst, lastTs, speer, seph, skey, runs, accepted>>
      BY <1>8 DEF Damage, clientVars, serverVars
    <2> DEFINE d == [m EXCEPT !.ok = FALSE]
    <2>2. d.type = m.type /\ d.src = m.src /\ d.to = m.to /\ d.eph = m.eph /\ d.ck = m.ck
      BY DEF IndInv, TypeOK, Frames
    <2>3. net' = (net \ {m}) \cup {d}
      BY <1>8 DEF Damage
    <2> HIDE DEF d
    <2>4. FrameInv'
      BY <2>1, <2>2, <2>3 DEF IndInv, FrameInv, Committed, WasAccepted
    <2>5. QED
      BY <2>1, <2>4 DEF IndInv, ClientInv, ServerInv, Committed, WasAccepted
  <1>9. QED
    BY <1>1, <1>2, <1>3, <1>4, <1>5, <1>6, <1>7, <1>8 DEF ServerStep

LEMMA InitInd == Init => IndInv
  <1> SUFFICES ASSUME Init PROVE IndInv
    OBVIOUS
  <1> USE ConstantsTyped, TriesAssumption, BoundAssumption, ModeAssumption DEF Init
  <1>1. TypeOK
    BY DEF TypeOK
  <1>2. FrameInv /\ ClientInv /\ ServerInv
    BY DEF FrameInv, ClientInv, ServerInv
  <1>3. QED
    BY <1>1, <1>2 DEF IndInv

LEMMA NextInd == IndInv /\ [Next]_vars => IndInv'
  <1> SUFFICES ASSUME IndInv, [Next]_vars PROVE IndInv'
    OBVIOUS
  <1>1. ASSUME NEW c \in Client, ClientStep(c) PROVE IndInv'
    BY <1>1, ClientType, ClientKeeps DEF IndInv
  <1>2. CASE ServerStep \/ ServerReaccept \/ (\E m \in net : Lose(m) \/ Damage(m))
    BY <1>2, OtherType, OtherKeeps DEF IndInv
  <1>3. CASE UNCHANGED vars
    BY <1>3 DEF vars, clientVars, serverVars, IndInv, TypeOK, FrameInv, ClientInv, ServerInv,
                Committed, WasAccepted
  <1>4. QED
    BY <1>1, <1>2, <1>3 DEF Next

\* The handshake never leaves its state space: every counter, key and cookie of
\* icsp_client_handshake and icsp_server_accept keeps its type.
THEOREM TypeCorrect == Spec => []TypeOK
  <1>1. IndInv => TypeOK
    BY DEF IndInv
  <1>2. QED
    BY InitInd, NextInd, <1>1, PTL DEF Spec

\* icsp_server_accept returns 0 only for an allowed peer that has itself signed
\* the cookie of the very INIT the server's key is derived from.
THEOREM ServerIsAuthentic == Spec => []ServerAuthentic
  <1>1. IndInv => ServerAuthentic
    BY DEF IndInv, ServerInv, ServerAuthentic, icsp_derive_key
  <1>2. QED
    BY InitInd, NextInd, <1>1, PTL DEF Spec

\* icsp_client_handshake returns 0 only to a client the server has accepted, and
\* within one accept call with the same server ephemeral in both keys.
THEOREM ClientIsAccepted == Spec => []ClientAccepted
  <1>1. IndInv => ClientAccepted
    BY DEF IndInv, ClientInv, ClientAccepted, WasAccepted
  <1>2. QED
    BY InitInd, NextInd, <1>1, PTL DEF Spec
-----------------------------------------------------------------------------
(* Agreement on the key.  On a timely network a client makes a new ephemeral *)
(* only when nothing is on its way, so every INIT in flight carries the      *)
(* ephemeral its sender still has and every INIT-ACK answers that one.       *)

OwnCookie(c) == cookie_make(c, ceph[c])

WireFresh ==
    \A m \in net :
        /\ m.type = "INIT" => m.src \in Client /\ cst[m.src] # "closed" /\ m.eph = ceph[m.src] /\ m.ck = NoCookie /\ m.ok
        /\ m.type = "INIT_ACK" => m.to \in Client /\ cst[m.to] # "closed" /\ m.ck = OwnCookie(m.to)

\* A client holds the cookie of the INIT its key is made from; the server's peer has sent no
\* INIT older than the one the server has of it.
HeldFresh ==
    \A c \in Client :
        /\ ~Committed(c) => cck[c] = NoCookie
        /\ cck[c] # NoCookie => cck[c] = OwnCookie(c) /\ ckey[c].init = ceph[c] /\ ckey[c].id = c
        /\ ceph[c] <= now + Skew[c]
        /\ speer.id = c => cst[c] # "closed" /\ speer.eph <= ceph[c]

Fresh == WireFresh /\ HeldFresh

\* When no INIT is delivered twice, an INIT still on its way has not been answered, so an INIT
\* is answered with one server ephemeral however often the server accepts again.
Unanswered(c) == ~Committed(c) /\ speer # OwnCookie(c) /\ \A a \in net : a.type = "INIT_ACK" => a.to # c
AnsweredOnce ==
    /\ \A m \in net : m.type = "INIT" /\ m.to = Server => Unanswered(m.src)
    /\ \A m \in net : m.type = "INIT_ACK" /\ m.ck = speer => m.eph = seph
    /\ \A c \in Client : cck[c] # NoCookie /\ cck[c] = speer => ckey[c].resp = seph

\* What the two steps that make an ephemeral have in common: nothing is in flight from the
\* client, or to it, but what they send.
LEMMA NewEphemeral ==
    ASSUME Timely, IndInv, Fresh, NEW c \in Client, ClientConnect(c) \/ ClientResendInit(c)
    PROVE  /\ ~Committed(c) /\ cck[c] = NoCookie
           /\ cst'[c] = "init_wait" /\ \A d \in Client : d # c => cst'[d] = cst[d] /\ ceph'[d] = ceph[d]
           /\ now' \in Nat /\ now <= now' /\ ceph'[c] = now' + Skew[c]
           /\ speer.id = c => speer.eph < ceph'[c]
           /\ \A m \in net : (m.type = "INIT" => m.src # c) /\ (m.type = "INIT_ACK" => m.to # c)
           /\ \A m \in net' : m \in net \/ (m.type = "INIT" /\ m.src = c /\ m.eph = ceph'[c] /\ m.ck = NoCookie /\ m.ok)
           /\ UNCHANGED <<cck, ckey, serverVars>>
  <1> USE SkewAssumption
  <1>1. CASE ClientConnect(c)
    <2>1. /\ cst[c] = "closed" /\ cst' = [cst EXCEPT ![c] = "init_wait"]
          /\ ceph' = [ceph EXCEPT ![c] = now + Skew[c]] /\ net' = net \cup INIT(c, now + Skew[c])
          /\ UNCHANGED <<now, cck, ckey, serverVars>>
      BY <1>1 DEF ClientConnect
    <2>2. \A m \in INIT(c, now + Skew[c]) : m.type = "INIT" /\ m.src = c /\ m.eph = now + Skew[c] /\ m.ck = NoCookie /\ m.ok
      BY DEF INIT, Frame
    <2>3. ~Committed(c) /\ cck[c] = NoCookie /\ speer.id # c
      BY <2>1 DEF Fresh, HeldFresh, Committed
    <2>4. \A m \in net : (m.type = "INIT" => m.src # c) /\ (m.type = "INIT_ACK" => m.to # c)
      BY <2>1 DEF Fresh, WireFresh
    <2>5. QED
      BY <2>1, <2>2, <2>3, <2>4 DEF IndInv, TypeOK
  <1>2. CASE ClientResendInit(c)
    <2>1. /\ cst[c] = "init_wait" /\ cst' = cst /\ net = {} /\ now' = now + 1
          /\ ceph' = [ceph EXCEPT ![c] = now' + Skew[c]] /\ net' = net \cup INIT(c, now' + Skew[c])
          /\ UNCHANGED <<cck, ckey, serverVars>>
      BY <1>2 DEF ClientResendInit, TimeoutExpires
    <2>2. \A m \in INIT(c, now' + Skew[c]) : m.type = "INIT" /\ m.src = c /\ m.eph = now' + Skew[c] /\ m.ck = NoCookie /\ m.ok
      BY DEF INIT, Frame
    <2>3. ~Committed(c) /\ cck[c] = NoCookie
      BY <2>1 DEF Fresh, HeldFresh, Committed
    <2>4. now \in Nat /\ now' \in Nat /\ now <= now' /\ ceph'[c] = now' + Skew[c] /\ ceph[c] < ceph'[c] /\ ceph[c] \in Nat /\ ceph'[c] \in Nat
      BY <2>1 DEF IndInv, TypeOK, Fresh, HeldFresh
    <2>5. speer.id = c => speer.eph < ceph'[c]
      BY <2>4 DEF IndInv, TypeOK, Cookie, Fresh, HeldFresh
    <2>6. \A d \in Client : d # c => cst'[d] = cst[d] /\ ceph'[d] = ceph[d]
      BY <2>1 DEF IndInv, TypeOK
    <2>7. QED
      BY <2>1, <2>2, <2>3, <2>4, <2>5, <2>6
  <1>3. QED
    BY <1>1, <1>2

\* The other steps of a client make no ephemeral and send nothing but a COOKIE-ECHO.
LEMMA OtherClientStep ==
    ASSUME Timely, IndInv, NEW c \in Client, ClientStep(c), ~ClientConnect(c), ~ClientResendInit(c)
    PROVE  /\ ceph' = ceph /\ now' \in Nat /\ now <= now' /\ UNCHANGED serverVars
           /\ \A d \in Client : cst[d] # "closed" => cst'[d] # "closed"
           /\ \A d \in Client : Committed(d) => Committed(d)'
           /\ \A d \in Client : Committed(d)' => Committed(d) \/ net = {} \/ \E a \in net : a.type = "INIT_ACK" /\ a.to = d
           /\ \A m \in net' : m \in net \/ m.type = "COOKIE_ECHO"
           /\ \/ cck' = cck /\ ckey' = ckey
              \/ \E m \in net : /\ m.type = "INIT_ACK" /\ m.to = c /\ Committed(c)'
                                /\ cck' = [cck EXCEPT ![c] = m.ck]
                                /\ ckey' = [ckey EXCEPT ![c] = icsp_derive_key(c, ceph[c], m.eph)]
  <1>1. CASE ClientResendEcho(c)
    BY <1>1 DEF IndInv, TypeOK, ClientResendEcho, COOKIE_ECHO, Frame, Committed, serverVars
  <1>2. CASE ClientGiveUp(c)
    BY <1>2 DEF IndInv, TypeOK, ClientGiveUp, TimeoutExpires, Committed, serverVars
  <1>3. ASSUME NEW m \in net, ClientRecvInitAck(c, m)
        PROVE  /\ ceph' = ceph /\ now' = now /\ UNCHANGED serverVars
               /\ \A n \in net' : n \in net \/ n.type = "COOKIE_ECHO"
               /\ cst' = [cst EXCEPT ![c] = "echo_wait"]
               /\ m.type = "INIT_ACK" /\ m.to = c
               /\ cck' = [cck EXCEPT ![c] = m.ck]
               /\ ckey' = [ckey EXCEPT ![c] = icsp_derive_key(c, ceph[c], m.eph)]
    <2>1. \A n \in COOKIE_ECHO(c, m.ck) : n.type = "COOKIE_ECHO"
      BY DEF COOKIE_ECHO, Frame
    <2>2. QED
      BY <1>3, <2>1 DEF ClientRecvInitAck, Deliver
  <1>4. ASSUME NEW m \in net,
               ClientRefuseInitAck(c, m) \/ ClientRecvCookieAck(c, m) \/ ClientHearOther(c, m)
        PROVE  /\ ceph' = ceph /\ now' = now /\ UNCHANGED serverVars /\ net' \subseteq net /\ cck' = cck /\ ckey' = ckey
               /\ \A d \in Client : \/ cst'[d] = cst[d]
                                    \/ cst'[d] \in {"failed", "established"} /\ (Committed(d) \/ (m.type = "INIT_ACK" /\ m.to = d))
    <2>1. ceph' = ceph /\ now' = now /\ UNCHANGED serverVars /\ net' \subseteq net /\ cck' = cck /\ ckey' = ckey
      BY <1>4 DEF ClientRefuseInitAck, ClientRecvCookieAck, ClientHearOther, Deliver
    <2>2. CASE ClientRefuseInitAck(c, m)
      BY <2>1, <2>2 DEF IndInv, TypeOK, ClientRefuseInitAck
    <2>3. CASE ClientRecvCookieAck(c, m)
      BY <2>1, <2>3 DEF IndInv, TypeOK, ClientRecvCookieAck, Committed
    <2>4. CASE ClientHearOther(c, m)
      BY <2>1, <2>4 DEF ClientHearOther
    <2>5. QED
      BY <1>4, <2>2, <2>3, <2>4
  <1>5. CASE \E m \in net : ClientRecvInitAck(c, m)
    <2>1. PICK m \in net : ClientRecvInitAck(c, m)
      BY <1>5
    <2>2. cst'[c] = "echo_wait" /\ \A d \in Client : d # c => cst'[d] = cst[d]
      BY <1>3, <2>1 DEF IndInv, TypeOK
    <2>3. Committed(c)' /\ (\A d \in Client : cst[d] # "closed" => cst'[d] # "closed") /\ (\A d \in Client : Committed(d) => Committed(d)')
      BY <2>2 DEF Committed
    <2>4. now' \in Nat /\ now <= now'
      BY <1>3, <2>1 DEF IndInv, TypeOK
    <2>5. m.type = "INIT_ACK" /\ m.to = c
      BY <1>3, <2>1
    <2>6. \A d \in Client : Committed(d)' => Committed(d) \/ \E a \in net : a.type = "INIT_ACK" /\ a.to = d
      BY <2>2, <2>5 DEF Committed
    <2>7. QED
      BY <1>3, <2>1, <2>3, <2>4, <2>6
  <1>6. CASE \E m \in net : ClientRefuseInitAck(c, m) \/ ClientRecvCookieAck(c, m) \/ ClientHearOther(c, m)
    <2>1. PICK m \in net : ClientRefuseInitAck(c, m) \/ ClientRecvCookieAck(c, m) \/ ClientHearOther(c, m)
      BY <1>6
    <2>2. QED
      BY <1>4, <2>1 DEF IndInv, TypeOK, Committed
  <1>7. QED
    BY <1>1, <1>2, <1>5, <1>6 DEF ClientStep

\* Every step of a client keeps its frames and its cookie fresh.
LEMMA FreshClient ==
    ASSUME Timely, IndInv, Fresh, NEW c \in Client, ClientStep(c)
    PROVE  Fresh'
  <1> USE SkewAssumption, ConstantsTyped
  <1>1. CASE ClientConnect(c) \/ ClientResendInit(c)
    <2>1. WireFresh'
      BY <1>1, NewEphemeral DEF Fresh, WireFresh, OwnCookie
    <2>2. HeldFresh'
      <3> SUFFICES ASSUME NEW d \in Client
                   PROVE  /\ ~Committed(d)' => cck'[d] = NoCookie
                          /\ cck'[d] # NoCookie => cck'[d] = OwnCookie(d)' /\ ckey'[d].init = ceph'[d] /\ ckey'[d].id = d
                          /\ ceph'[d] <= now' + Skew[d]
                          /\ speer'.id = d => cst'[d] # "closed" /\ speer'.eph <= ceph'[d]
        BY DEF HeldFresh
      <3>1. now \in Nat /\ now' \in Nat /\ now <= now' /\ ceph[d] \in Nat /\ speer.eph \in Nat /\ UNCHANGED <<cck, ckey, speer>>
        BY <1>1, NewEphemeral DEF IndInv, TypeOK, Cookie, serverVars
      <3>2. CASE d = c
        BY <1>1, <3>1, <3>2, NewEphemeral
      <3>3. CASE d # c
        <4>1. cst'[d] = cst[d] /\ ceph'[d] = ceph[d]
          BY <1>1, <3>3, NewEphemeral
        <4>2. QED
          BY <3>1, <4>1 DEF Fresh, HeldFresh, Committed, OwnCookie
      <3>4. QED
        BY <3>2, <3>3
    <2>3. QED
      BY <2>1, <2>2 DEF Fresh
  <1>2. CASE ~ClientConnect(c) /\ ~ClientResendInit(c)
    <2>1. WireFresh'
      BY <1>2, OtherClientStep DEF Fresh, WireFresh, OwnCookie
    <2>2. HeldFresh'
      <3> SUFFICES ASSUME NEW d \in Client
                   PROVE  /\ ~Committed(d)' => cck'[d] = NoCookie
                          /\ cck'[d] # NoCookie => cck'[d] = OwnCookie(d)' /\ ckey'[d].init = ceph'[d] /\ ckey'[d].id = d
                          /\ ceph'[d] <= now' + Skew[d]
                          /\ speer'.id = d => cst'[d] # "closed" /\ speer'.eph <= ceph'[d]
        BY DEF HeldFresh
      <3>1. ceph'[d] <= now' + Skew[d] /\ (speer'.id = d => cst'[d] # "closed" /\ speer'.eph <= ceph'[d])
        BY <1>2, OtherClientStep DEF IndInv, TypeOK, Fresh, HeldFresh, serverVars
      <3>2. CASE cck'[d] = cck[d] /\ ckey'[d] = ckey[d]
        BY <1>2, <3>1, <3>2, OtherClientStep DEF Fresh, HeldFresh, OwnCookie
      <3>3. CASE ~(cck'[d] = cck[d] /\ ckey'[d] = ckey[d])
        <4>1. PICK m \in net : /\ m.type = "INIT_ACK" /\ m.to = c /\ Committed(c)'
                               /\ cck' = [cck EXCEPT ![c] = m.ck]
                               /\ ckey' = [ckey EXCEPT ![c] = icsp_derive_key(c, ceph[c], m.eph)]
          BY <1>2, <3>3, OtherClientStep
        <4>2. d = c /\ cck'[d] = m.ck /\ ckey'[d] = icsp_derive_key(c, ceph[c], m.eph) /\ ceph' = ceph
          BY <1>2, <3>3, <4>1, OtherClientStep DEF IndInv, TypeOK
        <4>3. m.ck = OwnCookie(c)
          BY <4>1 DEF Fresh, WireFresh
        <4>4. QED
          BY <3>1, <4>1, <4>2, <4>3 DEF OwnCookie, icsp_derive_key
      <3>4. QED
        BY <3>2, <3>3
    <2>3. QED
      BY <2>1, <2>2 DEF Fresh
  <1>3. QED
    BY <1>1, <1>2
\* A server step that takes a fresh INIT makes its sender the peer, and may answer it.
Answers(m) ==
    /\ m.type = "INIT" /\ m.to = Server /\ speer' = cookie_make(m.src, m.eph)
    /\ "INIT" \notin DupKinds => m \notin net'
    /\ \A n \in net' : n \in net \/ (n.type = "INIT_ACK" /\ n.to = m.src /\ n.ck = cookie_make(m.src, m.eph) /\ n.eph = seph')

\* Every other step of the server, the application or the network keeps the peer or forgets it,
\* and adds no INIT and no INIT-ACK: a damaged one says what it said.
Same(n, o) == n.type = o.type /\ n.src = o.src /\ n.to = o.to /\ n.eph = o.eph /\ n.ck = o.ck /\ (o.type = "INIT" => n.ok = o.ok)
Holds ==
    /\ seph' = seph /\ speer' \in {speer, NoCookie}
    /\ \A n \in net' : n.type = "COOKIE_ACK" \/ \E o \in net : Same(n, o)

LEMMA OtherStepShape ==
    ASSUME IndInv, ServerStep \/ ServerReaccept \/ (\E m \in net : Lose(m) \/ Damage(m))
    PROVE  UNCHANGED <<now, clientVars>> /\ (Holds \/ \E m \in net : Answers(m))
  <1>1. ASSUME NEW m \in net, ServerRecvInit(m) PROVE UNCHANGED <<now, clientVars>> /\ Answers(m)
    <2>1. \A n \in INIT_ACK(m) : n.type = "INIT_ACK" /\ n.to = m.src /\ n.ck = cookie_make(m.src, m.eph) /\ n.eph = seph'
      BY DEF INIT_ACK, Frame
    <2>2. QED
      BY <1>1, <2>1 DEF ServerRecvInit, Deliver, Answers
  <1>2. ASSUME NEW m \in net, ServerRefuseInit(m) PROVE UNCHANGED <<now, clientVars>> /\ Answers(m)
    BY <1>2 DEF ServerRefuseInit, Deliver, Answers
  <1>3. ASSUME NEW m \in net, ServerRecvEcho(m) PROVE UNCHANGED <<now, clientVars>> /\ Holds
    <2>1. \A n \in COOKIE_ACK(m) : n.type = "COOKIE_ACK"
      BY DEF COOKIE_ACK, Frame
    <2>2. QED
      BY <1>3, <2>1 DEF ServerRecvEcho, Deliver, Holds, Same
  <1>4. ASSUME NEW m \in net, ServerRejectEcho(m) \/ ServerHearOther(m) \/ Lose(m) PROVE UNCHANGED <<now, clientVars>> /\ Holds
    BY <1>4 DEF ServerRejectEcho, ServerHearOther, Lose, Deliver, Holds, Same, serverVars
  <1>5. CASE ServerTimeout \/ ServerReaccept
    BY <1>5 DEF ServerTimeout, ServerReaccept, Holds, Same
  <1>6. ASSUME NEW m \in net, Damage(m) PROVE UNCHANGED <<now, clientVars>> /\ Holds
    <2> DEFINE d == [m EXCEPT !.ok = FALSE]
    <2>1. d.type = m.type /\ d.src = m.src /\ d.to = m.to /\ d.eph = m.eph /\ d.ck = m.ck
      BY DEF IndInv, TypeOK, Frames
    <2>2. net' = (net \ {m}) \cup {d} /\ m.type # "INIT" /\ UNCHANGED <<now, clientVars, serverVars>>
      BY <1>6, KindsAssumption DEF Damage
    <2> HIDE DEF d
    <2>3. QED
      BY <2>1, <2>2 DEF Holds, Same, serverVars
  <1>7. QED
    BY <1>1, <1>2, <1>3, <1>4, <1>5, <1>6 DEF ServerStep

\* The other steps keep the frames and the cookies fresh too.
LEMMA FreshOther ==
    ASSUME IndInv, Fresh, UNCHANGED <<now, clientVars>>, Holds \/ \E m \in net : Answers(m)
    PROVE  Fresh'
  <1> USE ConstantsTyped DEF OwnCookie
  <1>1. UNCHANGED <<now, cst, ceph, cck, ckey>>
    BY DEF clientVars
  <1>2. CASE Holds
    <2>1. WireFresh'
      BY <1>1, <1>2 DEF Fresh, WireFresh, Holds, Same
    <2>2. NoCookie.id \notin Client
      BY StationAssumption DEF NoCookie
    <2>3. HeldFresh'
      BY <1>1, <1>2, <2>2 DEF Fresh, HeldFresh, Holds, Committed
    <2>4. QED
      BY <2>1, <2>3 DEF Fresh
  <1>3. ASSUME NEW m \in net, Answers(m) PROVE Fresh'
    <2>1. m.src \in Client /\ cst[m.src] # "closed" /\ m.eph = ceph[m.src]
      BY <1>3 DEF Fresh, WireFresh, Answers
    <2>2. WireFresh'
      BY <1>1, <1>3, <2>1 DEF Fresh, WireFresh, Answers
    <2>3. speer'.id = m.src /\ speer'.eph = ceph[m.src] /\ ceph[m.src] <= ceph[m.src]
      BY <1>3, <2>1 DEF IndInv, TypeOK, Answers, cookie_make
    <2>4. HeldFresh'
      BY <1>1, <2>1, <2>3 DEF Fresh, HeldFresh, Committed
    <2>5. QED
      BY <2>2, <2>4 DEF Fresh
  <1>4. QED
    BY <1>2, <1>3

LEMMA AnsweredClient ==
    ASSUME Timely, IndInv, Fresh, AnsweredOnce, NEW c \in Client, ClientStep(c)
    PROVE  AnsweredOnce'
  <1> USE ConstantsTyped DEF OwnCookie
  <1>1. CASE ClientConnect(c) \/ ClientResendInit(c)
    <2>1. /\ UNCHANGED <<cck, ckey, speer, seph>> /\ ~Committed(c)'
          /\ \A d \in Client : d # c => cst'[d] = cst[d] /\ ceph'[d] = ceph[d]
          /\ \A m \in net : (m.type = "INIT" => m.src # c) /\ (m.type = "INIT_ACK" => m.to # c)
          /\ \A m \in net' : m \in net \/ (m.type = "INIT" /\ m.src = c)
      BY <1>1, NewEphemeral DEF serverVars, Committed
    <2>2. speer # cookie_make(c, ceph'[c])
      <3>1. speer.eph \in Nat /\ ceph'[c] \in Nat /\ (speer.id = c => speer.eph < ceph'[c])
        BY <1>1, NewEphemeral, SkewAssumption DEF IndInv, TypeOK, Cookie
      <3>2. QED
        BY <3>1 DEF cookie_make
    <2>3. Unanswered(c)'
      BY <2>1, <2>2 DEF Unanswered
    <2>4. ASSUME NEW m \in net, m.type = "INIT", m.to = Server PROVE Unanswered(m.src)'
      <3>1. m.src \in Client /\ m.src # c /\ Unanswered(m.src)
        BY <2>1, <2>4 DEF Fresh, WireFresh, AnsweredOnce
      <3>2. QED
        BY <2>1, <3>1 DEF Unanswered, Committed
    <2>5. QED
      BY <2>1, <2>3, <2>4 DEF AnsweredOnce
  <1>2. CASE ~ClientConnect(c) /\ ~ClientResendInit(c)
    <2>1. /\ ceph' = ceph /\ UNCHANGED <<speer, seph>>
          /\ \A m \in net' : m \in net \/ m.type = "COOKIE_ECHO"
      BY <1>2, OtherClientStep DEF serverVars
    <2>2. ASSUME NEW m \in net', m.type = "INIT", m.to = Server PROVE Unanswered(m.src)'
      <3>1. m \in net /\ m.src \in Client /\ Unanswered(m.src)
        BY <2>1, <2>2 DEF Fresh, WireFresh, AnsweredOnce
      <3>2. ~Committed(m.src)'
        BY <1>2, <3>1, OtherClientStep DEF Unanswered
      <3>3. QED
        BY <2>1, <3>1, <3>2 DEF Unanswered
    <2>3. ASSUME NEW d \in Client, cck'[d] # NoCookie, cck'[d] = speer' PROVE ckey'[d].resp = seph'
      <3>1. CASE cck' = cck /\ ckey' = ckey
        BY <2>1, <2>3, <3>1 DEF AnsweredOnce
      <3>2. ASSUME NEW m \in net, m.type = "INIT_ACK",
                   cck' = [cck EXCEPT ![c] = m.ck], ckey' = [ckey EXCEPT ![c] = icsp_derive_key(c, ceph[c], m.eph)]
            PROVE  ckey'[d].resp = seph'
        <4>1. CASE d = c
          <5>1. cck'[d] = m.ck /\ ckey'[d] = icsp_derive_key(c, ceph[c], m.eph)
            BY <3>2, <4>1 DEF IndInv, TypeOK
          <5>2. QED
            BY <2>1, <2>3, <3>2, <5>1 DEF AnsweredOnce, icsp_derive_key
        <4>2. CASE d # c
          <5>1. cck'[d] = cck[d] /\ ckey'[d] = ckey[d]
            BY <3>2, <4>2 DEF IndInv, TypeOK
          <5>2. QED
            BY <2>1, <2>3, <5>1 DEF AnsweredOnce
        <4>3. QED
          BY <4>1, <4>2
      <3>3. QED
        BY <1>2, <3>1, <3>2, OtherClientStep
    <2>4. QED
      BY <2>1, <2>2, <2>3 DEF AnsweredOnce
  <1>3. QED
    BY <1>1, <1>2
LEMMA AnsweredOther ==
    ASSUME "INIT" \notin DupKinds, IndInv, Fresh, AnsweredOnce,
           UNCHANGED <<now, clientVars>>, Holds \/ \E m \in net : Answers(m)
    PROVE  AnsweredOnce'
  <1> USE ConstantsTyped DEF OwnCookie
  <1>1. UNCHANGED <<now, cst, ceph, cck, ckey>>
    BY DEF clientVars
  <1>2. CASE Holds
    <2>1. ASSUME NEW n \in net', n.type = "INIT", n.to = Server PROVE Unanswered(n.src)'
      <3>1. n.src \in Client /\ Unanswered(n.src)
        BY <1>2, <2>1 DEF Holds, Same, Fresh, WireFresh, AnsweredOnce
      <3>2. cookie_make(n.src, ceph[n.src]) # NoCookie
        BY <3>1 DEF IndInv, TypeOK
      <3>3. QED
        BY <1>1, <1>2, <3>1, <3>2 DEF Holds, Same, Unanswered, Committed
    <2>2. ASSUME NEW n \in net', n.type = "INIT_ACK", n.ck = speer' PROVE n.eph = seph'
      <3>1. PICK o \in net : Same(n, o)
        BY <1>2, <2>2 DEF Holds
      <3>2. o.type = "INIT_ACK" /\ o.ck = n.ck /\ o.eph = n.eph /\ o.to \in Client /\ o.ck = cookie_make(o.to, ceph[o.to])
        BY <2>2, <3>1 DEF Same, Fresh, WireFresh
      <3>3. o.ck # NoCookie
        BY <3>2 DEF IndInv, TypeOK
      <3>4. QED
        BY <1>2, <2>2, <3>2, <3>3 DEF Holds, AnsweredOnce
    <2>3. QED
      BY <1>1, <1>2, <2>1, <2>2 DEF Holds, AnsweredOnce
  <1>3. ASSUME NEW m \in net, Answers(m) PROVE AnsweredOnce'
    <2>1. /\ m.src \in Client /\ m.type = "INIT" /\ m.to = Server /\ m \notin net' /\ Unanswered(m.src)
          /\ speer' = cookie_make(m.src, ceph[m.src]) /\ m.eph = ceph[m.src] /\ m.ck = NoCookie /\ m.ok
          /\ \A n \in net' : n \in net \/ (n.type = "INIT_ACK" /\ n.to = m.src /\ n.eph = seph')
      BY <1>3 DEF Fresh, WireFresh, AnsweredOnce, Answers
    <2>2. ASSUME NEW d \in Client, NEW x PROVE cookie_make(d, x) = speer' => d = m.src
      BY <2>1 DEF cookie_make
    <2>3. ASSUME NEW n \in net', n.type = "INIT", n.to = Server PROVE Unanswered(n.src)'
      <3>1. n \in net /\ n # m
        BY <2>1, <2>3
      <3>2. n.src \in Client /\ Unanswered(n.src) /\ n.eph = ceph[n.src] /\ n.ck = NoCookie /\ n.ok
        BY <2>3, <3>1 DEF Fresh, WireFresh, AnsweredOnce
      <3>3. n.src # m.src
        <4>1. n \in Frames /\ m \in Frames
          BY <3>1 DEF IndInv, TypeOK
        <4>2. n.ok = TRUE /\ m.ok = TRUE
          BY <2>1, <3>2, <4>1 DEF Frames
        <4>3. QED
          BY <2>1, <2>3, <3>1, <3>2, <4>1, <4>2 DEF Frames
      <3>4. QED
        BY <1>1, <2>1, <2>2, <3>2, <3>3 DEF Unanswered, Committed
    <2>4. ASSUME NEW n \in net', n.type = "INIT_ACK", n.ck = speer' PROVE n.eph = seph'
      <3>1. CASE n \in net
        <4>1. n.to \in Client /\ n.ck = cookie_make(n.to, ceph[n.to])
          BY <2>4, <3>1 DEF Fresh, WireFresh
        <4>2. QED
          BY <2>1, <2>2, <2>4, <3>1, <4>1 DEF Unanswered
      <3>2. QED
        BY <2>1, <3>1
    <2>5. ASSUME NEW d \in Client, cck[d] # NoCookie, cck[d] = speer' PROVE FALSE
      <3>1. Committed(d) /\ cck[d] = cookie_make(d, ceph[d])
        BY <2>5 DEF Fresh, HeldFresh
      <3>2. QED
        BY <2>1, <2>2, <2>5, <3>1 DEF Unanswered
    <2>6. QED
      BY <1>1, <2>3, <2>4, <2>5 DEF AnsweredOnce
  <1>4. QED
    BY <1>2, <1>3

AgreeInv == IndInv /\ Fresh /\ runs <= MaxRuns /\ ("INIT" \notin DupKinds => AnsweredOnce)

LEMMA InitAgree == Init => AgreeInv
  <1> SUFFICES ASSUME Init PROVE AgreeInv
    OBVIOUS
  <1> USE ConstantsTyped, StationAssumption, SkewAssumption, BoundAssumption
  <1>1. IndInv
    BY InitInd
  <1>2. NoCookie.id = Server
    BY DEF NoCookie
  <1>3. Fresh /\ runs <= MaxRuns /\ AnsweredOnce
    BY <1>2 DEF Init, Fresh, WireFresh, HeldFresh, AnsweredOnce, Committed
  <1>4. QED
    BY <1>1, <1>3 DEF AgreeInv

LEMMA NextAgree == ASSUME Timely PROVE AgreeInv /\ [Next]_vars => AgreeInv'
  <1> SUFFICES ASSUME AgreeInv, [Next]_vars PROVE AgreeInv'
    OBVIOUS
  <1>1. IndInv'
    BY NextInd DEF AgreeInv
  <1>2. ASSUME NEW c \in Client, ClientStep(c) PROVE AgreeInv'
    <2>1. UNCHANGED runs
      BY <1>2 DEF ClientStep, ClientConnect, ClientResendInit, ClientResendEcho, ClientGiveUp,
                  ClientRecvInitAck, ClientRefuseInitAck, ClientRecvCookieAck, ClientHearOther, serverVars
    <2>2. QED
      BY <1>1, <1>2, <2>1, FreshClient, AnsweredClient DEF AgreeInv
  <1>3. CASE ServerStep \/ ServerReaccept \/ (\E m \in net : Lose(m) \/ Damage(m))
    <2>1. runs' <= MaxRuns
      <3>1. CASE ServerReaccept
        BY <3>1, BoundAssumption DEF AgreeInv, IndInv, TypeOK, ServerReaccept
      <3>2. CASE ServerStep \/ (\E m \in net : Lose(m) \/ Damage(m))
        BY <3>2 DEF AgreeInv, ServerStep, ServerTimeout, ServerRecvInit, ServerRefuseInit, ServerRecvEcho,
                    ServerRejectEcho, ServerHearOther, Lose, Damage, serverVars
      <3>3. QED
        BY <1>3, <3>1, <3>2
    <2>2. QED
      BY <1>1, <1>3, <2>1, OtherStepShape, FreshOther, AnsweredOther DEF AgreeInv
  <1>4. CASE UNCHANGED vars
    BY <1>1, <1>4 DEF vars, clientVars, serverVars, AgreeInv, Fresh, WireFresh, HeldFresh, AnsweredOnce, Unanswered,
                OwnCookie, Committed
  <1>5. QED
    BY <1>2, <1>3, <1>4 DEF Next

\* On a network that delivers before any receive timeout expires, and either one accept call or no INIT
\* delivered twice, both ends of an association have derived the same key: a client that
\* retried has taken the INIT-ACK of its last INIT, and the server has answered that INIT with
\* one ephemeral (icsp_client_handshake, icsp_server_accept).
THEOREM KeysAgree ==
    ASSUME Timely, MaxRuns = 1 \/ "INIT" \notin DupKinds
    PROVE  Spec => []KeyAgreement
  <1>1. AgreeInv => KeyAgreement
    <2> SUFFICES ASSUME AgreeInv, NEW c \in Client, cst[c] = "established", sst = "established", speer.id = c
                 PROVE  ckey[c] = skey
      BY DEF KeyAgreement
    <2>1. cck[c] = speer /\ skey = icsp_derive_key(c, speer.eph, seph)
      BY DEF AgreeInv, IndInv, ServerInv
    <2>2. cck[c] # NoCookie
      BY <2>1, StationAssumption DEF NoCookie
    <2>3. speer = cookie_make(c, ceph[c]) /\ ckey[c].init = ceph[c] /\ ckey[c].id = c
      BY <2>1, <2>2 DEF AgreeInv, Fresh, HeldFresh, OwnCookie
    <2>4. ckey[c].resp = seph
      <3>1. CASE MaxRuns = 1
        <4>1. runs = 1
          BY <3>1 DEF AgreeInv, IndInv, TypeOK
        <4>2. QED
          BY <2>1, <2>2, <4>1 DEF AgreeInv, IndInv, ClientInv
      <3>2. CASE "INIT" \notin DupKinds
        BY <2>1, <2>2, <3>2 DEF AgreeInv, AnsweredOnce
      <3>3. QED
        BY <3>1, <3>2
    <2>5. ckey[c] \in Key
      BY DEF AgreeInv, IndInv, TypeOK
    <2>6. QED
      BY <2>1, <2>3, <2>4, <2>5 DEF Key, cookie_make, icsp_derive_key
  <1>2. AgreeInv /\ [Next]_vars => AgreeInv'
    BY NextAgree
  <1>3. QED
    BY InitAgree, <1>1, <1>2, PTL DEF Spec
=============================================================================
