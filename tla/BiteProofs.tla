----------------------------- MODULE BiteProofs -----------------------------
(***************************************************************************)
(* Proofs about bite and bTLS (module Bite).  A session is told by the      *)
(* ephemerals a of the client and b of the server: they determine the       *)
(* transcript, the keys and the records of a handshake at both ends, so     *)
(* whoever holds a key knows whom it shares it with.                        *)
(***************************************************************************)
EXTENDS Bite, FiniteSetTheorems, FunctionTheorems, TLAPS

-----------------------------------------------------------------------------
(* The handshake of a and b: its frames, transcripts, keys and records.       *)

ClientEph == Client \X Nat
ServerEph == {NoClient} \X Nat

FrCH(a) == [type |-> "CH", eph |-> a]
FrSH(b) == [type |-> "SH", eph |-> b]
FrCert == [type |-> "CERT", pub |-> ServerKey]
T1(a) == Append(<<>>, FrCH(a))
T2(a, b) == Append(T1(a), FrSH(b))
T3(a, b) == Append(T2(a, b), FrCert)
FrCV(a, b) == [type |-> "CV", by |-> ServerKey, digest |-> T3(a, b)]
T4(a, b) == Append(T3(a, b), FrCV(a, b))
FrFinS(a, b) == [type |-> "FIN", mac |-> [label |-> <<"fin", "s">>, prk |-> {a, b}, th |-> T4(a, b)]]
T5(a, b) == Append(T4(a, b), FrFinS(a, b))
FrFinC(a, b) == [type |-> "FIN", mac |-> [label |-> <<"fin", "c">>, prk |-> {a, b}, th |-> T5(a, b)]]
T6(a, b) == Append(T5(a, b), FrFinC(a, b))

Hs(a, b, d) == [label |-> <<"hs", d>>, prk |-> {a, b}, th |-> T2(a, b)]
App(a, b, d) == [label |-> <<"app", d>>, prk |-> {a, b}, th |-> T6(a, b)]

Box(k, n, f) == [rt |-> "APPLICATION", key |-> k, seq |-> n, inner |-> f]
CertBox(a, b) == Box(Hs(a, b, "s2c"), 0, FrCert)
CVBox(a, b) == Box(Hs(a, b, "s2c"), 1, FrCV(a, b))
FinSBox(a, b) == Box(Hs(a, b, "s2c"), 2, FrFinS(a, b))
FinCBox(a, b) == Box(Hs(a, b, "c2s"), 0, FrFinC(a, b))

\* A session, and what may differ between two.
Fields == {"role", "state", "epoch", "want", "eph", "peer", "cert", "pub", "label", "th", "prk",
           "send", "recv", "sseq", "rseq", "rx"}
IsSession(t) == DOMAIN t = Fields
Same(t, u, X) == IsSession(u) /\ \A f \in Fields \ X : u[f] = t[f]

\* The server's session: new; in its flight; waiting for Finished; done.
Server(t, b) == IsSession(t) /\ t.role = "server" /\ t.pub = ServerKey /\ t.eph = b
S0(t, b) ==
    /\ Server(t, b) /\ t.state = "INIT" /\ t.epoch = 0 /\ t.peer = <<>> /\ t.th = <<>>
    /\ t.sseq = 0 /\ t.rseq = 0 /\ t.rx = <<>>
SH1(t, a, b, th, n) ==
    /\ Server(t, b) /\ t.epoch = 1 /\ t.peer = a /\ t.prk = {a, b} /\ t.th = th
    /\ t.send = Hs(a, b, "s2c") /\ t.recv = Hs(a, b, "c2s")
    /\ t.sseq = n /\ t.rseq = 0 /\ t.rx = <<>>
S1(t, a, b) == SH1(t, a, b, T5(a, b), 3) /\ t.state = "WAIT_FIN"
S2(t, a, b) ==
    /\ Server(t, b) /\ t.state = "DONE" /\ t.epoch = 2 /\ t.peer = a /\ t.th = T6(a, b)
    /\ t.send = App(a, b, "s2c") /\ t.recv = App(a, b, "c2s") /\ t.sseq \in Nat /\ t.rseq \in Nat

\* A client's: ClientHello sent; in the server's flight; done.
Cli(t, a, l) == IsSession(t) /\ t.role = "client" /\ t.eph = a /\ t.label = l
C0(t, a, l) ==
    /\ Cli(t, a, l) /\ t.state = "CH_SENT" /\ t.epoch = 0 /\ t.want = "SH" /\ t.th = T1(a) /\ t.rx = <<>>
CH1(t, a, b, l, want, th, n) ==
    /\ Cli(t, a, l) /\ t.state = "HS" /\ t.epoch = 1 /\ t.want = want /\ t.peer = b /\ t.prk = {a, b} /\ t.th = th
    /\ t.send = Hs(a, b, "c2s") /\ t.recv = Hs(a, b, "s2c") /\ t.sseq = 0 /\ t.rseq = n /\ t.rx = <<>>
C1(t, a, b, l) == CH1(t, a, b, l, "CERT", T2(a, b), 0)
C2(t, a, b, l) == CH1(t, a, b, l, "CV", T3(a, b), 1) /\ t.cert = ServerKey
C3(t, a, b, l) == CH1(t, a, b, l, "FIN", T4(a, b), 2) /\ t.cert = ServerKey
C4(t, a, b, l) ==
    /\ Cli(t, a, l) /\ t.state = "DONE" /\ t.epoch = 2 /\ t.want = "none" /\ t.peer = b /\ t.th = T6(a, b)
    /\ t.cert = ServerKey /\ t.send = App(a, b, "c2s") /\ t.recv = App(a, b, "s2c")
    /\ t.sseq \in Nat /\ t.rseq \in Nat

-----------------------------------------------------------------------------
(* Ephemerals and keys.                                                      *)

\* An ephemeral is a client's or the server's.
LEMMA EphsDiffer ==
    /\ \A a \in ClientEph : a = <<a[1], a[2]>> /\ a[1] \in Client /\ a[2] \in Nat
    /\ \A b \in ServerEph : b = <<NoClient, b[2]>> /\ b[2] \in Nat
    /\ \A a \in ClientEph, b \in ServerEph : a # b
BY NameAssumption DEF ClientEph, ServerEph

\* A key tells the session and the direction it is of.
LEMMA KeysDiffer ==
    ASSUME NEW a \in ClientEph, NEW b \in ServerEph, NEW x \in ClientEph, NEW y \in ServerEph, NEW d, NEW e
    PROVE  /\ Hs(a, b, d) = Hs(x, y, e) => a = x /\ b = y /\ d = e
           /\ App(a, b, d) = App(x, y, e) => a = x /\ b = y /\ d = e
           /\ Hs(a, b, d) # App(x, y, e)
<1>1. a # b /\ a # y /\ x # b /\ x # y
  BY EphsDiffer
<1>2. {a, b} = {x, y} => a = x /\ b = y
  BY <1>1
<1>3. <<"hs", d>> # <<"app", e>> /\ (<<"hs", d>> = <<"hs", e>> => d = e) /\ (<<"app", d>> = <<"app", e>> => d = e)
  OBVIOUS
<1> QED BY <1>2, <1>3 DEF Hs, App

-----------------------------------------------------------------------------
(* What the functions of btls.c do to a session.                             *)

\* btls_init starts a session.
LEMMA NewSession ==
    ASSUME NEW r, NEW p, NEW e, NEW l
    PROVE  LET t == btls_init(r, p, e, l) IN
           /\ IsSession(t) /\ t.role = r /\ t.pub = p /\ t.eph = e /\ t.label = l /\ t.state = "INIT" /\ t.epoch = 0
           /\ t.peer = <<>> /\ t.th = <<>> /\ t.sseq = 0 /\ t.rseq = 0 /\ t.rx = <<>>
BY DEF btls_init, IsSession, Fields

\* th_append writes the transcript only.
LEMMA Appended ==
    ASSUME NEW t, IsSession(t), NEW f
    PROVE  LET u == th_append(t, f) IN Same(t, u, {"th"}) /\ u.th = Append(t.th, f)
BY DEF th_append, IsSession, Fields, Same

\* open_rec counts the records of an epoch.
LEMMA OneOpened ==
    ASSUME NEW t, IsSession(t)
    PROVE  LET u == opened(t) IN Same(t, u, {"rseq"}) /\ u.rseq = IF t.epoch = 0 THEN t.rseq ELSE t.rseq + 1
BY DEF opened, IsSession, Fields, Same

\* ecdh_prk writes the secret of the two ephemerals.
LEMMA Derived ==
    ASSUME NEW t, IsSession(t)
    PROVE  LET u == ecdh_prk(t) IN Same(t, u, {"prk"}) /\ u.prk = {t.eph, t.peer}
BY DEF ecdh_prk, IsSession, Fields, Same

\* install_epoch writes the keys and starts the counters over.
LEMMA Installed ==
    ASSUME NEW t, IsSession(t), NEW n, NEW name
    PROVE  LET u == install_epoch(t, n, name)
               c2s == derive_key(t, <<name, "c2s">>)
               s2c == derive_key(t, <<name, "s2c">>)
           IN /\ Same(t, u, {"send", "recv", "sseq", "rseq", "epoch"})
              /\ u.sseq = 0 /\ u.rseq = 0 /\ u.epoch = n
              /\ u.send = (IF t.role = "client" THEN c2s ELSE s2c)
              /\ u.recv = (IF t.role = "client" THEN s2c ELSE c2s)
BY DEF install_epoch, IsSession, Fields, Same

\* Sealed sends a frame under the session's key and counter.
LEMMA OneSealed ==
    ASSUME NEW x, IsSession(x.t), NEW f
    PROVE  LET y == Sealed(x, f) IN
           /\ y = [t |-> y.t, out |-> y.out]
           /\ Same(x.t, y.t, {"th", "sseq"}) /\ y.t.th = Append(x.t.th, f) /\ y.t.sseq = x.t.sseq + 1
           /\ y.out = Append(x.out, Box(x.t.send, x.t.sseq, f))
<1>1. Same(x.t, th_append(x.t, f), {"th"}) /\ th_append(x.t, f).th = Append(x.t.th, f)
  BY Appended
<1> QED BY <1>1 DEF Sealed, seal_box, Box, Same, IsSession, Fields

-----------------------------------------------------------------------------
(* The handshake, step by step.                                              *)

\* Two changes after each other.
LEMMA SameTwice ==
    ASSUME NEW t, NEW u, NEW v, NEW X, NEW Y, NEW Z, Same(t, u, X), Same(u, v, Y), X \subseteq Z, Y \subseteq Z
    PROVE  Same(t, v, Z)
BY DEF Same

\* What one more record changes of the server's session.
LEMMA ServerSealed ==
    ASSUME NEW a, NEW b, NEW t, NEW u, NEW th, NEW n, SH1(t, a, b, th, n), Same(t, u, {"th", "sseq", "want", "state"})
    PROVE  SH1(u, a, b, u.th, u.sseq)
BY DEF Same, IsSession, Fields, SH1, Server

\* The server takes a ClientHello.
LEMMA TakesHello ==
    ASSUME NEW a, NEW b, NEW t, S0(t, b)
    PROVE  LET u == btls_feed(t, Plain(FrCH(a))) IN
           /\ Server(u, b) /\ u.state = "HS" /\ u.want = "SH" /\ u.peer = a /\ u.th = T1(a)
           /\ u.sseq = 0 /\ u.rseq = 0 /\ u.rx = <<>>
<1> DEFINE v == opened(t)
           w == th_append(v, FrCH(a))
           u == btls_feed(t, Plain(FrCH(a)))
<1>1. Same(t, v, {"rseq"}) /\ v.rseq = t.rseq
  BY OneOpened DEF S0, Server
<1>2. Same(v, w, {"th"}) /\ w.th = T1(a)
  <2>1. IsSession(v) /\ v.th = <<>>
    BY <1>1 DEF Same, Fields, S0
  <2> QED BY <2>1, Appended DEF T1
<1> HIDE DEF v
<1>3. u = [w EXCEPT !.peer = a, !.state = "HS", !.want = "SH"]
  <2> DEFINE f == FrCH(a)
  <2>1. f.type = "CH" /\ f.eph = a
    BY DEF FrCH
  <2>2. u = Taken(t, f)
    BY DEF btls_feed, Plain
  <2> HIDE DEF f, u
  <2>3. Taken(t, f) = [th_append(opened(t), f) EXCEPT !.peer = f.eph, !.state = "HS", !.want = "SH"]
    BY <2>1 DEF Taken
  <2> QED BY <2>1, <2>2, <2>3 DEF v, f
<1> HIDE DEF w, u
<1>4. Same(w, u, {"peer", "state", "want"}) /\ u.peer = a /\ u.state = "HS" /\ u.want = "SH"
  BY <1>2, <1>3 DEF Same, IsSession, Fields
<1> QED BY <1>1, <1>2, <1>4 DEF Same, IsSession, Fields, S0, Server, u

\* ServerHello, and the keys of the handshake.
LEMMA PumpHello ==
    ASSUME NEW a, NEW b, NEW x, Server(x.t, b), x.t.state = "HS", x.t.want = "SH", x.t.peer = a, x.t.th = T1(a),
           x.t.rx = <<>>
    PROVE  LET y == btls_pump(x) IN
           SH1(y.t, a, b, T2(a, b), 0) /\ y.t.state = "HS" /\ y.t.want = "CERT" /\ y.out = Append(x.out, Plain(FrSH(b)))
<1> DEFINE t == x.t
           u == th_append(t, FrSH(b))
           v == ecdh_prk(u)
           w == install_epoch(v, 1, "hs")
           y == btls_pump(x)
<1>1. SH(t) = FrSH(b)
  BY DEF SH, FrSH, Server
<1>2. Same(t, u, {"th"}) /\ u.th = T2(a, b)
  BY Appended DEF Server, T2
<1>3. Same(u, v, {"prk"}) /\ v.prk = {b, a}
  BY <1>2, Derived DEF Same, IsSession, Fields, Server
<1>4. v.prk = {a, b} /\ v.th = T2(a, b) /\ v.role = "server" /\ IsSession(v)
  <2>1. {b, a} = {a, b}
    OBVIOUS
  <2> HIDE DEF t, u, v
  <2>2. t.role = "server"
    BY DEF Server, t
  <2> QED BY <1>2, <1>3, <2>1, <2>2 DEF Same, Fields
<1>5. /\ Same(v, w, {"send", "recv", "sseq", "rseq", "epoch"})
      /\ w.sseq = 0 /\ w.rseq = 0 /\ w.epoch = 1 /\ w.send = Hs(a, b, "s2c") /\ w.recv = Hs(a, b, "c2s")
  <2> HIDE DEF v
  <2> DEFINE s2c == derive_key(v, <<"hs", "s2c">>)
             c2s == derive_key(v, <<"hs", "c2s">>)
  <2>1. s2c = Hs(a, b, "s2c") /\ c2s = Hs(a, b, "c2s")
    BY <1>4 DEF Hs, derive_key
  <2>2. v.role # "client"
    BY <1>4
  <2>3. /\ Same(v, w, {"send", "recv", "sseq", "rseq", "epoch"}) /\ w.sseq = 0 /\ w.rseq = 0 /\ w.epoch = 1
        /\ w.send = s2c /\ w.recv = c2s
    BY <1>4, <2>2, Installed
  <2> QED BY <2>1, <2>3
<1>6. y.t = [w EXCEPT !.want = "CERT"] /\ y.out = Append(x.out, Plain(FrSH(b)))
  BY <1>1 DEF btls_pump, Server
<1> HIDE DEF u, v, w, y
<1>7. Same(w, y.t, {"want"}) /\ y.t.want = "CERT"
  BY <1>5, <1>6 DEF Same, IsSession, Fields
<1>8. Same(t, y.t, {"th", "prk", "send", "recv", "sseq", "rseq", "epoch", "want"})
  <2> DEFINE Z == {"th", "prk", "send", "recv", "sseq", "rseq", "epoch", "want"}
  <2>1. Same(t, v, Z)
    BY <1>2, <1>3, SameTwice
  <2>2. Same(t, w, Z)
    BY <1>5, <2>1, SameTwice
  <2> QED BY <1>7, <2>2, SameTwice
<1>9. y.t.pub = t.pub /\ y.t.role = t.role /\ y.t.eph = t.eph /\ y.t.peer = t.peer /\ y.t.rx = t.rx /\ y.t.state = t.state /\ IsSession(y.t)
  BY <1>8 DEF Same, Fields
<1>10. w.prk = v.prk /\ w.th = v.th
  BY <1>5 DEF Same, Fields
<1>11. /\ y.t.prk = w.prk /\ y.t.th = w.th /\ y.t.send = w.send /\ y.t.recv = w.recv /\ y.t.sseq = w.sseq /\ y.t.rseq = w.rseq
       /\ y.t.epoch = w.epoch
  BY <1>7 DEF Same, Fields
<1> QED BY <1>4, <1>5, <1>6, <1>7, <1>9, <1>10, <1>11 DEF SH1, Server, y

\* Certificate.
LEMMA PumpCert ==
    ASSUME NEW a, NEW b, NEW x, SH1(x.t, a, b, T2(a, b), 0), x.t.state = "HS", x.t.want = "CERT"
    PROVE  LET y == btls_pump(x) IN
           SH1(y.t, a, b, T3(a, b), 1) /\ y.t.state = "HS" /\ y.t.want = "CV" /\ y.out = Append(x.out, CertBox(a, b))
<1> DEFINE z == Sealed(x, CERT(x.t))
           y == btls_pump(x)
<1>1. CERT(x.t) = FrCert
  BY DEF CERT, FrCert, SH1, Server
<1>2. /\ z = [t |-> z.t, out |-> z.out] /\ Same(x.t, z.t, {"th", "sseq"}) /\ z.t.th = T3(a, b) /\ z.t.sseq = 1
      /\ z.out = Append(x.out, CertBox(a, b))
  BY <1>1, OneSealed DEF SH1, Server, T3, CertBox
<1>3. y = [z EXCEPT !.t.want = "CV"]
  BY DEF btls_pump, SH1, Server
<1> HIDE DEF z, y
<1>4. y.out = z.out /\ Same(z.t, y.t, {"want"}) /\ y.t.want = "CV"
  BY <1>2, <1>3 DEF Same, IsSession, Fields
<1>5. Same(x.t, y.t, {"th", "sseq", "want", "state"})
  BY <1>2, <1>4, SameTwice
<1>6. SH1(y.t, a, b, y.t.th, y.t.sseq)
  BY <1>5, ServerSealed
<1>7. y.t.th = z.t.th /\ y.t.sseq = z.t.sseq /\ y.t.state = z.t.state
  BY <1>4 DEF Same, Fields
<1>8. z.t.state = x.t.state
  BY <1>2 DEF Same, Fields
<1> QED BY <1>2, <1>4, <1>6, <1>7, <1>8 DEF y

\* CertificateVerify, over the transcript with the certificate.
LEMMA PumpVerify ==
    ASSUME NEW a, NEW b, NEW x, SH1(x.t, a, b, T3(a, b), 1), x.t.state = "HS", x.t.want = "CV"
    PROVE  LET y == btls_pump(x) IN
           SH1(y.t, a, b, T4(a, b), 2) /\ y.t.state = "HS" /\ y.t.want = "FIN" /\ y.out = Append(x.out, CVBox(a, b))
<1> DEFINE z == Sealed(x, CV(x.t))
           y == btls_pump(x)
<1>1. CV(x.t) = FrCV(a, b)
  BY DEF CV, FrCV, cert_digest, SH1, Server
<1>2. /\ z = [t |-> z.t, out |-> z.out] /\ Same(x.t, z.t, {"th", "sseq"}) /\ z.t.th = T4(a, b) /\ z.t.sseq = 2
      /\ z.out = Append(x.out, CVBox(a, b))
  BY <1>1, OneSealed DEF SH1, Server, T4, CVBox
<1>3. y = [z EXCEPT !.t.want = "FIN"]
  BY DEF btls_pump, SH1, Server
<1> HIDE DEF z, y
<1>4. y.out = z.out /\ Same(z.t, y.t, {"want"}) /\ y.t.want = "FIN"
  BY <1>2, <1>3 DEF Same, IsSession, Fields
<1>5. Same(x.t, y.t, {"th", "sseq", "want", "state"})
  BY <1>2, <1>4, SameTwice
<1>6. SH1(y.t, a, b, y.t.th, y.t.sseq)
  BY <1>5, ServerSealed
<1>7. y.t.th = z.t.th /\ y.t.sseq = z.t.sseq /\ y.t.state = z.t.state
  BY <1>4 DEF Same, Fields
<1>8. z.t.state = x.t.state
  BY <1>2 DEF Same, Fields
<1> QED BY <1>2, <1>4, <1>6, <1>7, <1>8 DEF y

\* The server's Finished.
LEMMA PumpFinished ==
    ASSUME NEW a, NEW b, NEW x, SH1(x.t, a, b, T4(a, b), 2), x.t.state = "HS", x.t.want = "FIN"
    PROVE  LET y == btls_pump(x) IN S1(y.t, a, b) /\ y.out = Append(x.out, FinSBox(a, b))
<1> DEFINE z == Sealed(x, FIN(x.t, "s"))
           y == btls_pump(x)
<1>1. FIN(x.t, "s") = FrFinS(a, b)
  BY DEF FIN, FrFinS, finished_mac, derive_key, SH1, Server
<1>2. /\ z = [t |-> z.t, out |-> z.out] /\ Same(x.t, z.t, {"th", "sseq"}) /\ z.t.th = T5(a, b) /\ z.t.sseq = 3
      /\ z.out = Append(x.out, FinSBox(a, b))
  BY <1>1, OneSealed DEF SH1, Server, T5, FinSBox
<1>3. y = [z EXCEPT !.t.state = "WAIT_FIN"]
  BY DEF btls_pump, SH1, Server
<1> HIDE DEF z, y
<1>4. y.out = z.out /\ Same(z.t, y.t, {"state"}) /\ y.t.state = "WAIT_FIN"
  BY <1>2, <1>3 DEF Same, IsSession, Fields
<1>5. Same(x.t, y.t, {"th", "sseq", "want", "state"})
  BY <1>2, <1>4, SameTwice
<1>6. SH1(y.t, a, b, y.t.th, y.t.sseq)
  BY <1>5, ServerSealed
<1>7. y.t.th = z.t.th /\ y.t.sseq = z.t.sseq /\ y.t.want = z.t.want
  BY <1>4 DEF Same, Fields
<1>8. z.t.want = x.t.want
  BY <1>2 DEF Same, Fields
<1> QED BY <1>2, <1>4, <1>6, <1>7, <1>8 DEF S1, y

\* A session that has nothing to send sends nothing.
LEMMA PumpStill ==
    ASSUME NEW x, \/ x.t.state # "HS"
                  \/ x.t.role = "client" /\ x.t.want # "none"
    PROVE  btls_pump(x) = x
<1>1. CASE x.t.state # "HS"
  BY <1>1, Zenon DEF btls_pump
<1>2. CASE x.t.role = "client" /\ x.t.want # "none"
  BY <1>2, SMTT(20) DEF btls_pump
<1> QED BY <1>1, <1>2

\* A client that has the server's Finished sends its own.
LEMMA PumpLast ==
    ASSUME NEW x, x.t.role = "client", x.t.state = "HS", x.t.want = "none"
    PROVE  btls_pump(x) = [Sealed(x, FIN(x.t, "c")) EXCEPT
                              !.t = [install_epoch(Sealed(x, FIN(x.t, "c")).t, 2, "app") EXCEPT !.state = "DONE"]]
BY Zenon DEF btls_pump

\* Four calls of btls_pump.
PumpedFour(t) == btls_pump(btls_pump(btls_pump(btls_pump([t |-> t, out |-> <<>>]))))
\* The loop of its callers is these four calls.
LEMMA FourPumps ==
    ASSUME NEW t, NEW y \in Flight(t)
    PROVE  y = PumpedFour(t)
<1>1. \A z : Pumped({z}) = {btls_pump(z)}
  BY DEF Pumped
<1>2. Flight(t) = {PumpedFour(t)}
  BY <1>1 DEF Flight, PumpedFour
<1> QED BY <1>2

\* The flight: four records.
ServerOut(a, b) == Append(Append(Append(Append(<<>>, Plain(FrSH(b))), CertBox(a, b)), CVBox(a, b)), FinSBox(a, b))

\* The server answers a ClientHello with its whole flight.
LEMMA ServerFlight ==
    ASSUME NEW a, NEW b, NEW t, S0(t, b), NEW y \in Flight(btls_feed(t, Plain(FrCH(a))))
    PROVE  S1(y.t, a, b) /\ y.out = ServerOut(a, b)
<1> DEFINE u == btls_feed(t, Plain(FrCH(a)))
           x0 == [t |-> u, out |-> <<>>]
           x1 == btls_pump(x0)
           x2 == btls_pump(x1)
           x3 == btls_pump(x2)
           x4 == btls_pump(x3)
<1>1. Server(u, b) /\ u.state = "HS" /\ u.want = "SH" /\ u.peer = a /\ u.th = T1(a) /\ u.rx = <<>>
  BY TakesHello
<1>2. y = x4
  BY FourPumps DEF PumpedFour
<1> HIDE DEF u
<1>3. x0.t = u /\ x0.out = <<>>
  OBVIOUS
<1> HIDE DEF x0
<1>4. SH1(x1.t, a, b, T2(a, b), 0) /\ x1.t.state = "HS" /\ x1.t.want = "CERT" /\ x1.out = Append(x0.out, Plain(FrSH(b)))
  BY <1>1, <1>3, PumpHello
<1> HIDE DEF x1
<1>5. SH1(x2.t, a, b, T3(a, b), 1) /\ x2.t.state = "HS" /\ x2.t.want = "CV" /\ x2.out = Append(x1.out, CertBox(a, b))
  BY <1>4, PumpCert
<1> HIDE DEF x2
<1>6. SH1(x3.t, a, b, T4(a, b), 2) /\ x3.t.state = "HS" /\ x3.t.want = "FIN" /\ x3.out = Append(x2.out, CVBox(a, b))
  BY <1>5, PumpVerify
<1> HIDE DEF x3
<1>7. S1(x4.t, a, b) /\ x4.out = Append(x3.out, FinSBox(a, b))
  BY <1>6, PumpFinished
<1> HIDE DEF x4
<1> QED BY <1>2, <1>3, <1>4, <1>5, <1>6, <1>7 DEF ServerOut

\* The loop ends at once when there is nothing to send.
LEMMA PumpNothing ==
    ASSUME NEW t, \/ t.state # "HS"
                  \/ t.role = "client" /\ t.want # "none",
           NEW y \in Flight(t)
    PROVE  y = [t |-> t, out |-> <<>>]
<1> DEFINE x == [t |-> t, out |-> <<>>]
<1>1. x.t = t
  OBVIOUS
<1>2. y = btls_pump(btls_pump(btls_pump(btls_pump(x))))
  BY FourPumps DEF PumpedFour
<1> HIDE DEF x
<1>3. btls_pump(x) = x
  BY <1>1, PumpStill
<1> QED BY <1>2, <1>3 DEF x

\* The server takes the client's Finished, and is done.
LEMMA ServerFinished ==
    ASSUME NEW a, NEW b, NEW t, S1(t, a, b), NEW y \in Flight(btls_feed(t, FinCBox(a, b)))
    PROVE  S2(y.t, a, b) /\ y.t.sseq = 0 /\ y.t.rseq = 0 /\ y.t.rx = <<>> /\ y.out = <<>>
<1> DEFINE f == FrFinC(a, b)
           v == opened(t)
           w == th_append(v, f)
           z == install_epoch(w, 2, "app")
           u == btls_feed(t, FinCBox(a, b))
<1>1. Same(t, v, {"rseq"})
  BY OneOpened DEF S1, SH1, Server
<1>2. IsSession(v) /\ v.th = T5(a, b)
  BY <1>1 DEF Same, Fields, S1, SH1
<1> HIDE DEF v
<1>3. Same(v, w, {"th"}) /\ w.th = T6(a, b)
  BY <1>2, Appended DEF T6
<1>4. Same(t, w, {"rseq", "th"})
  BY <1>1, <1>3, SameTwice
<1> HIDE DEF w
<1>5. IsSession(w) /\ w.role = "server" /\ w.prk = {a, b}
  BY <1>4 DEF Same, Fields, S1, SH1, Server
<1>6. /\ Same(w, z, {"send", "recv", "sseq", "rseq", "epoch"}) /\ z.sseq = 0 /\ z.rseq = 0 /\ z.epoch = 2
      /\ z.send = derive_key(w, <<"app", "s2c">>) /\ z.recv = derive_key(w, <<"app", "c2s">>)
  BY <1>5, Installed
<1>7. derive_key(w, <<"app", "s2c">>) = App(a, b, "s2c") /\ derive_key(w, <<"app", "c2s">>) = App(a, b, "c2s")
  BY <1>3, <1>5 DEF derive_key, App
<1>8. u = [z EXCEPT !.state = "DONE"]
  <2>1. u = Taken(t, f)
    BY DEF btls_feed, FinCBox, Box
  <2>2. f.type = "FIN" /\ t.role = "server"
    BY DEF FrFinC, S1, SH1, Server
  <2> HIDE DEF f, u
  <2>3. Taken(t, f) = [install_epoch(th_append(opened(t), f), 2, "app") EXCEPT !.state = "DONE"]
    BY <2>2 DEF Taken
  <2> QED BY <2>1, <2>3 DEF z, w, v
<1> HIDE DEF z, u
<1>9. Same(z, u, {"state"}) /\ u.state = "DONE"
  BY <1>6, <1>8 DEF Same, IsSession, Fields
<1>10. Same(t, u, {"rseq", "th", "send", "recv", "sseq", "epoch", "state"})
  <2> DEFINE Z == {"rseq", "th", "send", "recv", "sseq", "epoch", "state"}
  <2>1. Same(t, z, Z)
    BY <1>4, <1>6, SameTwice
  <2> QED BY <1>9, <2>1, SameTwice
<1>11. Server(u, b) /\ u.peer = a /\ u.rx = <<>>
  BY <1>10 DEF Same, Fields, S1, SH1, Server
<1>12. u.th = w.th /\ u.send = z.send /\ u.recv = z.recv /\ u.sseq = 0 /\ u.rseq = 0 /\ u.epoch = 2
  BY <1>6, <1>9 DEF Same, Fields
<1>13. y = [t |-> u, out |-> <<>>]
  BY <1>9, PumpNothing DEF u
<1> QED BY <1>3, <1>6, <1>7, <1>9, <1>11, <1>12, <1>13 DEF S2

\* The client starts.
LEMMA ClientStart ==
    ASSUME NEW a, NEW l
    PROVE  LET t == btls_init("client", NoPub, a, l) IN C0(btls_client_start(t), a, l) /\ CH(t) = FrCH(a)
<1> DEFINE t == btls_init("client", NoPub, a, l)
           v == th_append(t, FrCH(a))
           u == btls_client_start(t)
<1>1. /\ IsSession(t) /\ t.role = "client" /\ t.eph = a /\ t.label = l /\ t.epoch = 0 /\ t.th = <<>> /\ t.rx = <<>>
  BY NewSession
<1> HIDE DEF t
<1>2. CH(t) = FrCH(a)
  BY <1>1 DEF CH, FrCH
<1>3. Same(t, v, {"th"}) /\ v.th = T1(a)
  BY <1>1, Appended DEF T1
<1>4. u = [v EXCEPT !.state = "CH_SENT", !.want = "SH"]
  BY <1>2 DEF btls_client_start
<1> HIDE DEF v, u
<1>5. Same(v, u, {"state", "want"}) /\ u.state = "CH_SENT" /\ u.want = "SH"
  BY <1>3, <1>4 DEF Same, IsSession, Fields
<1> QED BY <1>1, <1>2, <1>3, <1>5 DEF Same, Fields, IsSession, C0, Cli, t, u

\* It takes the ServerHello.
LEMMA ClientHello ==
    ASSUME NEW a, NEW b, NEW l, NEW t, C0(t, a, l), NEW y \in Flight(btls_feed(t, Plain(FrSH(b))))
    PROVE  C1(y.t, a, b, l) /\ y.out = <<>>
<1> DEFINE f == FrSH(b)
           v == opened(t)
           w == th_append(v, f)
           p == [w EXCEPT !.peer = b]
           k == ecdh_prk(p)
           z == install_epoch(k, 1, "hs")
           u == btls_feed(t, Plain(FrSH(b)))
<1>1. Same(t, v, {"rseq"})
  BY OneOpened DEF C0, Cli
<1>2. IsSession(v) /\ v.th = T1(a)
  BY <1>1 DEF Same, Fields, C0
<1> HIDE DEF v
<1>3. Same(v, w, {"th"}) /\ w.th = T2(a, b)
  BY <1>2, Appended DEF T2
<1> HIDE DEF w
<1>4. Same(w, p, {"peer"}) /\ p.peer = b
  BY <1>3 DEF Same, IsSession, Fields
<1> HIDE DEF p
<1>5. Same(t, p, {"rseq", "th", "peer"})
  <2>1. Same(t, w, {"rseq", "th", "peer"})
    BY <1>1, <1>3, SameTwice
  <2> QED BY <1>4, <2>1, SameTwice
<1>6. IsSession(p) /\ p.eph = a /\ p.role = "client" /\ p.th = T2(a, b)
  BY <1>3, <1>4, <1>5 DEF Same, Fields, C0, Cli
<1>7. Same(p, k, {"prk"}) /\ k.prk = {a, b}
  BY <1>4, <1>6, Derived
<1> HIDE DEF k
<1>8. IsSession(k) /\ k.role = "client" /\ k.th = T2(a, b)
  BY <1>6, <1>7 DEF Same, Fields
<1>9. /\ Same(k, z, {"send", "recv", "sseq", "rseq", "epoch"}) /\ z.sseq = 0 /\ z.rseq = 0 /\ z.epoch = 1
      /\ z.send = derive_key(k, <<"hs", "c2s">>) /\ z.recv = derive_key(k, <<"hs", "s2c">>)
  BY <1>8, Installed
<1>10. derive_key(k, <<"hs", "s2c">>) = Hs(a, b, "s2c") /\ derive_key(k, <<"hs", "c2s">>) = Hs(a, b, "c2s")
  BY <1>7, <1>8 DEF derive_key, Hs
<1>11. u = [z EXCEPT !.state = "HS", !.want = "CERT"]
  <2>1. u = Taken(t, f)
    BY DEF btls_feed, Plain
  <2>2. f.type = "SH" /\ f.eph = b
    BY DEF FrSH
  <2> HIDE DEF f, u
  <2>3. Taken(t, f) = [install_epoch(ecdh_prk([th_append(opened(t), f) EXCEPT !.peer = f.eph]), 1, "hs")
                          EXCEPT !.state = "HS", !.want = "CERT"]
    BY <2>2 DEF Taken
  <2> QED BY <2>1, <2>2, <2>3 DEF z, k, p, w, v
<1> HIDE DEF z, u
<1>12. Same(z, u, {"state", "want"}) /\ u.state = "HS" /\ u.want = "CERT"
  BY <1>9, <1>11 DEF Same, IsSession, Fields
<1>13. Same(t, u, {"rseq", "th", "peer", "prk", "send", "recv", "sseq", "epoch", "state", "want"})
  <2> DEFINE Z == {"rseq", "th", "peer", "prk", "send", "recv", "sseq", "epoch", "state", "want"}
  <2>1. Same(t, k, Z)
    BY <1>5, <1>7, SameTwice
  <2>2. Same(t, z, Z)
    BY <1>9, <2>1, SameTwice
  <2> QED BY <1>12, <2>2, SameTwice
<1>14. Cli(u, a, l) /\ u.rx = <<>>
  BY <1>13 DEF Same, Fields, C0, Cli
<1>15. u.th = k.th /\ u.prk = k.prk /\ u.peer = p.peer
  <2>1. Same(p, u, {"prk", "send", "recv", "sseq", "rseq", "epoch", "state", "want"})
    <3>1. Same(p, z, {"prk", "send", "recv", "sseq", "rseq", "epoch", "state", "want"})
      BY <1>7, <1>9, SameTwice
    <3> QED BY <1>12, <3>1, SameTwice
  <2>2. Same(k, u, {"send", "recv", "sseq", "rseq", "epoch", "state", "want"})
    BY <1>9, <1>12, SameTwice
  <2> QED BY <2>1, <2>2 DEF Same, Fields
<1>16. u.send = z.send /\ u.recv = z.recv /\ u.sseq = 0 /\ u.rseq = 0 /\ u.epoch = 1
  BY <1>9, <1>12 DEF Same, Fields
<1>17. y = [t |-> u, out |-> <<>>]
  BY <1>12, <1>14, PumpNothing DEF u, Cli
<1> QED BY <1>4, <1>7, <1>8, <1>9, <1>10, <1>12, <1>14, <1>15, <1>16, <1>17 DEF C1, CH1

\* What one more frame of the server's flight changes of the client's session.
LEMMA ClientOpened ==
    ASSUME NEW a, NEW b, NEW l, NEW want, NEW th, NEW n, NEW t, CH1(t, a, b, l, want, th, n),
           NEW f, NEW u, NEW X, X \subseteq {"want", "cert"}, Same(th_append(opened(t), f), u, X)
    PROVE  CH1(u, a, b, l, u.want, Append(th, f), n + 1) /\ ("cert" \notin X => u.cert = t.cert)
<1> DEFINE v == opened(t)
           w == th_append(v, f)
<1>1. Same(t, v, {"rseq"}) /\ v.rseq = n + 1
  BY OneOpened DEF CH1, Cli
<1>2. IsSession(v) /\ v.th = th
  BY <1>1 DEF Same, Fields, CH1
<1> HIDE DEF v
<1>3. Same(v, w, {"th"}) /\ w.th = Append(th, f)
  BY <1>2, Appended
<1>4. Same(w, u, X)
  BY DEF w, v
<1> HIDE DEF w
<1>5. w.rseq = v.rseq /\ u.rseq = w.rseq /\ u.th = w.th
  BY <1>3, <1>4 DEF Same, Fields
<1>6. Same(t, u, {"rseq", "th"} \cup X)
  <2>1. Same(t, w, {"rseq", "th"} \cup X)
    BY <1>1, <1>3, SameTwice
  <2> QED BY <1>4, <2>1, SameTwice
<1>7. /\ IsSession(u) /\ u.role = t.role /\ u.eph = t.eph /\ u.label = t.label /\ u.state = t.state /\ u.epoch = t.epoch
      /\ u.peer = t.peer /\ u.prk = t.prk /\ u.send = t.send /\ u.recv = t.recv /\ u.sseq = t.sseq /\ u.rx = t.rx
      /\ ("cert" \notin X => u.cert = t.cert)
  BY <1>6 DEF Same, Fields
<1> QED BY <1>1, <1>3, <1>5, <1>7 DEF CH1, Cli

\* It takes the Certificate.
LEMMA ClientCert ==
    ASSUME NEW a, NEW b, NEW l, NEW t, C1(t, a, b, l), NEW y \in Flight(btls_feed(t, CertBox(a, b)))
    PROVE  C2(y.t, a, b, l) /\ y.out = <<>>
<1> DEFINE f == FrCert
           w == th_append(opened(t), f)
           u == btls_feed(t, CertBox(a, b))
<1>1. u = [w EXCEPT !.cert = ServerKey, !.want = "CV"]
  <2>1. u = Taken(t, f)
    BY DEF btls_feed, CertBox, Box
  <2>2. f.type = "CERT" /\ f.pub = ServerKey
    BY DEF FrCert
  <2> HIDE DEF f, u
  <2>3. Taken(t, f) = [th_append(opened(t), f) EXCEPT !.cert = f.pub, !.want = "CV"]
    BY <2>2 DEF Taken
  <2> QED BY <2>1, <2>2, <2>3 DEF w
<1>2. IsSession(w)
  BY Appended, OneOpened DEF C1, CH1, Cli, Same
<1> HIDE DEF u, w
<1>3. Same(w, u, {"want", "cert"}) /\ u.want = "CV" /\ u.cert = ServerKey
  BY <1>1, <1>2 DEF Same, IsSession, Fields
<1>4. CH1(u, a, b, l, u.want, T3(a, b), 1)
  BY <1>3, ClientOpened DEF C1, T3, w
<1>5. y = [t |-> u, out |-> <<>>]
  BY <1>3, <1>4, PumpNothing DEF u, CH1, Cli
<1> QED BY <1>3, <1>4, <1>5 DEF C2

\* It takes the CertificateVerify.
LEMMA ClientVerify ==
    ASSUME NEW a, NEW b, NEW l, NEW t, C2(t, a, b, l), NEW y \in Flight(btls_feed(t, CVBox(a, b)))
    PROVE  C3(y.t, a, b, l) /\ y.out = <<>>
<1> DEFINE f == FrCV(a, b)
           w == th_append(opened(t), f)
           u == btls_feed(t, CVBox(a, b))
<1>1. u = [w EXCEPT !.want = "FIN"]
  <2>1. u = Taken(t, f)
    BY DEF btls_feed, CVBox, Box
  <2>2. f.type = "CV"
    BY DEF FrCV
  <2> HIDE DEF f, u
  <2>3. Taken(t, f) = [th_append(opened(t), f) EXCEPT !.want = "FIN"]
    BY <2>2 DEF Taken
  <2> QED BY <2>1, <2>3 DEF w
<1>2. IsSession(w)
  BY Appended, OneOpened DEF C2, CH1, Cli, Same
<1> HIDE DEF u, w
<1>3. Same(w, u, {"want"}) /\ u.want = "FIN"
  BY <1>1, <1>2 DEF Same, IsSession, Fields
<1>4. CH1(u, a, b, l, u.want, T4(a, b), 2) /\ u.cert = ServerKey
  BY <1>3, ClientOpened DEF C2, T4, w
<1>5. y = [t |-> u, out |-> <<>>]
  BY <1>3, <1>4, PumpNothing DEF u, CH1, Cli
<1> QED BY <1>3, <1>4, <1>5 DEF C3

\* It takes the server's Finished, sends its own, and is done.
LEMMA ClientFinished ==
    ASSUME NEW a, NEW b, NEW l, NEW t, C3(t, a, b, l), NEW y \in Flight(btls_feed(t, FinSBox(a, b)))
    PROVE  C4(y.t, a, b, l) /\ y.t.sseq = 0 /\ y.t.rseq = 0 /\ y.t.rx = <<>> /\ y.out = Append(<<>>, FinCBox(a, b))
<1> DEFINE f == FrFinS(a, b)
           w == th_append(opened(t), f)
           u == btls_feed(t, FinSBox(a, b))
           x == [t |-> u, out |-> <<>>]
           s == Sealed(x, FIN(u, "c"))
           z == install_epoch(s.t, 2, "app")
           p == btls_pump(x)
<1>1. u = [w EXCEPT !.want = "none"]
  <2>1. u = Taken(t, f)
    BY DEF btls_feed, FinSBox, Box
  <2>2. f.type = "FIN" /\ t.role = "client"
    BY DEF FrFinS, C3, CH1, Cli
  <2> HIDE DEF f, u
  <2>3. Taken(t, f) = [th_append(opened(t), f) EXCEPT !.want = "none"]
    BY <2>2 DEF Taken
  <2> QED BY <2>1, <2>3 DEF w
<1>2. IsSession(w)
  BY Appended, OneOpened DEF C3, CH1, Cli, Same
<1> HIDE DEF u, w
<1>3. Same(w, u, {"want"}) /\ u.want = "none"
  BY <1>1, <1>2 DEF Same, IsSession, Fields
<1>4. CH1(u, a, b, l, u.want, T5(a, b), 3) /\ u.cert = ServerKey
  BY <1>3, ClientOpened DEF C3, T5, w
<1>5. FIN(u, "c") = FrFinC(a, b)
  BY <1>4 DEF FIN, FrFinC, finished_mac, derive_key, CH1
<1>6. x.t = u /\ x.out = <<>>
  OBVIOUS
<1> HIDE DEF x
<1>7. /\ s = [t |-> s.t, out |-> s.out] /\ Same(u, s.t, {"th", "sseq"}) /\ s.t.th = T6(a, b)
      /\ s.out = Append(<<>>, FinCBox(a, b))
  BY <1>4, <1>5, <1>6, OneSealed DEF CH1, Cli, T6, FinCBox
<1>8. p = [s EXCEPT !.t = [z EXCEPT !.state = "DONE"]]
  <2>1. x.t.role = "client" /\ x.t.state = "HS" /\ x.t.want = "none"
    BY <1>3, <1>4, <1>6 DEF CH1, Cli
  <2>2. p = [Sealed(x, FIN(x.t, "c")) EXCEPT !.t = [install_epoch(Sealed(x, FIN(x.t, "c")).t, 2, "app") EXCEPT !.state = "DONE"]]
    BY <2>1, PumpLast
  <2> QED BY <1>6, <2>2
<1> HIDE DEF s
<1>9. IsSession(s.t) /\ s.t.role = "client" /\ s.t.prk = {a, b}
  BY <1>4, <1>7 DEF Same, Fields, CH1, Cli
<1>10. /\ Same(s.t, z, {"send", "recv", "sseq", "rseq", "epoch"}) /\ z.sseq = 0 /\ z.rseq = 0 /\ z.epoch = 2
       /\ z.send = derive_key(s.t, <<"app", "c2s">>) /\ z.recv = derive_key(s.t, <<"app", "s2c">>)
  BY <1>9, Installed
<1>11. derive_key(s.t, <<"app", "s2c">>) = App(a, b, "s2c") /\ derive_key(s.t, <<"app", "c2s">>) = App(a, b, "c2s")
  BY <1>7, <1>9 DEF derive_key, App
<1> HIDE DEF z, p
<1>12. p.out = s.out /\ Same(z, p.t, {"state"}) /\ p.t.state = "DONE"
  BY <1>7, <1>8, <1>10 DEF Same, IsSession, Fields
<1>13. Same(u, p.t, {"th", "send", "recv", "sseq", "rseq", "epoch", "state"})
  <2> DEFINE Z == {"th", "send", "recv", "sseq", "rseq", "epoch", "state"}
  <2>1. Same(u, z, Z)
    BY <1>7, <1>10, SameTwice
  <2> QED BY <1>12, <2>1, SameTwice
<1>14. Cli(p.t, a, l) /\ p.t.want = "none" /\ p.t.peer = b /\ p.t.cert = ServerKey /\ p.t.rx = <<>>
  BY <1>3, <1>4, <1>13 DEF Same, Fields, CH1, Cli
<1>15. Same(s.t, p.t, {"send", "recv", "sseq", "rseq", "epoch", "state"})
  BY <1>10, <1>12, SameTwice
<1>16. p.t.th = s.t.th /\ p.t.send = z.send /\ p.t.recv = z.recv /\ p.t.sseq = 0 /\ p.t.rseq = 0 /\ p.t.epoch = 2
  BY <1>10, <1>12, <1>15 DEF Same, Fields
<1>17. y = p
  <2>1. y = btls_pump(btls_pump(btls_pump(btls_pump(x))))
    BY FourPumps DEF u, x, PumpedFour
  <2>2. btls_pump(p) = p
    BY <1>12, PumpStill
  <2> QED BY <2>1, <2>2 DEF p
<1> QED BY <1>7, <1>10, <1>11, <1>12, <1>14, <1>16, <1>17 DEF C4

In(q) == {q[i] : i \in DOMAIN q}
IsSeq(q) == q \in Seq(In(q))

\* btls_send_app seals the parts of a message, one counter each.
LEMMA SendsParts ==
    ASSUME NEW t, IsSession(t), t.sseq \in Nat, NEW m, m.size \in Nat
    PROVE  LET y == btls_send_app(t, m) IN
           /\ Same(t, y.t, {"sseq"}) /\ y.t.sseq = t.sseq + m.size
           /\ IsSeq(y.out) /\ Len(y.out) = m.size
           /\ \A i \in 1 .. m.size : y.out[i] = Box(t.send, t.sseq + i - 1, Part(m, i))
<1> DEFINE out == [i \in 1 .. m.size |-> seal_box([t EXCEPT !.sseq = @ + i - 1], Part(m, i))]
           y == btls_send_app(t, m)
<1>1. y.t = [t EXCEPT !.sseq = @ + m.size] /\ y.out = out
  BY DEF btls_send_app
<1>2. ASSUME NEW i \in 1 .. m.size
      PROVE  seal_box([t EXCEPT !.sseq = @ + i - 1], Part(m, i)) = Box(t.send, t.sseq + i - 1, Part(m, i))
  BY DEF seal_box, Box, IsSession, Fields
<1>3. out = [i \in 1 .. m.size |-> Box(t.send, t.sseq + i - 1, Part(m, i))]
  BY <1>2
<1>4. Same(t, y.t, {"sseq"}) /\ y.t.sseq = t.sseq + m.size
  BY <1>1 DEF Same, IsSession, Fields
<1> HIDE DEF out, y
<1>5. /\ IsSeq(out) /\ Len(out) = m.size
      /\ \A i \in 1 .. m.size : out[i] = Box(t.send, t.sseq + i - 1, Part(m, i))
  <2> DEFINE e(i) == Box(t.send, t.sseq + i - 1, Part(m, i))
             n == m.size
             S == {e(i) : i \in 1 .. n}
  <2>1. out = [i \in 1 .. n |-> e(i)] /\ \A i \in 1 .. n : e(i) \in S
    BY <1>3
  <2> HIDE DEF e, S, n
  <2>2. out \in [1 .. n -> S] /\ \A i \in 1 .. n : out[i] = e(i)
    BY <2>1
  <2>3. n \in Nat
    BY DEF n
  <2>4. out \in Seq(S) /\ Len(out) = n
    BY <2>2, <2>3
  <2>5. out \in Seq(In(out))
    BY <2>4 DEF In
  <2> QED BY <2>2, <2>4, <2>5 DEF IsSeq, e, n
<1> QED BY <1>1, <1>4, <1>5 DEF y

\* btls_recv_app keeps a part until the last one.
LEMMA TakesPart ==
    ASSUME NEW t, IsSession(t), t.epoch = 2, NEW r
    PROVE  LET u == btls_recv_app(t, r) IN
           /\ Same(t, u, {"rseq", "rx"}) /\ u.rseq = t.rseq + 1
           /\ u.rx = (IF r.inner.more THEN Append(t.rx, r.inner) ELSE <<>>)
<1> DEFINE v == opened(t)
           u == btls_recv_app(t, r)
<1>1. Same(t, v, {"rseq"}) /\ v.rseq = t.rseq + 1
  BY OneOpened
<1>2. u = [v EXCEPT !.rx = IF r.inner.more THEN Append(v.rx, r.inner) ELSE <<>>] /\ v.rx = t.rx
  BY <1>1 DEF btls_recv_app, Same, Fields
<1> HIDE DEF u, v
<1>3. Same(v, u, {"rx"}) /\ u.rx = (IF r.inner.more THEN Append(t.rx, r.inner) ELSE <<>>)
  BY <1>1, <1>2 DEF Same, IsSession, Fields
<1>4. u.rseq = v.rseq
  BY <1>3 DEF Same, Fields
<1> QED BY <1>1, <1>3, <1>4, SameTwice DEF u

-----------------------------------------------------------------------------
(* Sequences of records.                                                     *)


\* A sequence behind another one.
LEMMA Joined ==
    ASSUME NEW q, NEW p, IsSeq(q), IsSeq(p)
    PROVE  IsSeq(q \o p) /\ In(q \o p) = In(q) \cup In(p) /\ Len(q \o p) = Len(q) + Len(p)
<1> DEFINE S == In(q) \cup In(p)
<1>1. q \in Seq(S) /\ p \in Seq(S)
  BY DEF IsSeq, In
<1> DEFINE z == q \o p
<1>2. /\ z \in Seq(S) /\ Len(z) = Len(q) + Len(p) /\ DOMAIN z = 1 .. Len(q) + Len(p) /\ DOMAIN q = 1 .. Len(q) /\ DOMAIN p = 1 .. Len(p)
      /\ \A i \in 1 .. Len(q) + Len(p) : z[i] = IF i <= Len(q) THEN q[i] ELSE p[i - Len(q)]
      /\ Len(q) \in Nat /\ Len(p) \in Nat
  BY <1>1
<1> HIDE DEF z
<1>3. In(z) = S
  <2>1. ASSUME NEW x \in In(z) PROVE x \in S
    BY <1>2, <2>1 DEF In
  <2>2. ASSUME NEW i \in DOMAIN q PROVE q[i] \in In(z)
    BY <1>2, <2>2 DEF In
  <2>3. ASSUME NEW i \in DOMAIN p PROVE p[i] \in In(z)
    <3>1. i + Len(q) \in DOMAIN z /\ z[i + Len(q)] = p[i]
      BY <1>2, <2>3
    <3> QED BY <3>1 DEF In
  <2> QED BY <2>1, <2>2, <2>3 DEF In
<1> QED BY <1>2, <1>3 DEF z, IsSeq

\* A sequence with one more record.
LEMMA OneMore ==
    ASSUME NEW q, NEW x, IsSeq(q)
    PROVE  IsSeq(Append(q, x)) /\ In(Append(q, x)) = In(q) \cup {x} /\ Len(Append(q, x)) = Len(q) + 1
<1> DEFINE S == In(q) \cup {x}
           z == Append(q, x)
<1>1. q \in Seq(S) /\ x \in S
  BY DEF IsSeq, In
<1>2. /\ z \in Seq(S) /\ Len(z) = Len(q) + 1 /\ DOMAIN z = 1 .. Len(q) + 1 /\ DOMAIN q = 1 .. Len(q) /\ Len(q) \in Nat
      /\ \A i \in 1 .. Len(q) : z[i] = q[i]
      /\ z[Len(q) + 1] = x
  BY <1>1
<1> HIDE DEF z
<1>3. In(z) = S
  <2>1. ASSUME NEW i \in DOMAIN z PROVE z[i] \in S
    BY <1>2, <2>1 DEF In
  <2>2. ASSUME NEW i \in DOMAIN q PROVE q[i] \in In(z)
    BY <1>2, <2>2 DEF In
  <2>3. x \in In(z)
    BY <1>2 DEF In
  <2> QED BY <2>1, <2>2, <2>3 DEF In
<1> QED BY <1>2, <1>3 DEF z, IsSeq

\* A sequence without its head.
LEMMA HeadGone ==
    ASSUME NEW q, IsSeq(q), q # <<>>
    PROVE  IsSeq(Tail(q)) /\ In(Tail(q)) \subseteq In(q) /\ Len(Tail(q)) = Len(q) - 1 /\ Head(q) \in In(q) /\ Len(q) \in Nat
<1> DEFINE S == In(q)
           z == Tail(q)
<1>1. q \in Seq(S) /\ Len(q) \in Nat /\ DOMAIN q = 1 .. Len(q) /\ Len(q) # 0
  BY DEF IsSeq
<1>2. /\ z \in Seq(S) /\ Len(z) = Len(q) - 1 /\ DOMAIN z = 1 .. Len(q) - 1
      /\ \A i \in 1 .. Len(q) - 1 : z[i] = q[i + 1]
  BY <1>1
<1>3. Head(q) = q[1]
  BY <1>1
<1> HIDE DEF z
<1>4. z \in Seq(In(z))
  BY <1>2 DEF In
<1>5. In(z) \subseteq In(q) /\ Head(q) \in In(q)
  BY <1>1, <1>2, <1>3 DEF In
<1> QED BY <1>1, <1>2, <1>4, <1>5 DEF z, IsSeq

\* The first n of a sequence.
LEMMA Prefix ==
    ASSUME NEW q, IsSeq(q), NEW n \in 0 .. Len(q)
    PROVE  /\ IsSeq(SubSeq(q, 1, n)) /\ Len(SubSeq(q, 1, n)) = n /\ In(SubSeq(q, 1, n)) \subseteq In(q)
           /\ DOMAIN SubSeq(q, 1, n) = 1 .. n /\ DOMAIN q = 1 .. Len(q) /\ Len(q) \in Nat
           /\ \A i \in 1 .. n : SubSeq(q, 1, n)[i] = q[i]
<1> DEFINE S == In(q)
           z == SubSeq(q, 1, n)
<1>1. q \in Seq(S) /\ Len(q) \in Nat /\ DOMAIN q = 1 .. Len(q)
  BY DEF IsSeq
<1>2. z \in Seq(S) /\ Len(z) = n /\ DOMAIN z = 1 .. n /\ \A i \in 1 .. n : z[i] = q[i]
  BY <1>1
<1> HIDE DEF z
<1>3. z \in Seq(In(z))
  BY <1>2 DEF In
<1> QED BY <1>1, <1>2, <1>3 DEF z, IsSeq, In

\* The empty sequence.
LEMMA NoRecords == IsSeq(<<>>) /\ In(<<>>) = {} /\ Len(<<>>) = 0
BY DEF IsSeq, In

\* The whole of a message is its first parts.
FirstParts(m, k) == [i \in 1 .. k |-> Part(m, i)]

\* One more part.
LEMMA NextPart ==
    ASSUME NEW m, m.size \in Nat, NEW k \in Nat
    PROVE  /\ Append(FirstParts(m, k), Part(m, k + 1)) = FirstParts(m, k + 1) /\ FirstParts(m, m.size) = Parts(m)
           /\ FirstParts(m, 0) = <<>> /\ (k < m.size => Part(m, k + 1).more = (k + 1 < m.size))
           /\ Part(m, k + 1).msg = m /\ Part(m, k + 1).type = "APP"
<1>1. Append(FirstParts(m, k), Part(m, k + 1)) = FirstParts(m, k + 1)
  <2> DEFINE S == {Part(m, i) : i \in 1 .. k + 1}
             f == FirstParts(m, k)
             g == FirstParts(m, k + 1)
             z == Append(f, Part(m, k + 1))
  <2>1. f \in Seq(S) /\ Len(f) = k /\ g \in Seq(S) /\ Len(g) = k + 1 /\ Part(m, k + 1) \in S
    BY DEF FirstParts
  <2>2. /\ \A i \in 1 .. k : f[i] = Part(m, i)
        /\ \A i \in 1 .. k + 1 : g[i] = Part(m, i)
    BY DEF FirstParts
  <2> HIDE DEF f, g, S
  <2>3. z \in Seq(S) /\ Len(z) = k + 1 /\ \A i \in 1 .. k + 1 : z[i] = Part(m, i)
    BY <2>1, <2>2
  <2> HIDE DEF z
  <2>4. z = g
    BY <2>1, <2>2, <2>3
  <2> QED BY <2>4 DEF z, f, g
<1>2. FirstParts(m, m.size) = Parts(m) /\ FirstParts(m, 0) = <<>>
  BY DEF FirstParts, Parts
<1>3. (k < m.size => Part(m, k + 1).more = (k + 1 < m.size)) /\ Part(m, k + 1).msg = m /\ Part(m, k + 1).type = "APP"
  BY DEF Part
<1> QED BY <1>1, <1>2, <1>3

\* One more part of the parts so far.
LEMMA AddPart ==
    ASSUME NEW m, m.size \in Nat, NEW k \in Nat
    PROVE  Append(FirstParts(m, k), Part(m, k + 1)) = FirstParts(m, k + 1)
BY NextPart

\* All of the parts are the message.
LEMMA AllParts == \A m : FirstParts(m, m.size) = Parts(m)
BY DEF FirstParts, Parts

-----------------------------------------------------------------------------
(* The invariant.                                                            *)

Now(c) == <<c, runs[c]>>
Running(c) == cst[c] = "run"
Linked(c) == srv = "serving" /\ sa = c /\ Running(c)
Calm == happened \cap {"lost", "send"} = {}
Answer(c) == Reply(Parts(req[c]))

\* An ephemeral that a fetch has made: not that of a fetch which has yet to start.
Past(a) == a \in ClientEph /\ a[2] <= runs[a[1]] /\ (cst[a[1]] \in {"dial", "start"} => a[2] < runs[a[1]])

\* A record on its way to the server is of client c: of its present fetch, if it is at one.
UpHello(c, r) == \E n \in Nat : r = Plain(FrCH(<<c, n>>)) /\ Past(<<c, n>>) /\ (Running(c) => n = runs[c])
UpFin(c, r) ==
    \E n \in Nat, b \in ServerEph :
        r = FinCBox(<<c, n>>, b) /\ (Running(c) => n = runs[c] /\ ct[c].state = "DONE")
UpApp(c, r) ==
    \E n \in Nat, b \in ServerEph, s \in Nat :
        /\ r.rt = "APPLICATION" /\ r.key = App(<<c, n>>, b, "c2s") /\ r.seq = s
        /\ Running(c) => n = runs[c] /\ s < req[c].size /\ r.inner = Part(req[c], s + 1)
UpRec(c, r) == r \in {Blank, SHUTDOWN} \/ UpHello(c, r) \/ UpFin(c, r) \/ UpApp(c, r)

\* A record on its way to client c: what is under the keys of its present fetch is the answer
\* to its request.
DownHello(c, r) == \E b \in ServerEph : r = Plain(FrSH(b)) /\ (Linked(c) => b = st.eph /\ st.peer = Now(c))
DownHs(c, r) == \E a \in ClientEph, b \in ServerEph : r \in {CertBox(a, b), CVBox(a, b), FinSBox(a, b)}
DownApp(c, r) ==
    \E a \in ClientEph, b \in ServerEph, s \in Nat :
        /\ r.rt = "APPLICATION" /\ r.key = App(a, b, "s2c") /\ r.seq = s
        /\ Running(c) /\ a = Now(c) => s < Answer(c).size /\ r.inner = Part(Answer(c), s + 1)
DownRec(c, r) == r \in {Blank, SHUTDOWN} \/ DownHello(c, r) \/ DownHs(c, r) \/ DownApp(c, r)

\* The client's session: where it is in the handshake with some session of the server.
CliAt(c, t) ==
    \/ C0(t, Now(c), conf.label[c])
    \/ \E b \in ServerEph :
          \/ C1(t, Now(c), b, conf.label[c])
          \/ Fits(c) /\ (C2(t, Now(c), b, conf.label[c]) \/ C3(t, Now(c), b, conf.label[c]))
          \/ /\ Fits(c) /\ C4(t, Now(c), b, conf.label[c])
             /\ t.sseq = req[c].size /\ t.rx = FirstParts(Answer(c), t.rseq)
Shape(c) == IF Running(c) THEN CliAt(c, ct[c]) ELSE ct[c].state # "DONE"

Queue(c) ==
    /\ IsSeq(toSrv[c]) /\ \A r \in In(toSrv[c]) : UpRec(c, r)
    /\ IsSeq(toCli[c]) /\ \A r \in In(toCli[c]) : DownRec(c, r)
    /\ cst[c] = "start" => toSrv[c] = <<>> /\ toCli[c] = <<>>

\* The two ends of an association.
Link(c) ==
    Linked(c) =>
        /\ ct[c].state # "CH_SENT" => ct[c].peer = st.eph /\ st.peer = Now(c)
        /\ st.peer = Now(c) /\ st.state = "DONE" =>
              /\ ct[c].state = "DONE"
              /\ \/ st.rx = FirstParts(req[c], st.rseq) /\ st.rseq < req[c].size /\ st.sseq = 0
                 \/ st.rx = <<>> /\ st.rseq = req[c].size

\* While nothing is lost and no send fails: what is sealed and not opened is on its way.
Ahead(t) == CASE t.want = "SH" -> 4 [] t.want = "CERT" -> 3 [] t.want = "CV" -> 2 [] t.want = "FIN" -> 1 [] OTHER -> 0
Count(c) ==
    Calm /\ Linked(c) =>
        /\ SHUTDOWN \notin In(toSrv[c]) \cup In(toCli[c])
        /\ st.state = "INIT" => Len(toSrv[c]) = 1 /\ Len(toCli[c]) = 0
        /\ st.peer = Now(c) /\ st.state = "WAIT_FIN" =>
              /\ Len(toSrv[c]) = IF ct[c].state = "DONE" THEN 1 + ct[c].sseq ELSE 0
              /\ Len(toCli[c]) = Ahead(ct[c])
              /\ ct[c].state = "DONE" => ct[c].rseq = 0
        /\ st.peer = Now(c) /\ st.state = "DONE" =>
              st.rseq + Len(toSrv[c]) = ct[c].sseq /\ ct[c].rseq + Len(toCli[c]) = st.sseq

Got(c) == cst[c] = "got" => result[c] = Answer(c)

ClientInv(c) == Shape(c) /\ Queue(c) /\ Link(c) /\ Count(c) /\ Got(c)

\* The server's session.
ServerInv ==
    /\ \E b \in ServerEph :
          \/ S0(st, b)
          \/ \E a \in ClientEph : Past(a) /\ (S1(st, a, b) \/ S2(st, a, b))
    /\ srv = "accept" => S0(st, <<NoClient, associations + 1>>)
    /\ srv = "serving" => sa \in Client /\ st.eph[2] <= associations

\* What has been sealed with, by the server and by the clients.
SrvHsBox(x) ==
    \E a \in ClientEph, b \in ServerEph, s \in Nat :
        x = <<Hs(a, b, "s2c"), s>> /\ b[2] <= associations /\ (b = st.eph => st.state # "INIT")
SrvAppBox(x) ==
    \E a \in ClientEph, b \in ServerEph, s \in Nat :
        x = <<App(a, b, "s2c"), s>> /\ b[2] <= associations /\ (b = st.eph => st.state = "DONE" /\ s < st.sseq)
CliBox(x) ==
    \E a \in ClientEph, b \in ServerEph, s \in Nat :
        /\ x \in {<<Hs(a, b, "c2s"), s>>, <<App(a, b, "c2s"), s>>} /\ Past(a)
        /\ Running(a[1]) /\ a = Now(a[1]) => ct[a[1]].state = "DONE"
BoxInv ==
    /\ IsFiniteSet(boxes) /\ Cardinality(boxes) = seals
    /\ \A x \in boxes : SrvHsBox(x) \/ SrvAppBox(x) \/ CliBox(x)

Types ==
    /\ conf \in Conf /\ runs \in [Client -> Nat] /\ associations \in Nat /\ srv \in {"accept", "serving", "down"}
    /\ DOMAIN cst = Client /\ DOMAIN ct = Client /\ DOMAIN req = Client /\ DOMAIN result = Client
    /\ DOMAIN toSrv = Client /\ DOMAIN toCli = Client
    /\ \A c \in Client : req[c].size \in Nat
    /\ Calm => stalled = {}

IndInv == Types /\ ServerInv /\ (\A c \in Client : ClientInv(c)) /\ BoxInv

-----------------------------------------------------------------------------
(* Who can have sent a record that opens.                                    *)

\* The record types.
LEMMA Kinds ==
    ASSUME NEW c, NEW r
    PROVE  /\ r = Blank => r.rt = "BLANK"
           /\ r = SHUTDOWN => r.rt = "SHUTDOWN"
           /\ UpHello(c, r) \/ DownHello(c, r) => r.rt = "HANDSHAKE"
           /\ UpFin(c, r) \/ UpApp(c, r) \/ DownHs(c, r) \/ DownApp(c, r) => r.rt = "APPLICATION"
<1>1. (r = Blank => r.rt = "BLANK") /\ (r = SHUTDOWN => r.rt = "SHUTDOWN")
  BY DEF Blank, SHUTDOWN
<1>2. \A f : Plain(f).rt = "HANDSHAKE"
  BY DEF Plain
<1>3. \A k, n, f : Box(k, n, f).rt = "APPLICATION"
  BY DEF Box
<1>4. UpHello(c, r) \/ DownHello(c, r) => r.rt = "HANDSHAKE"
  BY <1>2 DEF UpHello, DownHello
<1>5. UpFin(c, r) \/ UpApp(c, r) => r.rt = "APPLICATION"
  BY <1>3 DEF UpFin, UpApp, FinCBox
<1>6. DownHs(c, r) \/ DownApp(c, r) => r.rt = "APPLICATION"
  BY <1>3 DEF DownHs, DownApp, CertBox, CVBox, FinSBox
<1> QED BY <1>1, <1>4, <1>5, <1>6

\* A server that waits for a ClientHello gets one that a fetch has sent.
LEMMA OpensHello ==
    ASSUME NEW t, NEW b, S0(t, b), NEW c \in Client, NEW r, UpRec(c, r), btls_feed_ok(t, r)
    PROVE  UpHello(c, r)
<1>1. r.rt = "HANDSHAKE"
  BY DEF btls_feed_ok, readable, S0
<1> QED BY <1>1, Kinds DEF UpRec

\* One that waits for the Finished gets that of the client it shares the key with.
LEMMA OpensFinished ==
    ASSUME NEW a \in ClientEph, NEW b \in ServerEph, NEW t, S1(t, a, b), NEW c \in Client, NEW r, UpRec(c, r),
           btls_feed_ok(t, r)
    PROVE  r = FinCBox(a, b) /\ (Running(c) => a = Now(c) /\ ct[c].state = "DONE")
<1>1. r.rt = "APPLICATION" /\ r.key = Hs(a, b, "c2s")
  BY DEF btls_feed_ok, readable, opens, S1, SH1
<1>2. CASE UpFin(c, r)
  <2>1. PICK n \in Nat, y \in ServerEph : r = FinCBox(<<c, n>>, y) /\ (Running(c) => n = runs[c] /\ ct[c].state = "DONE")
    BY <1>2 DEF UpFin
  <2>2. <<c, n>> \in ClientEph
    BY DEF ClientEph
  <2>3. Hs(<<c, n>>, y, "c2s") = Hs(a, b, "c2s")
    BY <1>1, <2>1 DEF FinCBox, Box
  <2>4. <<c, n>> = a /\ y = b
    BY <2>2, <2>3, KeysDiffer
  <2> QED BY <2>1, <2>4 DEF Now
<1>3. CASE UpApp(c, r)
  <2>1. PICK n \in Nat, y \in ServerEph : r.key = App(<<c, n>>, y, "c2s")
    BY <1>3 DEF UpApp
  <2>2. <<c, n>> \in ClientEph
    BY DEF ClientEph
  <2> QED BY <1>1, <2>1, <2>2, KeysDiffer
<1> QED BY <1>1, <1>2, <1>3, Kinds DEF UpRec

\* And then the parts of that client's request, in order.
LEMMA OpensRequest ==
    ASSUME NEW a \in ClientEph, NEW b \in ServerEph, NEW t, S2(t, a, b), NEW c \in Client, NEW r, UpRec(c, r),
           btls_recv_app_ok(t, r)
    PROVE  Running(c) => a = Now(c) /\ t.rseq < req[c].size /\ r.inner = Part(req[c], t.rseq + 1)
<1>1. r.rt = "APPLICATION" /\ r.key = App(a, b, "c2s") /\ r.seq = t.rseq
  BY DEF btls_recv_app_ok, opens, S2
<1>2. CASE UpFin(c, r)
  <2>1. PICK n \in Nat, y \in ServerEph : r = FinCBox(<<c, n>>, y)
    BY <1>2 DEF UpFin
  <2>2. <<c, n>> \in ClientEph
    BY DEF ClientEph
  <2>3. Hs(<<c, n>>, y, "c2s") = App(a, b, "c2s")
    BY <1>1, <2>1 DEF FinCBox, Box
  <2> QED BY <2>2, <2>3, KeysDiffer
<1>3. CASE UpApp(c, r)
  <2>1. PICK n \in Nat, y \in ServerEph, s \in Nat :
           /\ r.key = App(<<c, n>>, y, "c2s") /\ r.seq = s
           /\ Running(c) => n = runs[c] /\ s < req[c].size /\ r.inner = Part(req[c], s + 1)
    BY <1>3 DEF UpApp
  <2>2. <<c, n>> \in ClientEph
    BY DEF ClientEph
  <2>3. <<c, n>> = a
    BY <1>1, <2>1, <2>2, KeysDiffer
  <2> QED BY <1>1, <2>1, <2>3 DEF Now
<1> QED BY <1>1, <1>2, <1>3, Kinds DEF UpRec

\* A client takes its keys from the server whose hello it got; while the association stands
\* that is the server's present session.
LEMMA OpensAnswer ==
    ASSUME NEW t, NEW a, NEW l, C0(t, a, l), NEW c \in Client, NEW r, DownRec(c, r), btls_feed_ok(t, r)
    PROVE  DownHello(c, r)
<1>1. r.rt = "HANDSHAKE"
  BY DEF btls_feed_ok, readable, C0
<1> QED BY <1>1, Kinds DEF DownRec

\* In the server's flight it takes the records of its own handshake; the name it dialed, if
\* any, is that of the certificate's key.
LEMMA OpensFlight ==
    ASSUME NEW c \in Client, NEW a \in ClientEph, NEW b \in ServerEph, NEW t, NEW want, NEW th, NEW n,
           CH1(t, a, b, conf.label[c], want, th, n), NEW r, DownRec(c, r), btls_feed_ok(t, r)
    PROVE  /\ r \in {CertBox(a, b), CVBox(a, b), FinSBox(a, b)} /\ r.inner.type = want
           /\ want = "CERT" => Fits(c)
<1>1. r.rt = "APPLICATION" /\ r.key = Hs(a, b, "s2c")
  BY DEF btls_feed_ok, readable, opens, CH1
<1>2. r.inner.type = want /\ (r.inner.type = "CERT" => name_matches(t, r.inner.pub))
  BY DEF btls_feed_ok, accepts, CH1, Cli
<1>3. CASE DownHs(c, r)
  <2>1. PICK x \in ClientEph, y \in ServerEph : r \in {CertBox(x, y), CVBox(x, y), FinSBox(x, y)}
    BY <1>3 DEF DownHs
  <2>2. Hs(x, y, "s2c") = Hs(a, b, "s2c")
    BY <1>1, <2>1 DEF CertBox, CVBox, FinSBox, Box
  <2>3. x = a /\ y = b
    BY <2>2, KeysDiffer
  <2>4. ASSUME want = "CERT" PROVE r.inner.pub = ServerKey
    <3>1. r.inner \in {FrCert, FrCV(x, y), FrFinS(x, y)}
      BY <2>1 DEF CertBox, CVBox, FinSBox, Box
    <3> QED BY <1>2, <2>4, <3>1 DEF FrCert, FrCV, FrFinS
  <2> QED BY <1>2, <2>1, <2>3, <2>4 DEF name_matches, Fits, CH1, Cli
<1>4. CASE DownApp(c, r)
  <2>1. PICK x \in ClientEph, y \in ServerEph : r.key = App(x, y, "s2c")
    BY <1>4 DEF DownApp
  <2> QED BY <1>1, <2>1, KeysDiffer
<1> QED BY <1>1, <1>3, <1>4, Kinds DEF DownRec

\* And then the parts of the answer to its request, in order.
LEMMA OpensResponse ==
    ASSUME NEW c \in Client, Running(c), runs[c] \in Nat, NEW b \in ServerEph, NEW t, C4(t, Now(c), b, conf.label[c]),
           NEW r, DownRec(c, r), btls_recv_app_ok(t, r)
    PROVE  t.rseq < Answer(c).size /\ r.inner = Part(Answer(c), t.rseq + 1)
<1>1. r.rt = "APPLICATION" /\ r.key = App(Now(c), b, "s2c") /\ r.seq = t.rseq /\ Now(c) \in ClientEph
  BY DEF btls_recv_app_ok, opens, C4, Now, ClientEph
<1>2. CASE DownHs(c, r)
  <2>1. PICK x \in ClientEph, y \in ServerEph : r \in {CertBox(x, y), CVBox(x, y), FinSBox(x, y)}
    BY <1>2 DEF DownHs
  <2>2. Hs(x, y, "s2c") = App(Now(c), b, "s2c")
    BY <1>1, <2>1 DEF CertBox, CVBox, FinSBox, Box
  <2> QED BY <1>1, <2>2, KeysDiffer
<1>3. CASE DownApp(c, r)
  <2>1. PICK x \in ClientEph, y \in ServerEph, s \in Nat :
           /\ r.key = App(x, y, "s2c") /\ r.seq = s
           /\ Running(c) /\ x = Now(c) => s < Answer(c).size /\ r.inner = Part(Answer(c), s + 1)
    BY <1>3 DEF DownApp
  <2>2. x = Now(c)
    BY <1>1, <2>1, KeysDiffer
  <2> QED BY <1>1, <2>1, <2>2
<1> QED BY <1>1, <1>2, <1>3, Kinds DEF DownRec

-----------------------------------------------------------------------------
(* What a step keeps.                                                        *)

\* Every step is of one client, the others are left alone.
Untouched(d) ==
    /\ ct'[d] = ct[d] /\ cst'[d] = cst[d] /\ req'[d] = req[d] /\ runs'[d] = runs[d] /\ result'[d] = result[d]
    /\ toSrv'[d] = toSrv[d] /\ toCli'[d] = toCli[d]

\* No fetch becomes one that has yet to start.
Older(d) ==
    \/ runs'[d] = runs[d] /\ (cst'[d] \in {"dial", "start"} => cst[d] \in {"dial", "start"})
    \/ runs'[d] = runs[d] + 1

\* A fetch that goes on is the same, and what it has finished stays so.
GoesOn(d) ==
    Running(d)' => Running(d) /\ runs'[d] = runs[d] /\ req'[d] = req[d] /\ (ct[d].state = "DONE" => ct'[d].state = "DONE")

\* The association of a client that is linked stands, with the server's session on its way.
StandsFor(d) ==
    Linked(d)' => Linked(d) /\ st'.eph = st.eph /\ (st.peer = Now(d) => st'.peer = Now(d))

\* What a fetch has made stays.
LEMMA PastStays ==
    ASSUME Types, NEW a, Past(a), Older(a[1])
    PROVE  Past(a)'
<1>1. a[1] \in Client /\ a[2] \in Nat /\ runs[a[1]] \in Nat
  BY EphsDiffer DEF Past, Types
<1> QED BY <1>1 DEF Past, Older

\* A request keeps its answer.
LEMMA SameAnswer ==
    ASSUME NEW c, conf' = conf, req'[c] = req[c]
    PROVE  Answer(c)' = Answer(c)
BY DEF Answer, Reply, serve, Document

\* A record on its way to the server stays what it is.
LEMMA UpStays ==
    ASSUME Types, NEW c \in Client, Older(c), GoesOn(c), NEW r, UpRec(c, r)
    PROVE  UpRec(c, r)'
<1>1. CASE UpHello(c, r)
  <2>1. PICK n \in Nat : r = Plain(FrCH(<<c, n>>)) /\ Past(<<c, n>>) /\ (Running(c) => n = runs[c])
    BY <1>1 DEF UpHello
  <2>2. Past(<<c, n>>)'
    BY <2>1, PastStays
  <2> QED BY <2>1, <2>2 DEF GoesOn, UpRec, UpHello
<1>2. CASE UpFin(c, r)
  BY <1>2 DEF GoesOn, UpRec, UpFin
<1>3. CASE UpApp(c, r)
  <2>1. PICK n \in Nat, b \in ServerEph, s \in Nat :
           /\ r.rt = "APPLICATION" /\ r.key = App(<<c, n>>, b, "c2s") /\ r.seq = s
           /\ Running(c) => n = runs[c] /\ s < req[c].size /\ r.inner = Part(req[c], s + 1)
    BY <1>3 DEF UpApp
  <2>2. Running(c)' => n = runs'[c] /\ s < req'[c].size /\ r.inner = Part(req'[c], s + 1)
    BY <2>1 DEF GoesOn
  <2> QED BY <2>1, <2>2 DEF UpRec, UpApp
<1> QED BY <1>1, <1>2, <1>3 DEF UpRec

\* So does one on its way to a client.
LEMMA DownStays ==
    ASSUME NEW c \in Client, conf' = conf, GoesOn(c), StandsFor(c), NEW r, DownRec(c, r)
    PROVE  DownRec(c, r)'
<1>1. CASE DownHello(c, r)
  <2>1. PICK b \in ServerEph : r = Plain(FrSH(b)) /\ (Linked(c) => b = st.eph /\ st.peer = Now(c))
    BY <1>1 DEF DownHello
  <2>2. Linked(c)' => b = st'.eph /\ st'.peer = Now(c)'
    BY <2>1 DEF GoesOn, StandsFor, Now, Linked
  <2> QED BY <2>1, <2>2 DEF DownRec, DownHello
<1>2. CASE DownHs(c, r)
  BY <1>2 DEF DownRec, DownHs
<1>3. CASE DownApp(c, r)
  <2>1. PICK a \in ClientEph, b \in ServerEph, s \in Nat :
           /\ r.rt = "APPLICATION" /\ r.key = App(a, b, "s2c") /\ r.seq = s
           /\ Running(c) /\ a = Now(c) => s < Answer(c).size /\ r.inner = Part(Answer(c), s + 1)
    BY <1>3 DEF DownApp
  <2>2. Running(c)' /\ a = Now(c)' => s < Answer(c)'.size /\ r.inner = Part(Answer(c)', s + 1)
    BY <2>1, SameAnswer DEF GoesOn, Now
  <2> QED BY <2>1, <2>2 DEF DownRec, DownApp
<1> QED BY <1>1, <1>2, <1>3 DEF DownRec

\* What holds of a client holds after the steps of others.
LEMMA Others ==
    ASSUME Types, NEW d \in Client, ClientInv(d), Untouched(d), conf' = conf, happened \subseteq happened',
           Linked(d)' => Linked(d) /\ st' = st
    PROVE  ClientInv(d)'
<1>1. Older(d) /\ GoesOn(d) /\ StandsFor(d) /\ Now(d)' = Now(d)
  BY DEF Untouched, Older, GoesOn, StandsFor, Running, Linked, Now
<1>2. Answer(d)' = Answer(d) /\ (Fits(d)' <=> Fits(d))
  BY SameAnswer DEF Untouched, Fits
<1>3. Shape(d)'
  BY <1>1, <1>2 DEF ClientInv, Shape, CliAt, Untouched, Running
<1>4. Queue(d)'
  BY <1>1, UpStays, DownStays DEF ClientInv, Queue, Untouched
<1>5. Link(d)'
  BY <1>1 DEF ClientInv, Link, Untouched
<1>6. Calm' => Calm
  BY DEF Calm
<1>7. Count(d)'
  BY <1>1, <1>6 DEF ClientInv, Count, Untouched
<1>8. Got(d)'
  BY <1>2 DEF ClientInv, Got, Untouched
<1> QED BY <1>3, <1>4, <1>5, <1>7, <1>8 DEF ClientInv

-----------------------------------------------------------------------------
(* Keys and counters.                                                        *)

Sealer(r) == <<r.key, r.seq>>
Fresh(out) ==
    \A i \in SealedRecs(out) :
        Sealer(out[i]) \notin boxes /\ \A j \in SealedRecs(out) : Sealer(out[i]) = Sealer(out[j]) => i = j

\* What is sealed with keys and counters that are new and differ is counted right.
LEMMA Sealing ==
    ASSUME IsFiniteSet(boxes), Cardinality(boxes) = seals, NEW out, IsSeq(out), Fresh(out), Seals(out)
    PROVE  /\ IsFiniteSet(boxes') /\ Cardinality(boxes') = seals'
           /\ \A x \in boxes' : x \in boxes \/ \E i \in SealedRecs(out) : x = Sealer(out[i])
<1> DEFINE I == SealedRecs(out)
           N == {Sealer(out[i]) : i \in I}
           f == [i \in I |-> Sealer(out[i])]
<1>1. IsFiniteSet(I)
  <2>1. Len(out) \in Nat /\ DOMAIN out = 1 .. Len(out)
    BY DEF IsSeq
  <2>2. IsFiniteSet(1 .. Len(out)) /\ I \subseteq 1 .. Len(out)
    BY <2>1, FS_Interval DEF SealedRecs
  <2> QED BY <2>2, FS_Subset
<1>2. f \in Bijection(I, N)
  <2>1. \A i, j \in I : f[i] = f[j] => i = j
    BY DEF Fresh
  <2>2. f \in [I -> N] /\ \A x \in N : \E i \in I : f[i] = x
    OBVIOUS
  <2> HIDE DEF f, N, I
  <2> QED BY <2>1, <2>2 DEF Bijection, Injection, Surjection, IsInjective
<1>3. IsFiniteSet(N) /\ Cardinality(N) = Cardinality(I)
  BY <1>1, <1>2, FS_Bijection DEF ExistsBijection
<1>4. boxes' = boxes \cup N /\ seals' = seals + Cardinality(I)
  BY DEF Seals, Sealer
<1>5. boxes \cap N = {}
  BY DEF Fresh
<1>6. Cardinality(boxes) \in Nat /\ Cardinality(N) \in Nat
  BY <1>3, FS_CardinalityType
<1>7. IsFiniteSet(boxes \cup N) /\ Cardinality(boxes \cup N) = Cardinality(boxes) + Cardinality(N)
  <2> HIDE DEF N
  <2>1. Cardinality(boxes \cap N) = 0
    BY <1>5, FS_EmptySet
  <2>2. /\ IsFiniteSet(boxes \cup N)
        /\ Cardinality(boxes \cup N) = Cardinality(boxes) + Cardinality(N) - Cardinality(boxes \cap N)
    BY <1>3, FS_Union
  <2> QED BY <1>6, <2>1, <2>2
<1> QED BY <1>3, <1>4, <1>7

\* If all of it is new, so are the first n.
LEMMA FreshPrefix ==
    ASSUME NEW out, IsSeq(out), Fresh(out), NEW n \in 0 .. Len(out)
    PROVE  Fresh(SubSeq(out, 1, n)) /\ IsSeq(SubSeq(out, 1, n)) /\ In(SubSeq(out, 1, n)) \subseteq In(out)
<1> DEFINE p == SubSeq(out, 1, n)
<1>1. /\ IsSeq(p) /\ In(p) \subseteq In(out) /\ DOMAIN p = 1 .. n /\ DOMAIN out = 1 .. Len(out) /\ Len(out) \in Nat
      /\ \A i \in 1 .. n : p[i] = out[i]
  BY Prefix
<1> HIDE DEF p
<1>2. \A i \in SealedRecs(p) : i \in SealedRecs(out) /\ p[i] = out[i]
  BY <1>1 DEF SealedRecs
<1> QED BY <1>1, <1>2 DEF Fresh, p

\* Nobody takes back what it has sealed.
KeepsSeals(d) ==
    Running(d)' => /\ runs'[d] = runs[d]
                   /\ cst[d] = "start" \/ (Running(d) /\ (ct[d].state = "DONE" => ct'[d].state = "DONE"))
ServerKeepsSeals ==
    /\ associations' \in Nat /\ associations' >= associations
    /\ \/ st'.eph[2] > associations
       \/ /\ st'.eph = st.eph /\ (st.state # "INIT" => st'.state # "INIT")
          /\ (st.state = "DONE" => st'.state = "DONE" /\ st'.sseq >= st.sseq /\ st.sseq \in Nat /\ st'.sseq \in Nat)

\* A record that was sealed was sealed by somebody who still counts it.
LEMMA OldBoxes ==
    ASSUME Types, ServerKeepsSeals, \A d \in Client : Older(d) /\ KeepsSeals(d),
           NEW x, SrvHsBox(x) \/ SrvAppBox(x) \/ CliBox(x)
    PROVE  (SrvHsBox(x) \/ SrvAppBox(x) \/ CliBox(x))'
<1>0. associations \in Nat
  BY DEF Types
<1>1. CASE SrvHsBox(x)
  <2>1. PICK a \in ClientEph, b \in ServerEph, s \in Nat :
           x = <<Hs(a, b, "s2c"), s>> /\ b[2] <= associations /\ (b = st.eph => st.state # "INIT")
    BY <1>1 DEF SrvHsBox
  <2>2. b[2] \in Nat
    BY EphsDiffer
  <2>3. b[2] <= associations' /\ (b = st'.eph => st'.state # "INIT")
    BY <1>0, <2>1, <2>2 DEF ServerKeepsSeals
  <2> QED BY <2>1, <2>3 DEF SrvHsBox
<1>2. CASE SrvAppBox(x)
  <2>1. PICK a \in ClientEph, b \in ServerEph, s \in Nat :
           x = <<App(a, b, "s2c"), s>> /\ b[2] <= associations /\ (b = st.eph => st.state = "DONE" /\ s < st.sseq)
    BY <1>2 DEF SrvAppBox
  <2>2. b[2] \in Nat
    BY EphsDiffer
  <2>3. b[2] <= associations' /\ (b = st'.eph => st'.state = "DONE" /\ s < st'.sseq)
    BY <1>0, <2>1, <2>2 DEF ServerKeepsSeals
  <2> QED BY <2>1, <2>3 DEF SrvAppBox
<1>3. CASE CliBox(x)
  <2>1. PICK a \in ClientEph, b \in ServerEph, s \in Nat :
           /\ x \in {<<Hs(a, b, "c2s"), s>>, <<App(a, b, "c2s"), s>>} /\ Past(a)
           /\ Running(a[1]) /\ a = Now(a[1]) => ct[a[1]].state = "DONE"
    BY <1>3 DEF CliBox
  <2>2. a[1] \in Client /\ a[2] \in Nat /\ runs[a[1]] \in Nat /\ Past(a)'
    BY <2>1, EphsDiffer, PastStays DEF Types
  <2>3. Running(a[1])' /\ a = Now(a[1])' => ct'[a[1]].state = "DONE"
    <3> SUFFICES ASSUME Running(a[1])', a = Now(a[1])' PROVE ct'[a[1]].state = "DONE"
      OBVIOUS
    <3>1. runs'[a[1]] = runs[a[1]] /\ a[2] = runs[a[1]] /\ a = Now(a[1])
      BY <2>2 DEF KeepsSeals, Now
    <3>2. cst[a[1]] # "start"
      BY <2>1, <2>2, <3>1 DEF Past
    <3> QED BY <2>1, <2>2, <3>1, <3>2 DEF KeepsSeals
  <2> QED BY <2>1, <2>2, <2>3 DEF CliBox
<1> QED BY <1>1, <1>2, <1>3

\* A step that seals nothing.
LEMMA BoxesKept ==
    ASSUME Types, BoxInv, UNCHANGED <<boxes, seals>>, ServerKeepsSeals, \A d \in Client : Older(d) /\ KeepsSeals(d)
    PROVE  BoxInv'
<1>1. \A x \in boxes : (SrvHsBox(x) \/ SrvAppBox(x) \/ CliBox(x))'
  BY OldBoxes DEF BoxInv
<1> QED BY <1>1 DEF BoxInv

\* A step that seals records that are new.
LEMMA BoxesAdded ==
    ASSUME Types, BoxInv, ServerKeepsSeals, \A d \in Client : Older(d) /\ KeepsSeals(d),
           NEW out, IsSeq(out), Fresh(out), Seals(out),
           \A r \in In(out) : r.rt = "APPLICATION" => (SrvHsBox(Sealer(r)) \/ SrvAppBox(Sealer(r)) \/ CliBox(Sealer(r)))'
    PROVE  BoxInv'
<1>1. /\ IsFiniteSet(boxes') /\ Cardinality(boxes') = seals'
      /\ \A x \in boxes' : x \in boxes \/ \E i \in SealedRecs(out) : x = Sealer(out[i])
  BY Sealing DEF BoxInv
<1>2. ASSUME NEW x \in boxes' PROVE (SrvHsBox(x) \/ SrvAppBox(x) \/ CliBox(x))'
  <2>1. CASE x \in boxes
    BY <2>1, OldBoxes DEF BoxInv
  <2>2. CASE \E i \in SealedRecs(out) : x = Sealer(out[i])
    <3>1. PICK i \in SealedRecs(out) : x = Sealer(out[i])
      BY <2>2
    <3>2. out[i] \in In(out) /\ out[i].rt = "APPLICATION"
      BY DEF In, SealedRecs
    <3> QED BY <3>1, <3>2
  <2> QED BY <1>1, <1>2, <2>1, <2>2
<1> QED BY <1>1, <1>2 DEF BoxInv

\* The server's session, when it does nothing with it.
LEMMA ServerStays ==
    ASSUME Types, ServerInv, st' = st, associations' = associations, sa' = sa, srv' \in {srv, "down"},
           \A d \in Client : Older(d)
    PROVE  ServerInv' /\ ServerKeepsSeals
<1>1. ASSUME NEW a \in ClientEph, Past(a) PROVE Past(a)'
  BY <1>1, PastStays, EphsDiffer
<1>2. \E b \in ServerEph : S0(st, b) \/ \E a \in ClientEph : Past(a)' /\ (S1(st, a, b) \/ S2(st, a, b))
  BY <1>1 DEF ServerInv
<1>3. st.state = "DONE" => st.sseq \in Nat
  BY DEF ServerInv, S0, S1, S2
<1>4. ServerInv'
  BY <1>2 DEF ServerInv, Types
<1> QED BY <1>3, <1>4 DEF ServerKeepsSeals, Types

\* The head of run_server's loop.
LEMMA ServerStartsOver ==
    ASSUME Types, NextAssociation
    PROVE  ServerInv' /\ ServerKeepsSeals /\ srv' = "accept"
<1> DEFINE b == <<NoClient, associations + 1>>
<1>1. b \in ServerEph /\ b[2] > associations /\ associations \in Nat /\ associations' = associations /\ srv' = "accept"
  BY DEF ServerEph, Types, NextAssociation
<1>2. st' = btls_init("server", ServerKey, b, NoLabel)
  BY DEF NextAssociation, ServerSession
<1> HIDE DEF b
<1>3. S0(st', b)
  BY <1>2, NewSession DEF S0, Server
<1>4. st'.eph = b
  BY <1>3 DEF S0, Server
<1>5. S0(st', <<NoClient, associations' + 1>>)
  BY <1>1, <1>3 DEF b
<1> QED BY <1>1, <1>3, <1>4, <1>5 DEF ServerInv, ServerKeepsSeals

\* A client that leaves: what it has sent stays, and what it has not read does not matter.
LEMMA Leaves ==
    ASSUME Types, NEW c \in Client, ClientInv(c), conf' = conf,
           cst'[c] \in {"failed", "got"}, ct'[c].state # "DONE", runs'[c] = runs[c],
           IsSeq(toSrv'[c]), \A r \in In(toSrv'[c]) : r \in In(toSrv[c]) \/ UpRec(c, r)',
           IsSeq(toCli'[c]), In(toCli'[c]) \subseteq In(toCli[c]),
           cst'[c] = "got" => result'[c] = Answer(c)'
    PROVE  ClientInv(c)' /\ Older(c) /\ KeepsSeals(c)
<1>1. ~Running(c)' /\ ~Linked(c)' /\ Older(c) /\ GoesOn(c) /\ StandsFor(c) /\ KeepsSeals(c)
  BY DEF Running, Linked, Older, GoesOn, StandsFor, KeepsSeals
<1>2. Queue(c)'
  BY <1>1, UpStays, DownStays DEF ClientInv, Queue
<1> QED BY <1>1, <1>2 DEF ClientInv, Shape, Link, Count, Got

\* A client whose server leaves it.
LEMMA IsLeft ==
    ASSUME Types, NEW c \in Client, ClientInv(c), conf' = conf, ~Linked(c)',
           ct'[c] = ct[c], cst'[c] = cst[c], req'[c] = req[c], runs'[c] = runs[c], result'[c] = result[c],
           IsSeq(toSrv'[c]), In(toSrv'[c]) \subseteq In(toSrv[c]),
           IsSeq(toCli'[c]), \A r \in In(toCli'[c]) : r \in In(toCli[c]) \/ DownRec(c, r)',
           cst[c] # "start"
    PROVE  ClientInv(c)'
<1>1. Older(c) /\ GoesOn(c) /\ StandsFor(c) /\ Now(c)' = Now(c) /\ (Running(c)' <=> Running(c))
  BY DEF Running, Older, GoesOn, StandsFor, Now
<1>2. Answer(c)' = Answer(c) /\ (Fits(c)' <=> Fits(c))
  BY SameAnswer DEF Fits
<1>3. Queue(c)'
  BY <1>1, UpStays, DownStays DEF ClientInv, Queue
<1>4. Shape(c)'
  BY <1>1, <1>2 DEF ClientInv, Shape, CliAt
<1> QED BY <1>2, <1>3, <1>4 DEF ClientInv, Link, Count, Got

\* When only the time and the like change.
LEMMA NothingSaid ==
    ASSUME IndInv, conf' = conf, happened \subseteq happened',
           UNCHANGED <<sa, st, associations, cst, ct, req, result, runs, toSrv, toCli, stalled, boxes, seals>>,
           srv' \in {srv, "down"}
    PROVE  IndInv'
<1>1. \A d \in Client : Untouched(d) /\ Older(d) /\ KeepsSeals(d) /\ (Linked(d)' => Linked(d) /\ st' = st)
  BY DEF Untouched, Older, KeepsSeals, Linked, Running
<1>2. Types'
  BY DEF IndInv, Types, Calm
<1>3. ServerInv' /\ ServerKeepsSeals
  BY <1>1, ServerStays DEF IndInv
<1>4. \A d \in Client : ClientInv(d)'
  BY <1>1, Others DEF IndInv
<1>5. BoxInv'
  BY <1>1, <1>3, BoxesKept DEF IndInv
<1> QED BY <1>2, <1>3, <1>4, <1>5 DEF IndInv

\* A second passes.
LEMMA StepTick == ASSUME IndInv, Tick PROVE IndInv'
BY NothingSaid DEF Tick, Happens, Records, netVars

\* run_server, when icsp_poll fails.
LEMMA StepSrvPollErr == ASSUME IndInv, SrvPollErr PROVE IndInv'
BY NothingSaid DEF SrvPollErr, Happens, Records, cliVars, netVars

\* When the server goes on without a word.
LEMMA ServerGone ==
    ASSUME IndInv, NextAssociation, UNCHANGED <<conf, cliVars, netVars, history>>
    PROVE  IndInv'
<1>1. \A d \in Client : Untouched(d) /\ Older(d) /\ KeepsSeals(d)
  BY DEF Untouched, Older, KeepsSeals, Running, cliVars, netVars
<1>2. ServerInv' /\ ServerKeepsSeals /\ srv' = "accept"
  BY ServerStartsOver DEF IndInv
<1>3. Types'
  BY <1>2 DEF IndInv, Types, Calm, NextAssociation, cliVars, netVars, history
<1>4. \A d \in Client : ClientInv(d)'
  BY <1>1, <1>2, Others DEF IndInv, Linked, history
<1>5. BoxInv'
  BY <1>1, <1>2, BoxesKept DEF IndInv, history
<1> QED BY <1>2, <1>3, <1>4, <1>5 DEF IndInv

\* The accept of run_server times out.
LEMMA StepAcceptTimeout == ASSUME IndInv, AcceptTimeout PROVE IndInv'
BY ServerGone DEF AcceptTimeout

\* The time of the association is up.
LEMMA StepSrvIdle == ASSUME IndInv, SrvIdle PROVE IndInv'
BY ServerGone DEF SrvIdle

-----------------------------------------------------------------------------
(* The steps of a client.                                                    *)

\* A step of one client, or of the association on its queues.
LEMMA OneClient ==
    ASSUME IndInv, NEW c \in Client, conf' = conf, UNCHANGED srvVars, happened \subseteq happened',
           \A d \in Client \ {c} : Untouched(d), Types', ClientInv(c)', Older(c), KeepsSeals(c),
           \/ UNCHANGED <<boxes, seals>>
           \/ \E out : IsSeq(out) /\ Fresh(out) /\ Seals(out) /\ \A r \in In(out) : CliBox(Sealer(r))'
    PROVE  IndInv'
<1>1. \A d \in Client \ {c} : Older(d) /\ KeepsSeals(d) /\ (Linked(d)' => Linked(d) /\ st' = st)
  BY DEF Untouched, Older, KeepsSeals, Linked, Running, srvVars
<1>2. \A d \in Client : Older(d) /\ KeepsSeals(d)
  BY <1>1
<1>3. ServerInv' /\ ServerKeepsSeals
  BY <1>2, ServerStays DEF IndInv, srvVars
<1>4. \A d \in Client : ClientInv(d)'
  BY <1>1, Others DEF IndInv
<1>5. BoxInv'
  <2>1. CASE UNCHANGED <<boxes, seals>>
    BY <1>2, <1>3, <2>1, BoxesKept DEF IndInv
  <2>2. CASE \E out : IsSeq(out) /\ Fresh(out) /\ Seals(out) /\ \A r \in In(out) : CliBox(Sealer(r))'
    BY <1>2, <1>3, <2>2, BoxesAdded DEF IndInv
  <2> QED BY <2>1, <2>2
<1> QED BY <1>3, <1>4, <1>5 DEF IndInv

\* A client that leaves, having sent at most a SHUTDOWN.
LEMMA Exit ==
    ASSUME IndInv, NEW c \in Client, NEW how \in {"failed", "got"}, Exits(c, how),
           conf' = conf, UNCHANGED <<srvVars, req, runs, stalled, boxes, seals>>, happened \subseteq happened',
           toSrv' = toSrv \/ toSrv' = Shut(toSrv, c), toCli' = toCli \/ (toCli[c] # <<>> /\ toCli' = CliHas(c)),
           DOMAIN result' = Client, \A d \in Client \ {c} : result'[d] = result[d],
           how = "got" => result'[c] = Answer(c)
    PROVE  IndInv'
<1>1. Types /\ ClientInv(c)
  BY DEF IndInv
<1>2. Types'
  BY <1>1 DEF Types, Exits, Shut, CliHas, Calm, srvVars
<1>3. \A d \in Client \ {c} : Untouched(d)
  BY <1>1 DEF Types, Untouched, Exits, Shut, CliHas
<1>4. IsSeq(toSrv[c]) /\ IsSeq(toCli[c])
  BY <1>1 DEF ClientInv, Queue
<1>5. IsSeq(toSrv'[c]) /\ \A r \in In(toSrv'[c]) : r \in In(toSrv[c]) \/ UpRec(c, r)'
  <2>1. CASE toSrv' = toSrv
    BY <1>4, <2>1
  <2>2. CASE toSrv' = Shut(toSrv, c)
    <3>1. toSrv'[c] = Append(toSrv[c], SHUTDOWN)
      BY <1>1, <2>2 DEF Types, Shut
    <3>2. UpRec(c, SHUTDOWN)'
      BY DEF UpRec
    <3> QED BY <1>4, <3>1, <3>2, OneMore
  <2> QED BY <2>1, <2>2
<1>6. IsSeq(toCli'[c]) /\ In(toCli'[c]) \subseteq In(toCli[c])
  <2>1. CASE toCli' = toCli
    BY <1>4, <2>1
  <2>2. CASE toCli[c] # <<>> /\ toCli' = CliHas(c)
    <3>1. toCli'[c] = Tail(toCli[c])
      BY <1>1, <2>2 DEF Types, CliHas
    <3> QED BY <1>4, <2>2, <3>1, HeadGone
  <2> QED BY <2>1, <2>2
<1>7. cst'[c] = how /\ ct'[c].state = "INIT" /\ runs'[c] = runs[c]
  BY <1>1, NewSession DEF Types, Exits, NoSession
<1>8. cst'[c] = "got" => result'[c] = Answer(c)'
  BY <1>7, SameAnswer
<1>9. ClientInv(c)' /\ Older(c) /\ KeepsSeals(c)
  BY <1>1, <1>5, <1>6, <1>7, <1>8, Leaves
<1> QED BY <1>2, <1>3, <1>9, OneClient

\* A client at its deadline.
LEMMA StepTimeUp == ASSUME IndInv, NEW c \in Client, TimeUp(c) PROVE IndInv'
BY Exit DEF TimeUp, netVars, history, IndInv, Types

\* A client that reads a SHUTDOWN.
LEMMA StepCliClosed == ASSUME IndInv, NEW c \in Client, NEW r, CliClosed(c, r) PROVE IndInv'
BY Exit DEF CliClosed, CliTakes, history, IndInv, Types

\* A client whose icsp_poll fails.
LEMMA StepCliPollErr == ASSUME IndInv, NEW c \in Client, CliPollErr(c) PROVE IndInv'
BY Exit DEF CliPollErr, Happens, Records, netVars, IndInv, Types

\* A client that is at no fetch.
LEMMA AtNone ==
    ASSUME Types, NEW c \in Client, ClientInv(c), conf' = conf, cst'[c] \in {"off", "dial"}, ct'[c] = ct[c], ~Running(c),
           toSrv'[c] = toSrv[c], toCli'[c] = toCli[c], Older(c)
    PROVE  ClientInv(c)' /\ KeepsSeals(c)
<1>1. ~Running(c)' /\ ~Linked(c)' /\ GoesOn(c) /\ StandsFor(c) /\ KeepsSeals(c)
  BY DEF Running, Linked, GoesOn, StandsFor, KeepsSeals
<1>2. Queue(c)'
  BY <1>1, UpStays, DownStays DEF ClientInv, Queue
<1> QED BY <1>1, <1>2 DEF ClientInv, Shape, Link, Count, Got

\* A fetch is asked for.
LEMMA StepDial == ASSUME IndInv, NEW c \in Client, NEW m \in conf.asks, Dial(c, m) PROVE IndInv'
<1>1. Types /\ ClientInv(c)
  BY DEF IndInv
<1>2. m.size \in Nat
  BY <1>1 DEF Types, Conf
<1>3. Types'
  BY <1>1, <1>2 DEF Types, Dial, srvVars, netVars, history, Calm
<1>4. \A d \in Client \ {c} : Untouched(d)
  BY <1>1 DEF Types, Untouched, Dial, netVars
<1>5. /\ cst'[c] = "dial" /\ ct'[c] = ct[c] /\ ~Running(c) /\ toSrv'[c] = toSrv[c] /\ toCli'[c] = toCli[c]
      /\ runs'[c] = runs[c] + 1
  BY <1>1 DEF Types, Dial, netVars, Running
<1>6. Older(c)
  BY <1>5 DEF Older
<1>7. ClientInv(c)' /\ KeepsSeals(c)
  BY <1>1, <1>5, <1>6, AtNone DEF Dial
<1> QED BY <1>3, <1>4, <1>6, <1>7, OneClient DEF Dial, history

\* The next fetch.
LEMMA StepAgain == ASSUME IndInv, NEW c \in Client, Again(c) PROVE IndInv'
<1>1. Types /\ ClientInv(c)
  BY DEF IndInv
<1>2. NoRequest.size = 0
  BY DEF NoRequest
<1>3. Types'
  BY <1>1, <1>2 DEF Types, Again, srvVars, netVars, history, Calm
<1>4. \A d \in Client \ {c} : Untouched(d)
  BY <1>1 DEF Types, Untouched, Again, netVars
<1>5. /\ cst'[c] = "off" /\ ct'[c] = ct[c] /\ ~Running(c) /\ toSrv'[c] = toSrv[c] /\ toCli'[c] = toCli[c]
      /\ runs'[c] = runs[c]
  BY <1>1 DEF Types, Again, netVars, Running
<1>6. Older(c)
  BY <1>5 DEF Older
<1>7. ClientInv(c)' /\ KeepsSeals(c)
  BY <1>1, <1>5, <1>6, AtNone DEF Again
<1> QED BY <1>3, <1>4, <1>6, <1>7, OneClient DEF Again, history

\* A sequence of one record.
LEMMA OneRecord == ASSUME NEW x PROVE IsSeq(<<x>>) /\ In(<<x>>) = {x} /\ Len(<<x>>) = 1
BY DEF IsSeq, In

\* What a client sends arrives behind what it sent before, or, when a record was lost, not at all.
LEMMA SentUp ==
    ASSUME Types, NEW c \in Client, IsSeq(toSrv[c]), NEW out, IsSeq(out), toSrv' = Sent(toSrv, c, "srv", out)
    PROVE  /\ DOMAIN toSrv' = Client /\ \A d \in Client \ {c} : toSrv'[d] = toSrv[d]
           /\ IsSeq(toSrv'[c]) /\ In(toSrv'[c]) \subseteq In(toSrv[c]) \cup In(out)
           /\ Calm => In(toSrv'[c]) = In(toSrv[c]) \cup In(out) /\ Len(toSrv'[c]) = Len(toSrv[c]) + Len(out)
<1>1. /\ DOMAIN toSrv' = Client /\ \A d \in Client \ {c} : toSrv'[d] = toSrv[d]
      /\ toSrv'[c] = IF <<c, "srv">> \in stalled THEN toSrv[c] ELSE toSrv[c] \o out
  BY DEF Types, Sent
<1>2. IsSeq(toSrv[c] \o out) /\ In(toSrv[c] \o out) = In(toSrv[c]) \cup In(out) /\ Len(toSrv[c] \o out) = Len(toSrv[c]) + Len(out)
  BY Joined
<1>3. Calm => <<c, "srv">> \notin stalled
  BY DEF Types
<1> QED BY <1>1, <1>2, <1>3

\* The server's session is not that of a fetch that has yet to start.
LEMMA NotMine ==
    ASSUME Types, ServerInv, NEW c \in Client, cst[c] \in {"dial", "start"}
    PROVE  st.peer # Now(c)
<1>1. Now(c) # <<>> /\ Now(c)[1] = c /\ Now(c)[2] = runs[c] /\ runs[c] \in Nat
  BY DEF Now, Types
<1>2. CASE \E b \in ServerEph : S0(st, b)
  BY <1>1, <1>2 DEF S0
<1>3. CASE \E b \in ServerEph, a \in ClientEph : Past(a) /\ (S1(st, a, b) \/ S2(st, a, b))
  <2>1. PICK a \in ClientEph : Past(a) /\ st.peer = a
    BY <1>3 DEF S1, SH1, S2
  <2>2. a = Now(c) => a[2] < runs[c]
    BY <1>1, <2>1 DEF Past
  <2> QED BY <1>1, <2>1, <2>2
<1> QED BY <1>2, <1>3 DEF ServerInv

\* A client starts a session with ephemerals of its own and says hello.
LEMMA StepStart == ASSUME IndInv, NEW c \in Client, Start(c) PROVE IndInv'
<1> DEFINE t == btls_init("client", NoPub, Now(c), conf.label[c])
           f == Plain(FrCH(Now(c)))
<1>1. Types /\ ClientInv(c) /\ ServerInv
  BY DEF IndInv
<1>2. /\ cst[c] = "start" /\ cst' = [cst EXCEPT ![c] = "run"] /\ ct' = [ct EXCEPT ![c] = btls_client_start(t)]
      /\ toSrv' = Sent(toSrv, c, "srv", <<Plain(CH(t))>>)
      /\ UNCHANGED <<conf, srvVars, req, result, runs, toCli, stalled, history>>
  BY DEF Start, Now
<1>3. C0(btls_client_start(t), Now(c), conf.label[c]) /\ CH(t) = FrCH(Now(c))
  BY ClientStart
<1> HIDE DEF t
<1>4. cst'[c] = "run" /\ ct'[c] = btls_client_start(t) /\ Now(c)' = Now(c) /\ runs'[c] = runs[c] /\ runs[c] \in Nat
  BY <1>1, <1>2 DEF Types, Now
<1>5. toSrv' = Sent(toSrv, c, "srv", <<f>>)
  BY <1>2, <1>3
<1> HIDE DEF f
<1>6. toSrv[c] = <<>> /\ toCli[c] = <<>> /\ toCli'[c] = <<>> /\ IsSeq(toSrv[c])
  BY <1>1, <1>2 DEF ClientInv, Queue
<1>7. /\ DOMAIN toSrv' = Client /\ \A d \in Client \ {c} : toSrv'[d] = toSrv[d]
      /\ IsSeq(toSrv'[c]) /\ In(toSrv'[c]) \subseteq {f}
      /\ Calm => Len(toSrv'[c]) = 1
  <2>1. IsSeq(<<f>>) /\ In(<<f>>) = {f} /\ Len(<<f>>) = 1 /\ In(toSrv[c]) = {} /\ Len(toSrv[c]) = 0
    BY <1>6, OneRecord, NoRecords
  <2> DEFINE out == <<f>>
  <2> HIDE DEF out
  <2>2. IsSeq(out) /\ In(out) = {f} /\ Len(out) = 1 /\ toSrv' = Sent(toSrv, c, "srv", out)
    BY <1>5, <2>1 DEF out
  <2> QED BY <1>1, <1>6, <2>1, <2>2, SentUp
<1>8. st.peer # Now(c) /\ st'.peer # Now(c)' /\ st' = st
  BY <1>1, <1>2, <1>4, NotMine DEF srvVars
<1>9. Types'
  BY <1>1, <1>2, <1>7 DEF Types, srvVars, history, Calm
<1>10. \A d \in Client \ {c} : Untouched(d)
  BY <1>1, <1>2, <1>7 DEF Types, Untouched
<1>11. Older(c) /\ KeepsSeals(c)
  BY <1>2, <1>4 DEF Older, KeepsSeals
<1>12. ASSUME NEW r, r = f PROVE UpHello(c, r)'
  <2>1. <<c, runs[c]>> \in ClientEph /\ <<c, runs[c]>>[1] = c /\ <<c, runs[c]>>[2] = runs[c]
    BY <1>4 DEF ClientEph
  <2>2. Past(<<c, runs[c]>>)'
    BY <1>4, <2>1 DEF Past
  <2>3. r = Plain(FrCH(<<c, runs[c]>>)) /\ <<c, runs[c]>> = <<c, runs'[c]>>
    BY <1>4, <1>12 DEF f, Now
  <2>4. \E n \in Nat : r = Plain(FrCH(<<c, n>>)) /\ Past(<<c, n>>)' /\ n = runs'[c]
    BY <1>4, <2>2, <2>3
  <2> QED BY <2>4 DEF UpHello
<1>13. Shape(c)'
  <2>1. C0(ct'[c], Now(c)', conf'.label[c])
    BY <1>2, <1>3, <1>4 DEF history
  <2> QED BY <1>4, <2>1 DEF Shape, CliAt, Running
<1>14. Queue(c)'
  <2>1. In(<<>>) = {} /\ IsSeq(<<>>)
    BY NoRecords
  <2>2. \A r : r = f => UpRec(c, r)'
    BY <1>12 DEF UpRec
  <2>3. \A r \in In(toSrv'[c]) : UpRec(c, r)'
    BY <1>7, <2>2
  <2> QED BY <1>4, <1>6, <1>7, <2>1, <2>3 DEF Queue
<1>15. Link(c)'
  BY <1>3, <1>4, <1>8 DEF Link, C0
<1>16. Count(c)'
  <2>1. Calm' => Calm
    BY <1>2 DEF Calm, history
  <2>2. f # SHUTDOWN
    BY DEF SHUTDOWN, f, Plain
  <2>3. SHUTDOWN \notin In(toSrv'[c]) \cup In(toCli'[c]) /\ Len(toCli'[c]) = 0
    BY <1>6, <1>7, <2>2, NoRecords
  <2> QED BY <1>7, <1>8, <2>1, <2>3 DEF Count
<1>17. Got(c)'
  BY <1>4 DEF Got
<1>18. ClientInv(c)'
  BY <1>13, <1>14, <1>15, <1>16, <1>17 DEF ClientInv
<1> QED BY <1>2, <1>9, <1>10, <1>11, <1>18, OneClient DEF history

\* What is lost leaves zeros behind, or a SHUTDOWN.
LEMMA Lose ==
    ASSUME IndInv, NEW c \in Client, ~Calm', happened \subseteq happened',
           UNCHANGED <<conf, srvVars, cliVars, boxes, seals>>, cst[c] # "start",
           DOMAIN toSrv' = Client, DOMAIN toCli' = Client,
           \A d \in Client \ {c} : toSrv'[d] = toSrv[d] /\ toCli'[d] = toCli[d],
           IsSeq(toSrv'[c]), In(toSrv'[c]) \subseteq In(toSrv[c]) \cup {Blank, SHUTDOWN},
           IsSeq(toCli'[c]), In(toCli'[c]) \subseteq In(toCli[c]) \cup {Blank, SHUTDOWN}
    PROVE  IndInv'
<1>1. Types /\ ClientInv(c)
  BY DEF IndInv
<1>2. Types'
  BY <1>1 DEF Types, srvVars, cliVars
<1>3. \A d \in Client \ {c} : Untouched(d)
  BY DEF Untouched, cliVars
<1>4. Older(c) /\ GoesOn(c) /\ StandsFor(c) /\ KeepsSeals(c) /\ Now(c)' = Now(c) /\ (Linked(c)' <=> Linked(c)) /\ (Running(c)' <=> Running(c))
  BY DEF Older, GoesOn, StandsFor, KeepsSeals, Now, Running, Linked, srvVars, cliVars
<1>5. Answer(c)' = Answer(c) /\ (Fits(c)' <=> Fits(c))
  BY SameAnswer DEF Fits, cliVars
<1>6. Queue(c)'
  <2>1. \A r \in {Blank, SHUTDOWN} : UpRec(c, r)' /\ DownRec(c, r)'
    BY DEF UpRec, DownRec
  <2>2. cst'[c] # "start"
    BY DEF cliVars
  <2>3. \A r \in In(toSrv'[c]) : UpRec(c, r)'
    BY <1>1, <1>4, <2>1, UpStays DEF ClientInv, Queue
  <2>4. \A r \in In(toCli'[c]) : DownRec(c, r)'
    BY <1>1, <1>4, <2>1, DownStays DEF ClientInv, Queue
  <2> QED BY <2>2, <2>3, <2>4 DEF Queue
<1>7. Shape(c)'
  BY <1>1, <1>4, <1>5 DEF ClientInv, Shape, CliAt, cliVars
<1>8. Link(c)'
  BY <1>1, <1>4 DEF ClientInv, Link, srvVars, cliVars
<1>9. Got(c)'
  BY <1>1, <1>5 DEF ClientInv, Got, cliVars
<1>10. ClientInv(c)'
  BY <1>6, <1>7, <1>8, <1>9 DEF ClientInv, Count
<1> QED BY <1>2, <1>3, <1>4, <1>10, OneClient

\* The queue after the loss: blank, a SHUTDOWN, or empty.
LEMMA WhatIsLost ==
    ASSUME NEW q2 \in {<<Blank>>, <<SHUTDOWN>>, <<>>}
    PROVE  IsSeq(q2) /\ In(q2) \subseteq {Blank, SHUTDOWN}
BY OneRecord, NoRecords

\* A loss on the way to the server.
LEMMA StepLoseUp == ASSUME IndInv, NEW c \in Client, LoseUp(c) PROVE IndInv'
<1>1. PICK q2 \in {<<Blank>>, <<SHUTDOWN>>, <<>>} : Lost(toSrv[c], q2, <<c, "srv">>) /\ toSrv' = [toSrv EXCEPT ![c] = q2]
  BY DEF LoseUp
<1>2. IsSeq(q2) /\ In(q2) \subseteq {Blank, SHUTDOWN}
  BY WhatIsLost
<1>3. toSrv[c] # <<>> /\ happened' = happened \cup {"lost"}
  BY <1>1 DEF Lost, Happens, Records
<1>4. cst[c] # "start" /\ IsSeq(toCli[c]) /\ Types
  BY <1>3 DEF IndInv, ClientInv, Queue
<1>5. toSrv'[c] = q2 /\ DOMAIN toSrv' = Client /\ \A d \in Client \ {c} : toSrv'[d] = toSrv[d]
  BY <1>1, <1>4 DEF Types
<1>6. ~Calm'
  BY <1>3 DEF Calm
<1> QED BY <1>2, <1>3, <1>4, <1>5, <1>6, Lose DEF LoseUp, Types

\* A loss on the way to the client.
LEMMA StepLoseDown == ASSUME IndInv, NEW c \in Client, LoseDown(c) PROVE IndInv'
<1>1. PICK q2 \in {<<Blank>>, <<SHUTDOWN>>, <<>>} : Lost(toCli[c], q2, <<c, "cli">>) /\ toCli' = [toCli EXCEPT ![c] = q2]
  BY DEF LoseDown
<1>2. IsSeq(q2) /\ In(q2) \subseteq {Blank, SHUTDOWN}
  BY WhatIsLost
<1>3. toCli[c] # <<>> /\ happened' = happened \cup {"lost"}
  BY <1>1 DEF Lost, Happens, Records
<1>4. cst[c] # "start" /\ IsSeq(toSrv[c]) /\ Types
  BY <1>3 DEF IndInv, ClientInv, Queue
<1>5. toCli'[c] = q2 /\ DOMAIN toCli' = Client /\ \A d \in Client \ {c} : toCli'[d] = toCli[d]
  BY <1>1, <1>4 DEF Types
<1>6. ~Calm'
  BY <1>3 DEF Calm
<1> QED BY <1>2, <1>3, <1>4, <1>5, <1>6, Lose DEF LoseDown, Types

\* A response has a size.
LEMMA SizeOfReply ==
    ASSUME Types, NEW parts
    PROVE  Reply(parts).size \in Nat
<1>1. \A s, p, n : Response(s, p, n).size = n
  BY DEF Response
<1>2. \A d \in conf.docs : d.size \in Nat
  BY DEF Types, Conf
<1>3. ASSUME NEW p, Document(p) # {} PROVE (CHOOSE d \in Document(p) : TRUE).size \in Nat
  <2>1. (CHOOSE d \in Document(p) : TRUE) \in Document(p)
    BY <1>3
  <2> QED BY <1>2, <2>1 DEF Document
<1>4. ASSUME NEW m PROVE serve(m).size \in Nat
  <2> DEFINE p == Decoded(m.target)
             size == (CHOOSE d \in Document(p) : TRUE).size
  <2>1. Document(p) # {} => size \in Nat
    BY <1>3
  <2>2. serve(m) \in {Response(405, <<>>, 1), Response(404, <<>>, 1), Response(500, <<>>, 1)}
        \/ (Document(p) # {} /\ serve(m) \in {Response(200, p, 1), Response(200, p, size)})
    BY DEF serve
  <2> HIDE DEF p, size
  <2> QED BY <1>1, <2>1, <2>2
<1> QED BY <1>1, <1>4 DEF Reply

\* The session of a client that is at a fetch and has finished the handshake.
LEMMA AtDone ==
    ASSUME Types, NEW c \in Client, ClientInv(c), Running(c), ct[c].state = "DONE"
    PROVE  /\ Fits(c) /\ ct[c].sseq = req[c].size /\ ct[c].rx = FirstParts(Answer(c), ct[c].rseq) /\ ct[c].rseq \in Nat
           /\ \E b \in ServerEph : C4(ct[c], Now(c), b, conf.label[c])
<1>1. CliAt(c, ct[c])
  BY DEF ClientInv, Shape
<1> QED BY <1>1 DEF CliAt, C0, C1, C2, C3, C4, CH1

\* A part of the response that is not the last one: the client keeps it.
LEMMA StepMorePart ==
    ASSUME IndInv, NEW c \in Client, NEW r, CliTakes(c, r), r # SHUTDOWN, ct[c].state = "DONE", toCli' = CliHas(c),
           btls_recv_app_ok(ct[c], r), r.inner.more, ct' = [ct EXCEPT ![c] = btls_recv_app(@, r)],
           UNCHANGED <<conf, srvVars, cst, req, left, result, runs, toSrv, stalled, history>>
    PROVE  IndInv'
<1> DEFINE t == ct[c]
           u == btls_recv_app(t, r)
<1>1. Types /\ ClientInv(c) /\ Running(c) /\ runs[c] \in Nat /\ toCli[c] # <<>> /\ r = Head(toCli[c]) /\ IsSeq(toCli[c])
  BY DEF IndInv, Types, CliTakes, Running, ClientInv, Queue
<1>2. DownRec(c, r)
  <2>1. r \in In(toCli[c])
    BY <1>1, HeadGone
  <2> QED BY <1>1, <2>1 DEF ClientInv, Queue
<1>3. /\ Fits(c) /\ t.sseq = req[c].size /\ t.rx = FirstParts(Answer(c), t.rseq) /\ t.rseq \in Nat
      /\ \E b \in ServerEph : C4(t, Now(c), b, conf.label[c])
  BY <1>1, AtDone
<1>4. PICK b \in ServerEph : C4(t, Now(c), b, conf.label[c])
  BY <1>3
<1>5. t.rseq < Answer(c).size /\ r.inner = Part(Answer(c), t.rseq + 1)
  BY <1>1, <1>2, <1>4, OpensResponse
<1>6. Answer(c).size \in Nat
  BY <1>1, SizeOfReply DEF Answer
<1>7. IsSession(t) /\ t.epoch = 2
  BY <1>4 DEF C4, Cli
<1>8. ct'[c] = u /\ ct' = [ct EXCEPT ![c] = u] /\ DOMAIN ct' = Client /\ \A d \in Client \ {c} : ct'[d] = ct[d]
  BY <1>1 DEF Types
<1> HIDE DEF u
<1>9. Same(t, u, {"rseq", "rx"}) /\ u.rseq = t.rseq + 1 /\ u.rx = Append(t.rx, r.inner)
  BY <1>7, TakesPart DEF u
<1>10. u.rx = FirstParts(Answer(c), u.rseq)
  <2>1. Append(FirstParts(Answer(c), t.rseq), Part(Answer(c), t.rseq + 1)) = FirstParts(Answer(c), t.rseq + 1)
    BY <1>3, <1>6, NextPart
  <2> QED BY <1>3, <1>5, <1>9, <2>1
<1>11. C4(u, Now(c), b, conf.label[c]) /\ u.sseq = t.sseq /\ u.state = t.state /\ u.peer = t.peer /\ u.want = t.want
  <2>1. /\ IsSession(u) /\ u.role = t.role /\ u.eph = t.eph /\ u.label = t.label /\ u.state = t.state /\ u.epoch = t.epoch
        /\ u.want = t.want /\ u.peer = t.peer /\ u.th = t.th /\ u.cert = t.cert /\ u.send = t.send /\ u.recv = t.recv
        /\ u.sseq = t.sseq
    BY <1>9 DEF Same, Fields
  <2>2. u.rseq \in Nat
    BY <1>3, <1>9
  <2> QED BY <1>4, <2>1, <2>2 DEF C4, Cli
<1>12. toCli'[c] = Tail(toCli[c]) /\ DOMAIN toCli' = Client /\ \A d \in Client \ {c} : toCli'[d] = toCli[d]
  BY <1>1 DEF Types, CliHas
<1>13. IsSeq(toCli'[c]) /\ In(toCli'[c]) \subseteq In(toCli[c]) /\ Len(toCli'[c]) = Len(toCli[c]) - 1 /\ Len(toCli[c]) \in Nat
       /\ Len(toCli[c]) # 0
  <2>1. Len(Tail(toCli[c])) \in Nat
    BY <1>1, HeadGone DEF IsSeq
  <2> QED BY <1>1, <1>12, <2>1, HeadGone
<1>14. Types'
  BY <1>1, <1>8, <1>12 DEF Types, srvVars, history, Calm
<1>15. \A d \in Client \ {c} : Untouched(d)
  BY <1>8, <1>12 DEF Untouched
<1>16. Now(c)' = Now(c) /\ Answer(c)' = Answer(c) /\ (Fits(c)' <=> Fits(c)) /\ (Running(c)' <=> Running(c))
       /\ (Linked(c)' <=> Linked(c)) /\ st' = st /\ (Calm' <=> Calm)
  BY SameAnswer DEF Now, Fits, Running, Linked, srvVars, Calm, history
<1>17. Older(c) /\ GoesOn(c) /\ StandsFor(c) /\ KeepsSeals(c)
  BY <1>8, <1>11, <1>16 DEF Older, GoesOn, StandsFor, KeepsSeals, Running
<1>18. Queue(c)'
  BY <1>1, <1>13, <1>17, UpStays, DownStays DEF ClientInv, Queue, Running
<1>19. Shape(c)'
  <2>1. C4(ct'[c], Now(c)', b, conf'.label[c]) /\ ct'[c].sseq = req'[c].size /\ ct'[c].rx = FirstParts(Answer(c)', ct'[c].rseq)
    BY <1>3, <1>8, <1>10, <1>11, <1>16
  <2>2. CliAt(c, ct[c])'
    BY <1>3, <1>16, <2>1 DEF CliAt
  <2> QED BY <1>1, <1>16, <2>2 DEF Shape
<1>20. Link(c)'
  BY <1>1, <1>8, <1>11, <1>16 DEF ClientInv, Link
<1>21. Count(c)'
  <2>1. Ahead(t) = 0
    BY <1>4 DEF Ahead, C4
  <2>2. CASE Calm /\ Linked(c)
    <3>1. st.state # "INIT" /\ ~(st.peer = Now(c) /\ st.state = "WAIT_FIN")
      BY <1>1, <1>13, <2>1, <2>2 DEF ClientInv, Count
    <3>2. SHUTDOWN \notin In(toSrv'[c]) \cup In(toCli'[c])
      BY <1>1, <1>13, <2>2 DEF ClientInv, Count
    <3>3. st.peer = Now(c) /\ st.state = "DONE" =>
              st.rseq + Len(toSrv[c]) = t.sseq /\ t.rseq + Len(toCli[c]) = st.sseq
      BY <1>1, <2>2 DEF ClientInv, Count
    <3>4. st.peer = Now(c) /\ st.state = "DONE" =>
              st.rseq + Len(toSrv'[c]) = u.sseq /\ u.rseq + Len(toCli'[c]) = st.sseq
      <4>1. u.rseq + Len(toCli'[c]) = t.rseq + Len(toCli[c])
        <5>1. t.rseq \in Nat /\ u.rseq = t.rseq + 1
          BY <1>3, <1>9
        <5>2. Len(toCli'[c]) = Len(toCli[c]) - 1 /\ Len(toCli[c]) \in Nat
          BY <1>13
        <5>3. \A i, n \in Nat : (i + 1) + (n - 1) = i + n
          OBVIOUS
        <5> QED BY <5>1, <5>2, <5>3
      <4>2. toSrv' = toSrv /\ u.sseq = t.sseq
        BY <1>11
      <4> QED BY <3>3, <4>1, <4>2
    <3> QED BY <1>8, <1>16, <3>1, <3>2, <3>4 DEF Count
  <2> QED BY <1>16, <2>2 DEF Count
<1>22. Got(c)'
  BY <1>1, <1>16 DEF Got, Running
<1>23. ClientInv(c)'
  BY <1>18, <1>19, <1>20, <1>21, <1>22 DEF ClientInv
<1> QED BY <1>14, <1>15, <1>17, <1>23, OneClient DEF history

\* A client and the response: a part, the last part, a record that does not open.
LEMMA StepCliResponse == ASSUME IndInv, NEW c \in Client, NEW r, CliResponse(c, r) PROVE IndInv'
<1> DEFINE m == r.inner.msg
           whole == Reassembled(ct[c], r) = Parts(m)
<1>1. /\ CliTakes(c, r) /\ r # SHUTDOWN /\ ct[c].state = "DONE" /\ toCli' = CliHas(c)
      /\ UNCHANGED <<conf, srvVars, req, left, runs, stalled, history>>
  BY DEF CliResponse
<1>2. Types /\ ClientInv(c) /\ toCli[c] # <<>>
  BY <1>1 DEF IndInv, CliTakes
<1>3. CASE btls_recv_app_ok(ct[c], r) /\ r.inner.more /\ ct' = [ct EXCEPT ![c] = btls_recv_app(@, r)] /\ UNCHANGED <<cst, result, toSrv>>
  BY <1>1, <1>3, StepMorePart
<1>4. CASE /\ btls_recv_app_ok(ct[c], r) /\ ~r.inner.more
           /\ result' = [result EXCEPT ![c] = IF whole THEN m ELSE [m EXCEPT !.kind = "part"]]
           /\ Exits(c, "got") /\ toSrv' = Shut(toSrv, c)
  <2>1. Running(c) /\ runs[c] \in Nat /\ IsSeq(toCli[c]) /\ r = Head(toCli[c])
    BY <1>1, <1>2 DEF CliTakes, Running, Types, ClientInv, Queue
  <2>2. DownRec(c, r)
    <3>1. r \in In(toCli[c])
      BY <1>2, <2>1, HeadGone
    <3> QED BY <1>2, <3>1 DEF ClientInv, Queue
  <2>3. ct[c].rx = FirstParts(Answer(c), ct[c].rseq) /\ ct[c].rseq \in Nat
        /\ \E b \in ServerEph : C4(ct[c], Now(c), b, conf.label[c])
    BY <1>1, <1>2, <2>1, AtDone
  <2>4. ct[c].rseq < Answer(c).size /\ r.inner = Part(Answer(c), ct[c].rseq + 1)
    BY <1>4, <2>1, <2>2, <2>3, OpensResponse
  <2>5. Answer(c).size \in Nat
    BY <1>2, SizeOfReply DEF Answer
  <2>6. ct[c].rseq + 1 = Answer(c).size
    <3>1. ~(ct[c].rseq + 1 < Answer(c).size)
      <4>1. \A w, k : w.size \in Nat /\ k \in Nat /\ k < w.size => Part(w, k + 1).more = (k + 1 < w.size)
        BY ONLY NextPart
      <4>2. Part(Answer(c), ct[c].rseq + 1).more = (ct[c].rseq + 1 < Answer(c).size)
        BY ONLY <2>3, <2>4, <2>5, <4>1
      <4>3. r.inner.more = (ct[c].rseq + 1 < Answer(c).size)
        BY ONLY <2>4, <4>2
      <4> QED BY <1>4, <4>3
    <3> QED BY <2>3, <2>4, <2>5, <3>1
  <2>7. m = Answer(c) /\ whole
    <3>1. /\ Append(FirstParts(Answer(c), ct[c].rseq), Part(Answer(c), ct[c].rseq + 1)) = FirstParts(Answer(c), ct[c].rseq + 1)
          /\ FirstParts(Answer(c), Answer(c).size) = Parts(Answer(c)) /\ Part(Answer(c), ct[c].rseq + 1).msg = Answer(c)
      BY <2>3, <2>5, NextPart
    <3> QED BY <2>3, <2>4, <2>6, <3>1 DEF Reassembled
  <2>8. result'[c] = Answer(c) /\ DOMAIN result' = Client /\ \A d \in Client \ {c} : result'[d] = result[d]
    BY <1>2, <1>4, <2>7 DEF Types
  <2> QED BY <1>1, <1>2, <1>4, <2>8, Exit DEF history
<1>5. CASE ~btls_recv_app_ok(ct[c], r) /\ Exits(c, "failed") /\ UNCHANGED <<result, toSrv>>
  BY <1>1, <1>2, <1>5, Exit DEF history, Types
<1> QED BY <1>3, <1>4, <1>5 DEF CliResponse

-----------------------------------------------------------------------------
(* The steps of the server.                                                  *)

\* The ephemeral of the server is one of its own.
LEMMA ServersEph ==
    ASSUME ServerInv
    PROVE  st.eph \in ServerEph /\ st.eph = <<NoClient, st.eph[2]>> /\ st.eph[2] \in Nat
<1>1. st.eph \in ServerEph
  BY DEF ServerInv, S0, S1, SH1, S2, Server
<1> QED BY <1>1, EphsDiffer

\* An association opens: the client has yet to start.
LEMMA Opens ==
    ASSUME IndInv, NEW c \in Client, Opened(c), cst[c] = "dial", srv' = "serving", st.eph[2] <= associations + 1,
           UNCHANGED <<conf, st, ct, req, result, runs, boxes, seals>>, happened \subseteq happened'
    PROVE  IndInv'
<1>1. Types /\ ClientInv(c) /\ ServerInv
  BY DEF IndInv
<1>2. /\ sa' = c /\ cst'[c] = "start" /\ toSrv'[c] = <<>> /\ toCli'[c] = <<>> /\ stalled' \subseteq stalled
      /\ associations' = associations + 1 /\ associations \in Nat
      /\ DOMAIN cst' = Client /\ DOMAIN toSrv' = Client /\ DOMAIN toCli' = Client
      /\ \A d \in Client \ {c} : cst'[d] = cst[d] /\ toSrv'[d] = toSrv[d] /\ toCli'[d] = toCli[d]
  BY <1>1 DEF Types, Opened
<1>3. \A d \in Client \ {c} : Untouched(d) /\ ~Linked(d)'
  BY <1>2 DEF Untouched, Linked
<1>4. Types'
  BY <1>1, <1>2 DEF Types, Calm
<1>5. ~Running(c)' /\ Older(c) /\ KeepsSeals(c)
  BY <1>2 DEF Running, Older, KeepsSeals
<1>6. \A d \in Client : Older(d) /\ KeepsSeals(d)
  BY <1>3, <1>5 DEF Untouched, Older, KeepsSeals, Running
<1>7. ClientInv(c)'
  <2>1. ct[c].state # "DONE"
    BY <1>1 DEF ClientInv, Shape, Running
  <2>2. Queue(c)'
    BY <1>2, NoRecords DEF Queue
  <2> QED BY <1>2, <1>5, <2>1, <2>2 DEF ClientInv, Shape, Link, Linked, Count, Got
<1>8. \A d \in Client : ClientInv(d)'
  BY <1>1, <1>3, <1>7, Others DEF IndInv
<1>9. ServerInv' /\ ServerKeepsSeals
  <2>1. ASSUME NEW a \in ClientEph, Past(a) PROVE Past(a)'
    BY <1>1, <1>6, <2>1, PastStays, EphsDiffer
  <2>2. \E b \in ServerEph : S0(st, b) \/ \E a \in ClientEph : Past(a)' /\ (S1(st, a, b) \/ S2(st, a, b))
    BY <1>1, <2>1 DEF ServerInv
  <2>3. st.state = "DONE" => st.sseq \in Nat
    BY <1>1 DEF ServerInv, S0, S1, S2
  <2>4. ServerInv'
    BY <1>2, <2>2 DEF ServerInv
  <2> QED BY <1>2, <2>3, <2>4 DEF ServerKeepsSeals
<1>10. BoxInv'
  BY <1>6, <1>9, BoxesKept DEF IndInv
<1> QED BY <1>4, <1>8, <1>9, <1>10 DEF IndInv

\* The server accepts.
LEMMA StepAccept == ASSUME IndInv, NEW c \in Client, Accept(c) PROVE IndInv'
<1>1. st.eph[2] <= associations + 1
  <2>1. st.eph = <<NoClient, associations + 1>> /\ associations \in Nat
    BY DEF IndInv, ServerInv, Types, Accept, S0, Server
  <2> QED BY <2>1
<1>2. happened \subseteq happened'
  BY DEF Accept, Records
<1> QED BY <1>1, <1>2, Opens DEF Accept

\* The INIT of another fetch while the server is in icsp_poll.
LEMMA StepSecondInit == ASSUME IndInv, NEW c \in Client, SecondInit(c) PROVE IndInv'
<1>1. happened \subseteq happened'
  BY DEF SecondInit, Records
<1>2. CASE Opened(c) /\ UNCHANGED srv
  <2>1. st.eph[2] <= associations /\ st.eph[2] \in Nat /\ associations \in Nat
    BY ServersEph DEF IndInv, ServerInv, SecondInit, Types
  <2>2. st.eph[2] <= associations + 1
    BY <2>1
  <2> QED BY <1>1, <1>2, <2>2, Opens DEF SecondInit
<1>3. CASE srv' = "down" /\ UNCHANGED <<sa, cst, netVars, associations>>
  BY <1>1, <1>3, NothingSaid DEF SecondInit, netVars
<1> QED BY <1>2, <1>3 DEF SecondInit

\* What the server sends arrives behind what it sent before, or, when a record was lost, not at all.
LEMMA SentDown ==
    ASSUME Types, NEW c \in Client, IsSeq(toCli[c]), NEW out, IsSeq(out)
    PROVE  LET q == Sent(toCli, c, "cli", out) IN
           /\ DOMAIN q = Client /\ \A d \in Client \ {c} : q[d] = toCli[d]
           /\ IsSeq(q[c]) /\ In(q[c]) \subseteq In(toCli[c]) \cup In(out)
           /\ Calm => In(q[c]) = In(toCli[c]) \cup In(out) /\ Len(q[c]) = Len(toCli[c]) + Len(out)
<1> DEFINE q == Sent(toCli, c, "cli", out)
<1>1. /\ DOMAIN q = Client /\ \A d \in Client \ {c} : q[d] = toCli[d]
      /\ q[c] = IF <<c, "cli">> \in stalled THEN toCli[c] ELSE toCli[c] \o out
  BY DEF Types, Sent
<1>2. IsSeq(toCli[c] \o out) /\ In(toCli[c] \o out) = In(toCli[c]) \cup In(out) /\ Len(toCli[c] \o out) = Len(toCli[c]) + Len(out)
  BY Joined
<1>3. Calm => <<c, "cli">> \notin stalled
  BY DEF Types
<1> HIDE DEF q
<1> QED BY <1>1, <1>2, <1>3 DEF q

\* What the server may have sealed with.
SrvBox(r) == r.rt = "APPLICATION" => SrvHsBox(Sealer(r)) \/ SrvAppBox(Sealer(r))

\* The server leaves a client for the next association, in silence or with a SHUTDOWN.
LEMMA ServerLeaves ==
    ASSUME IndInv, NEW c \in Client, c = sa, srv = "serving", toSrv[c] # <<>>, NextAssociation, toSrv' = SrvHas,
           UNCHANGED <<conf, cliVars, stalled>>, happened \subseteq happened',
           \/ toCli' = toCli
           \/ \E out : IsSeq(out) /\ toCli' = Shut(Sent(toCli, c, "cli", out), c) /\ \A r \in In(out) : DownRec(c, r)',
           \/ UNCHANGED <<boxes, seals>>
           \/ \E out : IsSeq(out) /\ Fresh(out) /\ Seals(out) /\ \A r \in In(out) : SrvBox(r)'
    PROVE  IndInv'
<1>1. Types /\ ServerInv /\ ClientInv(c) /\ \A d \in Client : ClientInv(d)
  BY DEF IndInv, ServerInv
<1>2. IsSeq(toSrv[c]) /\ IsSeq(toCli[c]) /\ cst[c] # "start"
  BY <1>1 DEF ClientInv, Queue
<1>3. ServerInv' /\ ServerKeepsSeals /\ srv' = "accept" /\ associations' = associations
  BY <1>1, ServerStartsOver DEF NextAssociation
<1>4. toSrv'[c] = Tail(toSrv[c]) /\ DOMAIN toSrv' = Client /\ \A d \in Client \ {c} : toSrv'[d] = toSrv[d]
  BY <1>1 DEF Types, SrvHas
<1>5. IsSeq(toSrv'[c]) /\ In(toSrv'[c]) \subseteq In(toSrv[c])
  BY <1>2, <1>4, HeadGone
<1>6. /\ DOMAIN toCli' = Client /\ \A d \in Client \ {c} : toCli'[d] = toCli[d]
      /\ IsSeq(toCli'[c]) /\ \A r \in In(toCli'[c]) : r \in In(toCli[c]) \/ DownRec(c, r)'
  <2>1. CASE toCli' = toCli
    BY <1>1, <1>2, <2>1 DEF Types
  <2>2. CASE \E out : IsSeq(out) /\ toCli' = Shut(Sent(toCli, c, "cli", out), c) /\ \A r \in In(out) : DownRec(c, r)'
    <3>1. PICK out : IsSeq(out) /\ toCli' = Shut(Sent(toCli, c, "cli", out), c) /\ \A r \in In(out) : DownRec(c, r)'
      BY <2>2
    <3> DEFINE q == Sent(toCli, c, "cli", out)
    <3>2. /\ DOMAIN q = Client /\ \A d \in Client \ {c} : q[d] = toCli[d]
          /\ IsSeq(q[c]) /\ In(q[c]) \subseteq In(toCli[c]) \cup In(out)
      BY <1>1, <1>2, <3>1, SentDown
    <3> HIDE DEF q
    <3>3. toCli'[c] = Append(q[c], SHUTDOWN) /\ DOMAIN toCli' = Client /\ \A d \in Client \ {c} : toCli'[d] = toCli[d]
      BY <1>1, <3>1, <3>2 DEF Shut, q
    <3>4. \A r : r = SHUTDOWN => DownRec(c, r)'
      BY DEF DownRec, SHUTDOWN
    <3>5. IsSeq(toCli'[c]) /\ In(toCli'[c]) = In(q[c]) \cup {SHUTDOWN}
      BY <3>2, <3>3, OneMore
    <3> QED BY <3>1, <3>2, <3>3, <3>4, <3>5
  <2> QED BY <2>1, <2>2
<1>7. Types'
  BY <1>1, <1>3, <1>4, <1>6 DEF Types, Calm, cliVars
<1>8. \A d \in Client : Older(d) /\ KeepsSeals(d) /\ ~Linked(d)'
  BY <1>3 DEF Older, KeepsSeals, Running, Linked, cliVars
<1>9. \A d \in Client \ {c} : Untouched(d)
  BY <1>4, <1>6 DEF Untouched, cliVars
<1>10. ClientInv(c)'
  BY <1>1, <1>2, <1>5, <1>6, <1>8, IsLeft DEF cliVars
<1>11. \A d \in Client : ClientInv(d)'
  BY <1>1, <1>8, <1>9, <1>10, Others
<1>12. BoxInv'
  <2>1. CASE UNCHANGED <<boxes, seals>>
    BY <1>1, <1>3, <1>8, <2>1, BoxesKept DEF IndInv
  <2>2. CASE \E out : IsSeq(out) /\ Fresh(out) /\ Seals(out) /\ \A r \in In(out) : SrvBox(r)'
    BY <1>1, <1>3, <1>8, <2>2, BoxesAdded DEF IndInv, SrvBox
  <2> QED BY <2>1, <2>2
<1> QED BY <1>3, <1>7, <1>11, <1>12 DEF IndInv

\* The server reads a SHUTDOWN.
LEMMA StepSrvClosed == ASSUME IndInv, NEW r, SrvClosed(r) PROVE IndInv'
<1>1. sa \in Client
  BY DEF IndInv, ServerInv, SrvClosed, SrvTakes
<1> QED BY <1>1, ServerLeaves DEF SrvClosed, SrvTakes, history

\* assoc_fail with nothing sent before.
LEMMA Fails ==
    ASSUME IndInv, NEW r, SrvTakes(r), AssocFail(<<>>), UNCHANGED <<conf, cliVars, boxes, seals>>, happened \subseteq happened'
    PROVE  IndInv'
<1>1. PICK c \in Client : c = sa
  BY DEF IndInv, ServerInv, SrvTakes
<1>2. \E out : IsSeq(out) /\ toCli' = Shut(Sent(toCli, c, "cli", out), c) /\ \A q \in In(out) : DownRec(c, q)'
  BY <1>1, NoRecords DEF AssocFail
<1> QED BY <1>1, <1>2, ServerLeaves DEF SrvTakes, AssocFail

\* What the server says to client c in the session of a and b.
SrvSays(c, a, b, r) ==
    \/ r = Plain(FrSH(b))
    \/ r \in {CertBox(a, b), CVBox(a, b), FinSBox(a, b)}
    \/ \E s \in Nat :
          /\ r.rt = "APPLICATION" /\ r.key = App(a, b, "s2c") /\ r.seq = s
          /\ Running(c) /\ a = Now(c) => s < Answer(c).size /\ r.inner = Part(Answer(c), s + 1)

\* The types of what the server says.
LEMMA SaidKinds ==
    ASSUME NEW c, NEW a, NEW b, NEW r, SrvSays(c, a, b, r)
    PROVE  \/ r = Plain(FrSH(b)) /\ r.rt = "HANDSHAKE"
           \/ /\ r \in {CertBox(a, b), CVBox(a, b), FinSBox(a, b)}
              /\ \E s \in Nat : Sealer(r) = <<Hs(a, b, "s2c"), s>>
           \/ \E s \in Nat : 
                 /\ Sealer(r) = <<App(a, b, "s2c"), s>> /\ r.rt = "APPLICATION" /\ r.key = App(a, b, "s2c") /\ r.seq = s
                 /\ Running(c) /\ a = Now(c) => s < Answer(c).size /\ r.inner = Part(Answer(c), s + 1)
<1>1. CASE r = Plain(FrSH(b))
  BY <1>1 DEF Plain
<1>2. CASE r \in {CertBox(a, b), CVBox(a, b), FinSBox(a, b)}
  <2>1. \A k, n, f : Sealer(Box(k, n, f)) = <<k, n>>
    BY DEF Box, Sealer
  <2> QED BY <1>2, <2>1 DEF CertBox, CVBox, FinSBox
<1>3. CASE \E s \in Nat :
          /\ r.rt = "APPLICATION" /\ r.key = App(a, b, "s2c") /\ r.seq = s
          /\ Running(c) /\ a = Now(c) => s < Answer(c).size /\ r.inner = Part(Answer(c), s + 1)
  BY <1>3 DEF Sealer
<1> QED BY <1>1, <1>2, <1>3 DEF SrvSays

\* What it says can be on its way to the client, if the hello names the session it has.
LEMMA SaidArrives ==
    ASSUME NEW c \in Client, NEW a \in ClientEph, NEW b \in ServerEph, NEW r, SrvSays(c, a, b, r),
           UNCHANGED <<conf, cliVars>>, Linked(c)' => b = st'.eph /\ st'.peer = Now(c)'
    PROVE  DownRec(c, r)'
<1>1. CASE r = Plain(FrSH(b))
  BY <1>1 DEF DownRec, DownHello
<1>2. CASE r \in {CertBox(a, b), CVBox(a, b), FinSBox(a, b)}
  BY <1>2 DEF DownRec, DownHs
<1>3. CASE \E s \in Nat :
          /\ r.rt = "APPLICATION" /\ r.key = App(a, b, "s2c") /\ r.seq = s
          /\ Running(c) /\ a = Now(c) => s < Answer(c).size /\ r.inner = Part(Answer(c), s + 1)
  <2>1. PICK s \in Nat :
          /\ r.rt = "APPLICATION" /\ r.key = App(a, b, "s2c") /\ r.seq = s
          /\ Running(c) /\ a = Now(c) => s < Answer(c).size /\ r.inner = Part(Answer(c), s + 1)
    BY <1>3
  <2>2. Answer(c)' = Answer(c) /\ Now(c)' = Now(c) /\ (Running(c)' <=> Running(c))
    BY SameAnswer DEF Now, Running, cliVars
  <2>3. Running(c)' /\ a = Now(c)' => s < Answer(c)'.size /\ r.inner = Part(Answer(c)', s + 1)
    BY <2>1, <2>2
  <2> QED BY <2>1, <2>3 DEF DownRec, DownApp
<1> QED BY <1>1, <1>2, <1>3 DEF SrvSays

\* The server leaves: icsp_data_send has failed.
LEMMA SendFails ==
    ASSUME IndInv, NEW r, SrvTakes(r), NEW c \in Client, c = sa, NEW a \in ClientEph, NEW b \in ServerEph, b = st.eph,
           NEW out, IsSeq(out), Fresh(out), \A q \in In(out) : SrvSays(c, a, b, q),
           NEW n \in 0 .. Len(out) - 1, AssocFail(SubSeq(out, 1, n)), Seals(SubSeq(out, 1, n + 1)),
           UNCHANGED <<conf, cliVars>>, happened \subseteq happened'
    PROVE  IndInv'
<1> DEFINE p == SubSeq(out, 1, n)
           w == SubSeq(out, 1, n + 1)
<1>1. n \in 0 .. Len(out) /\ n + 1 \in 0 .. Len(out)
  BY DEF IsSeq
<1>2. IsSeq(p) /\ In(p) \subseteq In(out) /\ IsSeq(w) /\ In(w) \subseteq In(out) /\ Fresh(w)
  BY <1>1, FreshPrefix
<1>3. AssocFail(p) /\ Seals(w)
  OBVIOUS
<1> HIDE DEF p, w
<1>4. srv' = "accept" /\ st'.eph[2] > associations /\ associations' = associations /\ associations \in Nat /\ b[2] <= associations
  <2>1. srv' = "accept" /\ st' = ServerSession /\ associations' = associations
    BY DEF AssocFail, NextAssociation
  <2>2. st'.eph = <<NoClient, associations + 1>> /\ associations \in Nat
    BY <2>1, NewSession DEF ServerSession, IndInv, Types
  <2>3. b[2] <= associations
    BY DEF IndInv, ServerInv, SrvTakes
  <2> QED BY <2>1, <2>2, <2>3
<1>5. ASSUME NEW q \in In(p) PROVE DownRec(c, q)'
  BY <1>2, <1>4, <1>5, SaidArrives DEF Linked
<1>6. ASSUME NEW q \in In(w) PROVE SrvBox(q)'
  <2>1. b # st'.eph /\ b[2] <= associations'
    BY <1>4, EphsDiffer
  <2>2. SrvSays(c, a, b, q)
    BY <1>2, <1>6
  <2>3. CASE \E s \in Nat : Sealer(q) = <<Hs(a, b, "s2c"), s>>
    BY <2>1, <2>3 DEF SrvBox, SrvHsBox
  <2>4. CASE \E s \in Nat : Sealer(q) = <<App(a, b, "s2c"), s>>
    BY <2>1, <2>4 DEF SrvBox, SrvAppBox
  <2>5. CASE q.rt = "HANDSHAKE"
    BY <2>5 DEF SrvBox
  <2> QED BY <2>2, <2>3, <2>4, <2>5, SaidKinds
<1>7. \E o : IsSeq(o) /\ toCli' = Shut(Sent(toCli, c, "cli", o), c) /\ \A q \in In(o) : DownRec(c, q)'
  BY <1>2, <1>3, <1>5 DEF AssocFail
<1>8. \E o : IsSeq(o) /\ Fresh(o) /\ Seals(o) /\ \A q \in In(o) : SrvBox(q)'
  BY <1>2, <1>3, <1>6
<1> QED BY <1>3, <1>7, <1>8, ServerLeaves DEF SrvTakes, AssocFail

\* The server goes on in the session of a and b.
LEMMA ServerGoesOn ==
    ASSUME IndInv, NEW r, SrvTakes(r), NEW c \in Client, c = sa, NEW a \in ClientEph, NEW b \in ServerEph, b = st.eph,
           Past(a), Running(c) => a = Now(c), S1(st', a, b) \/ S2(st', a, b),
           st.state = "DONE" => st'.state = "DONE" /\ st'.sseq >= st.sseq,
           NEW out, IsSeq(out), \A q \in In(out) : SrvSays(c, a, b, q),
           \A q \in In(out) : q.rt = "APPLICATION" /\ q.key = App(a, b, "s2c") => st'.state = "DONE" /\ q.seq < st'.sseq,
           toSrv' = SrvHas, DOMAIN toCli' = Client, \A d \in Client \ {c} : toCli'[d] = toCli[d],
           IsSeq(toCli'[c]), In(toCli'[c]) \subseteq In(toCli[c]) \cup In(out),
           UNCHANGED <<conf, cliVars, srv, sa, associations, stalled, happened>>,
           UNCHANGED <<boxes, seals>> \/ (Seals(out) /\ Fresh(out)),
           Link(c)', Count(c)'
    PROVE  IndInv'
<1>1. Types /\ ServerInv /\ (\A d \in Client : ClientInv(d)) /\ BoxInv /\ srv = "serving" /\ toSrv[c] # <<>>
  BY DEF IndInv, SrvTakes
<1>2. IsSeq(toSrv[c]) /\ IsSeq(toCli[c]) /\ cst[c] # "start"
  BY <1>1 DEF ClientInv, Queue
<1>3. st'.eph = b /\ st'.peer = a /\ st'.state \in {"WAIT_FIN", "DONE"} /\ st'.sseq \in Nat
  BY DEF S1, SH1, S2, Server
<1>4. toSrv'[c] = Tail(toSrv[c]) /\ DOMAIN toSrv' = Client /\ \A d \in Client \ {c} : toSrv'[d] = toSrv[d]
  BY <1>1 DEF Types, SrvHas
<1>5. IsSeq(toSrv'[c]) /\ In(toSrv'[c]) \subseteq In(toSrv[c])
  BY <1>1, <1>2, <1>4, HeadGone
<1>6. Types'
  BY <1>1, <1>4 DEF Types, Calm, cliVars
<1>7. \A d \in Client \ {c} : Untouched(d) /\ ~Linked(d)'
  BY <1>4 DEF Untouched, Linked, cliVars
<1>8. \A d \in Client : Older(d) /\ KeepsSeals(d) /\ GoesOn(d) /\ Now(d)' = Now(d) /\ (Running(d)' <=> Running(d))
  BY DEF Older, KeepsSeals, GoesOn, Running, Now, cliVars
<1>9. StandsFor(c)
  BY <1>1, <1>3, <1>8 DEF StandsFor, Linked
<1>10. Answer(c)' = Answer(c) /\ (Fits(c)' <=> Fits(c))
  BY SameAnswer DEF Fits, cliVars
<1>11. Queue(c)'
  <2>1. \A q \in In(toSrv'[c]) : UpRec(c, q)'
    BY <1>1, <1>5, <1>8, UpStays DEF ClientInv, Queue
  <2>2. ASSUME NEW q \in In(toCli'[c]) PROVE DownRec(c, q)'
    <3>1. CASE q \in In(toCli[c])
      BY <1>1, <1>8, <1>9, <3>1, DownStays DEF ClientInv, Queue
    <3>2. CASE q \in In(out)
      <4>1. Linked(c)' => b = st'.eph /\ st'.peer = Now(c)'
        BY <1>3, <1>8 DEF Linked
      <4> QED BY <3>2, <4>1, SaidArrives
    <3> QED BY <2>2, <3>1, <3>2
  <2>3. cst'[c] # "start"
    BY <1>2 DEF cliVars
  <2> QED BY <1>5, <2>1, <2>2, <2>3 DEF Queue
<1>12. Shape(c)'
  BY <1>1, <1>8, <1>10 DEF ClientInv, Shape, CliAt, cliVars
<1>13. Got(c)'
  BY <1>1, <1>10 DEF ClientInv, Got, cliVars
<1>14. ClientInv(c)'
  BY <1>11, <1>12, <1>13 DEF ClientInv
<1>15. \A d \in Client : ClientInv(d)'
  BY <1>1, <1>7, <1>14, Others
<1>16. ServerInv' /\ ServerKeepsSeals
  <2>1. Past(a)'
    BY <1>1, <1>8, PastStays, EphsDiffer
  <2>2. st'.eph[2] <= associations' /\ associations' \in Nat /\ sa' \in Client /\ srv' = "serving"
    BY <1>1, <1>3 DEF ServerInv, Types
  <2>3. ServerInv'
    BY <2>1, <2>2 DEF ServerInv
  <2>4. st.state = "DONE" => st.sseq \in Nat
    BY <1>1 DEF ServerInv, S0, S1, S2
  <2> QED BY <1>3, <2>2, <2>3, <2>4 DEF ServerKeepsSeals, Types
<1>17. ASSUME NEW q \in In(out) PROVE SrvBox(q)'
  <2>1. b[2] <= associations' /\ st'.state # "INIT" /\ SrvSays(c, a, b, q)
    BY <1>1, <1>3, <1>17 DEF ServerInv
  <2>2. CASE \E s \in Nat : Sealer(q) = <<Hs(a, b, "s2c"), s>>
    BY <2>1, <2>2 DEF SrvBox, SrvHsBox
  <2>3. CASE \E s \in Nat : Sealer(q) = <<App(a, b, "s2c"), s>> /\ q.rt = "APPLICATION" /\ q.key = App(a, b, "s2c") /\ q.seq = s
    <3>1. PICK s \in Nat : Sealer(q) = <<App(a, b, "s2c"), s>> /\ q.rt = "APPLICATION" /\ q.key = App(a, b, "s2c") /\ q.seq = s
      BY <2>3
    <3>2. st'.state = "DONE" /\ s < st'.sseq
      BY <1>17, <3>1
    <3> QED BY <2>1, <3>1, <3>2 DEF SrvBox, SrvAppBox
  <2>4. CASE q.rt = "HANDSHAKE"
    BY <2>4 DEF SrvBox
  <2> QED BY <2>1, <2>2, <2>3, <2>4, SaidKinds
<1>18. BoxInv'
  <2>1. CASE UNCHANGED <<boxes, seals>>
    BY <1>1, <1>8, <1>16, <2>1, BoxesKept
  <2>2. CASE Seals(out) /\ Fresh(out)
    BY <1>1, <1>8, <1>16, <1>17, <2>2, BoxesAdded DEF SrvBox
  <2> QED BY <2>1, <2>2
<1> QED BY <1>6, <1>15, <1>16, <1>18 DEF IndInv

-----------------------------------------------------------------------------
(* The server's handshake.                                                   *)

\* The last record of a sequence.
LEMMA LastOne ==
    ASSUME NEW S, NEW q \in Seq(S), NEW x \in S, NEW n \in Nat, Len(q) = n, NEW p, p = Append(q, x)
    PROVE  p \in Seq(S) /\ Len(p) = n + 1 /\ DOMAIN p = 1 .. n + 1 /\ p[n + 1] = x /\ \A i \in 1 .. n : p[i] = q[i]
OBVIOUS

\* The flight is four records that the server may say.
LEMMA FlightOut ==
    ASSUME NEW a, NEW b
    PROVE  LET out == ServerOut(a, b) IN
           /\ IsSeq(out) /\ Len(out) = 4 /\ DOMAIN out = 1 .. 4
           /\ In(out) = {Plain(FrSH(b)), CertBox(a, b), CVBox(a, b), FinSBox(a, b)}
           /\ out[1] = Plain(FrSH(b)) /\ out[2] = CertBox(a, b) /\ out[3] = CVBox(a, b) /\ out[4] = FinSBox(a, b)
<1> DEFINE w == Plain(FrSH(b))
           x == CertBox(a, b)
           y == CVBox(a, b)
           z == FinSBox(a, b)
           out == ServerOut(a, b)
<1>1. out = Append(Append(Append(Append(<<>>, w), x), y), z)
  BY DEF ServerOut
<1> HIDE DEF w, x, y, z, out
<1> DEFINE S == {w, x, y, z}
           q2 == Append(Append(<<>>, w), x)
           q3 == Append(q2, y)
<1>2. w \in S /\ x \in S /\ y \in S /\ z \in S
  OBVIOUS
<1> HIDE DEF S
<1>3. q2 \in Seq(S) /\ Len(q2) = 2 /\ q2[1] = w /\ q2[2] = x
  BY <1>2
<1> HIDE DEF q2
<1>4. q3 \in Seq(S) /\ Len(q3) = 3 /\ q3[1] = w /\ q3[2] = x /\ q3[3] = y
  <2>0. q3 = Append(q2, y) /\ 2 \in Nat
    OBVIOUS
  <2> HIDE DEF q3
  <2>1. q3 \in Seq(S) /\ Len(q3) = 2 + 1 /\ q3[2 + 1] = y /\ \A i \in 1 .. 2 : q3[i] = q2[i]
    BY ONLY <1>2, <1>3, <2>0, LastOne
  <2> QED BY <1>3, <2>1
<1> HIDE DEF q3
<1>5. out = Append(q3, z)
  BY <1>1 DEF q2, q3
<1>6. out \in Seq(S) /\ Len(out) = 4 /\ DOMAIN out = 1 .. 4 /\ out[1] = w /\ out[2] = x /\ out[3] = y /\ out[4] = z
  <2>1. /\ out \in Seq(S) /\ Len(out) = 3 + 1 /\ DOMAIN out = 1 .. 3 + 1 /\ out[3 + 1] = z /\ \A i \in 1 .. 3 : out[i] = q3[i]
    BY ONLY <1>2, <1>4, <1>5, LastOne, 3 \in Nat
  <2> QED BY <1>4, <2>1
<1>7. In(out) = S
  BY <1>6 DEF In, S
<1> QED BY <1>6, <1>7 DEF IsSeq, S, w, x, y, z, out

\* What has not been sealed with yet.
LEMMA NotYet ==
    ASSUME BoxInv, NEW a \in ClientEph, NEW b \in ServerEph, b = st.eph, NEW s \in Nat
    PROVE  /\ st.state = "INIT" => <<Hs(a, b, "s2c"), s>> \notin boxes
           /\ st.sseq \in Nat /\ s >= st.sseq => <<App(a, b, "s2c"), s>> \notin boxes
<1>1. "s2c" # "c2s"
  OBVIOUS
<1>2. ASSUME <<Hs(a, b, "s2c"), s>> \in boxes PROVE st.state # "INIT"
  <2> DEFINE x == <<Hs(a, b, "s2c"), s>>
  <2>1. x[1] = Hs(a, b, "s2c") /\ (SrvHsBox(x) \/ SrvAppBox(x) \/ CliBox(x))
    BY <1>2 DEF BoxInv
  <2> HIDE DEF x
  <2>2. ~SrvAppBox(x)
    BY <2>1, KeysDiffer DEF SrvAppBox
  <2>3. ~CliBox(x)
    BY <1>1, <2>1, KeysDiffer DEF CliBox
  <2>4. SrvHsBox(x)
    BY <2>1, <2>2, <2>3
  <2> QED BY <2>1, <2>4, KeysDiffer DEF SrvHsBox
<1>3. ASSUME <<App(a, b, "s2c"), s>> \in boxes, st.sseq \in Nat, s >= st.sseq PROVE FALSE
  <2> DEFINE x == <<App(a, b, "s2c"), s>>
  <2>1. x[1] = App(a, b, "s2c") /\ x[2] = s /\ (SrvHsBox(x) \/ SrvAppBox(x) \/ CliBox(x))
    BY <1>3 DEF BoxInv
  <2> HIDE DEF x
  <2>2. ~SrvHsBox(x)
    BY <2>1, KeysDiffer DEF SrvHsBox
  <2>3. ~CliBox(x)
    BY <1>1, <2>1, KeysDiffer DEF CliBox
  <2>4. SrvAppBox(x)
    BY <2>1, <2>2, <2>3
  <2>5. PICK a1 \in ClientEph, b1 \in ServerEph, s1 \in Nat :
           x = <<App(a1, b1, "s2c"), s1>> /\ (b1 = st.eph => s1 < st.sseq)
    BY <2>4 DEF SrvAppBox
  <2>6. b1 = b /\ s1 = s
    BY <2>1, <2>5, KeysDiffer
  <2> QED BY <1>3, <2>5, <2>6
<1> QED BY <1>2, <1>3

\* And they are new.
LEMMA FlightFresh ==
    ASSUME BoxInv, NEW a \in ClientEph, NEW b \in ServerEph, b = st.eph, st.state = "INIT"
    PROVE  Fresh(ServerOut(a, b))
<1> DEFINE out == ServerOut(a, b)
           k == Hs(a, b, "s2c")
<1>1. DOMAIN out = 1 .. 4 /\ out[1] = Plain(FrSH(b)) /\ out[2] = CertBox(a, b) /\ out[3] = CVBox(a, b) /\ out[4] = FinSBox(a, b)
  BY FlightOut
<1> HIDE DEF out
<1>2. /\ out[1].rt = "HANDSHAKE"
      /\ Sealer(out[2]) = <<k, 0>> /\ Sealer(out[3]) = <<k, 1>> /\ Sealer(out[4]) = <<k, 2>>
  BY <1>1 DEF Plain, Sealer, CertBox, CVBox, FinSBox, Box
<1>3. \A s \in Nat : <<k, s>> \notin boxes
  BY NotYet
<1> HIDE DEF k
<1>4. SealedRecs(out) \subseteq {2, 3, 4}
  BY <1>1, <1>2 DEF SealedRecs
<1>5. \A i \in {2, 3, 4} : Sealer(out[i]) = <<k, i - 2>> /\ i - 2 \in Nat
  BY <1>2
<1> QED BY <1>3, <1>4, <1>5 DEF Fresh, out

\* A ClientHello starts the session of the fetch that sent it.
LEMMA StepHello ==
    ASSUME IndInv, NEW r, SrvTakes(r), NEW c \in Client, c = sa, st.state = "INIT", btls_feed_ok(st, r),
           NEW x \in Flight(btls_feed(st, r)), SrvSends(x, idle), UNCHANGED <<conf, cliVars>>
    PROVE  IndInv'
<1>1. Types /\ ServerInv /\ ClientInv(c) /\ BoxInv /\ srv = "serving" /\ toSrv[c] # <<>> /\ r = Head(toSrv[c])
  BY DEF IndInv, SrvTakes
<1>2. PICK b \in ServerEph : S0(st, b)
  BY <1>1 DEF ServerInv, S1, S2
<1>3. b = st.eph /\ st.peer = <<>>
  BY <1>2 DEF S0, Server
<1>4. IsSeq(toSrv[c]) /\ IsSeq(toCli[c]) /\ UpRec(c, r)
  <2>1. IsSeq(toSrv[c]) /\ IsSeq(toCli[c])
    BY <1>1 DEF ClientInv, Queue
  <2> QED BY <1>1, <2>1, HeadGone DEF ClientInv, Queue
<1>5. UpHello(c, r)
  BY <1>2, <1>4, OpensHello
<1>6. PICK n \in Nat : r = Plain(FrCH(<<c, n>>)) /\ Past(<<c, n>>) /\ (Running(c) => n = runs[c])
  BY <1>5 DEF UpHello
<1> DEFINE a == <<c, n>>
           out == ServerOut(a, b)
<1>7. a \in ClientEph /\ Past(a) /\ (Running(c) => a = Now(c)) /\ r = Plain(FrCH(a))
  BY <1>6 DEF ClientEph, Now
<1> HIDE DEF a
<1>8. S1(x.t, a, b) /\ x.out = out
  BY <1>2, <1>7, ServerFlight
<1>9. IsSeq(out) /\ Len(out) = 4 /\ In(out) = {Plain(FrSH(b)), CertBox(a, b), CVBox(a, b), FinSBox(a, b)}
  BY FlightOut
<1>10. Fresh(out)
  BY <1>1, <1>3, <1>7, FlightFresh
<1>11. \A q \in In(out) : SrvSays(c, a, b, q)
  BY <1>9 DEF SrvSays
<1> HIDE DEF out
<1>12. CASE /\ toSrv' = SrvHas /\ toCli' = Sent(toCli, sa, "cli", x.out) /\ st' = x.t /\ Seals(x.out)
            /\ UNCHANGED <<srv, sa, win, associations, stalled, happened>>
  <2>1. toCli' = Sent(toCli, c, "cli", out) /\ Seals(out) /\ S1(st', a, b) /\ toSrv' = SrvHas
    BY <1>8, <1>12
  <2>2. /\ DOMAIN toCli' = Client /\ \A d \in Client \ {c} : toCli'[d] = toCli[d]
        /\ IsSeq(toCli'[c]) /\ In(toCli'[c]) \subseteq In(toCli[c]) \cup In(out)
        /\ Calm => In(toCli'[c]) = In(toCli[c]) \cup In(out) /\ Len(toCli'[c]) = Len(toCli[c]) + Len(out)
    <3> DEFINE p == Sent(toCli, c, "cli", out)
    <3>1. /\ DOMAIN p = Client /\ \A d \in Client \ {c} : p[d] = toCli[d]
          /\ IsSeq(p[c]) /\ In(p[c]) \subseteq In(toCli[c]) \cup In(out)
          /\ Calm => In(p[c]) = In(toCli[c]) \cup In(out) /\ Len(p[c]) = Len(toCli[c]) + Len(out)
      BY <1>1, <1>4, <1>9, SentDown
    <3> HIDE DEF p
    <3>2. toCli' = p
      BY <2>1 DEF p
    <3> QED BY <3>1, <3>2
  <2>3. toSrv'[c] = Tail(toSrv[c])
    BY <1>1, <2>1 DEF Types, SrvHas
  <2>4. st'.state = "WAIT_FIN" /\ st'.eph = b /\ st'.peer = a
    BY <2>1 DEF S1, SH1, Server
  <2>5. ct' = ct /\ cst' = cst /\ Now(c)' = Now(c) /\ (Running(c)' <=> Running(c)) /\ (Linked(c)' <=> Linked(c)) /\ (Calm' <=> Calm)
    BY <1>12 DEF cliVars, Now, Running, Linked, Calm
  <2>6. Linked(c) => ct[c].state = "CH_SENT" /\ ct[c].want = "SH"
    <3>1. ASSUME Linked(c) PROVE ct[c].state = "CH_SENT"
      BY <1>1, <1>3, <3>1 DEF ClientInv, Link, Now
    <3>2. ASSUME Linked(c) PROVE ct[c].want = "SH"
      BY <1>1, <3>1, <3>2 DEF ClientInv, Shape, CliAt, C0, C1, C2, C3, C4, CH1, Linked
    <3> QED BY <3>1, <3>2
  <2>7. Link(c)'
    BY <2>4, <2>5, <2>6 DEF Link
  <2>8. Count(c)'
    <3>1. ASSUME Calm, Linked(c)
          PROVE  /\ SHUTDOWN \notin In(toSrv'[c]) \cup In(toCli'[c])
                 /\ Len(toSrv'[c]) = 0 /\ Len(toCli'[c]) = 4
      <4>1. /\ SHUTDOWN \notin In(toSrv[c]) \cup In(toCli[c]) /\ Len(toSrv[c]) = 1 /\ Len(toCli[c]) = 0
        BY <1>1, <3>1 DEF ClientInv, Count
      <4>2. SHUTDOWN \notin In(out)
        BY <1>9 DEF SHUTDOWN, Plain, CertBox, CVBox, FinSBox, Box
      <4>3. In(toSrv'[c]) \subseteq In(toSrv[c]) /\ Len(toSrv'[c]) = 0
        BY <1>1, <1>4, <2>3, <4>1, HeadGone
      <4> QED BY <1>9, <2>2, <3>1, <4>1, <4>2, <4>3
    <3>2. Linked(c) => ct'[c].state # "DONE" /\ Ahead(ct'[c]) = 4
      BY <2>5, <2>6 DEF Ahead
    <3>3. Calm' /\ Linked(c)' => 
            /\ SHUTDOWN \notin In(toSrv'[c]) \cup In(toCli'[c])
            /\ Len(toSrv'[c]) = 0 /\ Len(toCli'[c]) = Ahead(ct'[c]) /\ ct'[c].state # "DONE"
      BY <2>5, <3>1, <3>2
    <3> QED BY <2>4, <3>3 DEF Count
  <2>9. \A q \in In(out) : ~(q.rt = "APPLICATION" /\ q.key = App(a, b, "s2c"))
    <3>1. Hs(a, b, "s2c") # App(a, b, "s2c")
      BY <1>7, KeysDiffer
    <3> QED BY <1>9, <3>1 DEF Plain, CertBox, CVBox, FinSBox, Box
  <2> QED BY <1>3, <1>7, <1>9, <1>10, <1>11, <1>12, <2>1, <2>2, <2>7, <2>8, <2>9, ServerGoesOn
<1>13. CASE Happens("send") /\ \E k \in 0 .. Len(x.out) - 1 : AssocFail(SubSeq(x.out, 1, k)) /\ Seals(SubSeq(x.out, 1, k + 1))
  <2>1. PICK k \in 0 .. Len(out) - 1 : AssocFail(SubSeq(out, 1, k)) /\ Seals(SubSeq(out, 1, k + 1))
    BY <1>8, <1>13
  <2>2. happened \subseteq happened'
    BY <1>13 DEF Happens, Records
  <2> QED BY <1>3, <1>7, <1>9, <1>10, <1>11, <2>1, <2>2, SendFails
<1> QED BY <1>12, <1>13 DEF SrvSends

\* The queue to a client after the server has said out: all of it is there while nothing is lost.
LEMMA ToldDown ==
    ASSUME Types, NEW c \in Client, IsSeq(toCli[c]), NEW out, IsSeq(out), toCli' = Sent(toCli, c, "cli", out)
    PROVE  /\ DOMAIN toCli' = Client /\ \A d \in Client \ {c} : toCli'[d] = toCli[d]
           /\ IsSeq(toCli'[c]) /\ In(toCli'[c]) \subseteq In(toCli[c]) \cup In(out)
           /\ Calm => In(toCli'[c]) = In(toCli[c]) \cup In(out) /\ Len(toCli'[c]) = Len(toCli[c]) + Len(out)
<1> DEFINE p == Sent(toCli, c, "cli", out)
<1>1. /\ DOMAIN p = Client /\ \A d \in Client \ {c} : p[d] = toCli[d]
      /\ IsSeq(p[c]) /\ In(p[c]) \subseteq In(toCli[c]) \cup In(out)
      /\ Calm => In(p[c]) = In(toCli[c]) \cup In(out) /\ Len(p[c]) = Len(toCli[c]) + Len(out)
  BY SentDown
<1> HIDE DEF p
<1>2. toCli' = p
  BY DEF p
<1> QED BY <1>1, <1>2

\* A server that does not wait for the ClientHello shares keys with a fetch.
LEMMA Peered ==
    ASSUME ServerInv, st.state # "INIT"
    PROVE  \E b \in ServerEph, a \in ClientEph : Past(a) /\ b = st.eph /\ a = st.peer
                  /\ \/ st.state = "WAIT_FIN" /\ S1(st, a, b)
                     \/ st.state = "DONE" /\ S2(st, a, b)
BY DEF ServerInv, S0, S1, SH1, S2, Server

\* What the server takes is the client's.
LEMMA TakenUp ==
    ASSUME IndInv, NEW r, SrvTakes(r), NEW c \in Client, c = sa
    PROVE  /\ Types /\ ServerInv /\ ClientInv(c) /\ BoxInv /\ srv = "serving" /\ toSrv[c] # <<>> /\ r = Head(toSrv[c])
           /\ IsSeq(toSrv[c]) /\ IsSeq(toCli[c]) /\ UpRec(c, r)
           /\ IsSeq(Tail(toSrv[c])) /\ In(Tail(toSrv[c])) \subseteq In(toSrv[c]) /\ Len(Tail(toSrv[c])) = Len(toSrv[c]) - 1
           /\ Len(toSrv[c]) \in Nat
           /\ toSrv' = SrvHas => toSrv'[c] = Tail(toSrv[c])
<1>1. Types /\ ServerInv /\ ClientInv(c) /\ BoxInv /\ srv = "serving" /\ toSrv[c] # <<>> /\ r = Head(toSrv[c])
  BY DEF IndInv, SrvTakes
<1>2. IsSeq(toSrv[c]) /\ IsSeq(toCli[c])
  BY <1>1 DEF ClientInv, Queue
<1>3. /\ IsSeq(Tail(toSrv[c])) /\ In(Tail(toSrv[c])) \subseteq In(toSrv[c]) /\ Len(Tail(toSrv[c])) = Len(toSrv[c]) - 1
      /\ Len(toSrv[c]) \in Nat /\ r \in In(toSrv[c])
  BY <1>1, <1>2, HeadGone
<1>4. UpRec(c, r)
  BY <1>1, <1>3 DEF ClientInv, Queue
<1>5. toSrv' = SrvHas => toSrv'[c] = Tail(toSrv[c])
  BY <1>1 DEF Types, SrvHas
<1> QED BY <1>1, <1>2, <1>3, <1>4, <1>5

\* The client's Finished ends the handshake.
LEMMA StepFin ==
    ASSUME IndInv, NEW r, SrvTakes(r), NEW c \in Client, c = sa, st.state = "WAIT_FIN", btls_feed_ok(st, r),
           NEW x \in Flight(btls_feed(st, r)), SrvSends(x, idle), UNCHANGED <<conf, cliVars>>
    PROVE  IndInv'
<1>1. Types /\ ServerInv /\ ClientInv(c) /\ srv = "serving" /\ IsSeq(toCli[c]) /\ UpRec(c, r)
  BY TakenUp
<1>2. PICK b \in ServerEph, a \in ClientEph : Past(a) /\ b = st.eph /\ a = st.peer /\ S1(st, a, b)
  BY <1>1, Peered
<1>3. r = FinCBox(a, b) /\ (Running(c) => a = Now(c) /\ ct[c].state = "DONE")
  BY <1>1, <1>2, OpensFinished
<1>4. S2(x.t, a, b) /\ x.t.sseq = 0 /\ x.t.rseq = 0 /\ x.t.rx = <<>> /\ x.out = <<>>
  BY <1>2, <1>3, ServerFinished
<1>5. IsSeq(<<>>) /\ In(<<>>) = {} /\ Len(<<>>) = 0
  BY NoRecords
<1>6. /\ toSrv' = SrvHas /\ toCli' = Sent(toCli, c, "cli", <<>>) /\ st' = x.t /\ Seals(<<>>)
      /\ UNCHANGED <<srv, sa, win, associations, stalled, happened>>
  <2>1. 0 .. Len(x.out) - 1 = {}
    BY <1>4, <1>5
  <2> QED BY <1>4, <2>1 DEF SrvSends
<1>7. /\ DOMAIN toCli' = Client /\ \A d \in Client \ {c} : toCli'[d] = toCli[d]
      /\ IsSeq(toCli'[c]) /\ In(toCli'[c]) \subseteq In(toCli[c])
      /\ Calm => Len(toCli'[c]) = Len(toCli[c]) + 0
  BY <1>1, <1>5, <1>6, ToldDown
<1>8. /\ toSrv'[c] = Tail(toSrv[c]) /\ In(Tail(toSrv[c])) \subseteq In(toSrv[c]) /\ Len(Tail(toSrv[c])) = Len(toSrv[c]) - 1
      /\ Len(toSrv[c]) \in Nat
  BY <1>6, TakenUp
<1>9. Fresh(<<>>)
  BY DEF Fresh, SealedRecs
<1>10. st'.state = "DONE" /\ st'.eph = b /\ st'.peer = a /\ st'.sseq = 0 /\ st'.rseq = 0 /\ st'.rx = <<>> /\ S2(st', a, b)
  BY <1>4, <1>6 DEF S2, Server
<1>11. /\ ct' = ct /\ cst' = cst /\ req' = req /\ Now(c)' = Now(c) /\ (Running(c)' <=> Running(c))
       /\ (Linked(c)' <=> Linked(c)) /\ (Calm' <=> Calm)
  BY <1>6 DEF cliVars, Now, Running, Linked, Calm
<1>12. req[c].size \in Nat
  BY <1>1 DEF Types
<1>13. Linked(c) => ct[c].state = "DONE" /\ ct[c].want = "none" /\ ct[c].sseq \in Nat /\ ct[c].peer = b /\ st.peer = Now(c)
  <2>1. ASSUME Linked(c) PROVE ct[c].state = "DONE" /\ ct[c].peer = b /\ st.peer = Now(c)
    BY <1>1, <1>2, <1>3, <2>1 DEF Linked, ClientInv, Link
  <2>2. ASSUME Linked(c) PROVE ct[c].want = "none" /\ ct[c].sseq \in Nat
    BY <1>1, <2>1, <2>2, AtDone DEF Linked, C4
  <2> QED BY <2>1, <2>2
<1>14. Link(c)'
  <2>1. FirstParts(req[c], 0) = <<>>
    BY <1>12, NextPart
  <2>2. 0 < req[c].size \/ 0 = req[c].size
    BY <1>12
  <2>3. Linked(c) => ct[c].state = "DONE" /\ ct[c].peer = b /\ a = Now(c)
    BY <1>2, <1>13
  <2> QED BY <1>10, <1>11, <2>1, <2>2, <2>3 DEF Link
<1>15. Count(c)'
  <2>1. ASSUME Calm, Linked(c)
        PROVE  /\ SHUTDOWN \notin In(toSrv'[c]) \cup In(toCli'[c])
               /\ Len(toSrv'[c]) = ct[c].sseq /\ Len(toCli'[c]) = 0 /\ ct[c].rseq = 0
    <3>1. /\ SHUTDOWN \notin In(toSrv[c]) \cup In(toCli[c])
          /\ Len(toSrv[c]) = 1 + ct[c].sseq /\ Len(toCli[c]) = Ahead(ct[c]) /\ ct[c].rseq = 0
      BY <1>1, <1>13, <2>1 DEF ClientInv, Count
    <3>2. Ahead(ct[c]) = 0
      BY <1>13, <2>1 DEF Ahead
    <3>3. SHUTDOWN \notin In(toSrv'[c]) \cup In(toCli'[c])
      BY <1>7, <1>8, <3>1
    <3>4. Len(toSrv'[c]) = ct[c].sseq
      BY <1>8, <1>13, <2>1, <3>1
    <3>5. Len(toCli'[c]) = 0
      BY <1>7, <2>1, <3>1, <3>2
    <3> QED BY <3>1, <3>3, <3>4, <3>5
  <2>2. ASSUME Calm', Linked(c)'
        PROVE  /\ SHUTDOWN \notin In(toSrv'[c]) \cup In(toCli'[c])
               /\ st'.rseq + Len(toSrv'[c]) = ct'[c].sseq /\ ct'[c].rseq + Len(toCli'[c]) = st'.sseq
    BY <1>10, <1>11, <1>13, <2>1, <2>2
  <2> QED BY <1>10, <2>2 DEF Count
<1>16. In(toCli'[c]) \subseteq In(toCli[c]) \cup In(<<>>)
  BY <1>7
<1>17. /\ \A q \in In(<<>>) : SrvSays(c, a, b, q)
       /\ \A q \in In(<<>>) : q.rt = "APPLICATION" /\ q.key = App(a, b, "s2c") => st'.state = "DONE" /\ q.seq < st'.sseq
  BY <1>5
<1>18. UNCHANGED <<boxes, seals>> \/ (Seals(<<>>) /\ Fresh(<<>>))
  BY <1>6, <1>9
<1>19. Running(c) => a = Now(c)
  BY <1>3
<1>20. st.state = "DONE" => st'.state = "DONE" /\ st'.sseq >= st.sseq
  OBVIOUS
<1> QED BY <1>2, <1>5, <1>6, <1>7, <1>10, <1>14, <1>15, <1>16, <1>17, <1>18, <1>19, <1>20, ServerGoesOn

\* The server and a record of the handshake.
LEMMA StepSrvHandshake == ASSUME IndInv, NEW r, SrvHandshake(r) PROVE IndInv'
<1>1. PICK c \in Client : c = sa
  BY DEF IndInv, ServerInv, SrvHandshake, SrvTakes
<1>2. SrvTakes(r) /\ UNCHANGED <<conf, cliVars>> /\ st.state # "DONE"
  BY DEF SrvHandshake
<1>3. CASE ~btls_feed_ok(st, r)
  <2>1. AssocFail(<<>>) /\ UNCHANGED history
    BY <1>3 DEF SrvHandshake
  <2> QED BY <1>2, <2>1, Fails DEF history
<1>4. CASE btls_feed_ok(st, r)
  <2>1. PICK x \in Flight(btls_feed(st, r)) : SrvSends(x, idle)
    BY <1>4 DEF SrvHandshake
  <2>2. st.state = "INIT" \/ st.state = "WAIT_FIN"
    BY <1>2, Peered DEF IndInv
  <2> QED BY <1>1, <1>2, <1>4, <2>1, <2>2, StepHello, StepFin
<1> QED BY <1>3, <1>4

-----------------------------------------------------------------------------
(* The server and a request.                                                 *)

\* A part that the server takes from the fetch it has an association with: the next one.
LEMMA NextAsked ==
    ASSUME IndInv, NEW r, SrvTakes(r), NEW c \in Client, c = sa, NEW a \in ClientEph, NEW b \in ServerEph,
           b = st.eph, a = st.peer, S2(st, a, b), btls_recv_app_ok(st, r)
    PROVE  /\ Running(c) => a = Now(c)
           /\ Running(c) => /\ st.rx = FirstParts(req[c], st.rseq) /\ st.rseq < req[c].size /\ st.sseq = 0
                            /\ r.inner = Part(req[c], st.rseq + 1) /\ ct[c].state = "DONE" /\ ct[c].peer = b
                            /\ r.inner.more = (st.rseq + 1 < req[c].size)
<1>1. Types /\ ServerInv /\ ClientInv(c) /\ srv = "serving" /\ UpRec(c, r)
  BY TakenUp
<1>2. Running(c) => a = Now(c) /\ st.rseq < req[c].size /\ r.inner = Part(req[c], st.rseq + 1)
  BY <1>1, OpensRequest
<1>3. req[c].size \in Nat /\ st.rseq \in Nat /\ st.state = "DONE"
  BY <1>1 DEF Types, S2
<1>4. ASSUME Running(c)
      PROVE  st.rx = FirstParts(req[c], st.rseq) /\ st.sseq = 0 /\ ct[c].state = "DONE" /\ ct[c].peer = b
  <2>1. Linked(c) /\ st.peer = Now(c)
    BY <1>1, <1>2, <1>4 DEF Linked
  <2>2. /\ ct[c].state # "CH_SENT" => ct[c].peer = st.eph
        /\ ct[c].state = "DONE"
        /\ \/ st.rx = FirstParts(req[c], st.rseq) /\ st.rseq < req[c].size /\ st.sseq = 0
           \/ st.rx = <<>> /\ st.rseq = req[c].size
    BY <1>1, <1>3, <2>1 DEF ClientInv, Link
  <2>3. st.rseq # req[c].size
    BY <1>2, <1>3, <1>4
  <2> QED BY <2>2, <2>3
<1>5. ASSUME Running(c) PROVE r.inner.more = (st.rseq + 1 < req[c].size)
  <2>1. st.rseq < req[c].size => Part(req[c], st.rseq + 1).more = (st.rseq + 1 < req[c].size)
    BY <1>3, NextPart
  <2> QED BY <1>2, <1>5, <2>1
<1> QED BY <1>2, <1>4, <1>5

\* One that is not the last is kept.
LEMMA StepMoreAsked ==
    ASSUME IndInv, NEW r, SrvTakes(r), NEW c \in Client, c = sa, st.state = "DONE", btls_recv_app_ok(st, r), r.inner.more,
           toSrv' = SrvHas, st' = btls_recv_app(st, r),
           UNCHANGED <<srv, sa, idle, win, associations, toCli, stalled, history>>, UNCHANGED <<conf, cliVars>>
    PROVE  IndInv'
<1>1. Types /\ ServerInv /\ ClientInv(c) /\ srv = "serving" /\ IsSeq(toCli[c]) /\ UpRec(c, r)
  BY TakenUp
<1>2. PICK b \in ServerEph, a \in ClientEph : Past(a) /\ b = st.eph /\ a = st.peer /\ S2(st, a, b)
  BY <1>1, Peered
<1>3. /\ Running(c) => a = Now(c)
      /\ Running(c) => /\ st.rx = FirstParts(req[c], st.rseq) /\ st.rseq < req[c].size /\ st.sseq = 0
                       /\ r.inner = Part(req[c], st.rseq + 1) /\ ct[c].state = "DONE" /\ ct[c].peer = b
                       /\ r.inner.more = (st.rseq + 1 < req[c].size)
  BY <1>2, NextAsked
<1>4. st.rseq \in Nat /\ st.sseq \in Nat /\ req[c].size \in Nat
  BY <1>1, <1>2 DEF S2, Types
<1>5. Same(st, st', {"rseq", "rx"}) /\ st'.rseq = st.rseq + 1 /\ st'.rx = Append(st.rx, r.inner)
  BY <1>2, TakesPart DEF S2, Server
<1>6. /\ IsSession(st') /\ st'.role = st.role /\ st'.pub = st.pub /\ st'.eph = st.eph /\ st'.state = st.state /\ st'.epoch = st.epoch
      /\ st'.peer = st.peer /\ st'.th = st.th /\ st'.send = st.send /\ st'.recv = st.recv /\ st'.sseq = st.sseq
  BY <1>5 DEF Same, Fields
<1>7. S2(st', a, b)
  <2>1. st'.rseq \in Nat /\ st'.sseq \in Nat
    BY <1>4, <1>5, <1>6
  <2> QED BY <1>2, <1>6, <2>1 DEF S2, Server
<1>8. /\ DOMAIN toCli' = Client /\ \A d \in Client \ {c} : toCli'[d] = toCli[d]
      /\ IsSeq(toCli'[c]) /\ In(toCli'[c]) \subseteq In(toCli[c]) \cup In(<<>>)
  BY <1>1 DEF Types
<1>9. /\ toSrv'[c] = Tail(toSrv[c]) /\ In(Tail(toSrv[c])) \subseteq In(toSrv[c]) /\ Len(Tail(toSrv[c])) = Len(toSrv[c]) - 1
      /\ Len(toSrv[c]) \in Nat
  BY TakenUp
<1>10. /\ ct' = ct /\ cst' = cst /\ req' = req /\ Now(c)' = Now(c) /\ (Running(c)' <=> Running(c))
       /\ (Linked(c)' <=> Linked(c)) /\ (Calm' <=> Calm)
  BY DEF cliVars, history, Now, Running, Linked, Calm
<1>11. Linked(c) => st.peer = Now(c)
  BY <1>2, <1>3 DEF Linked
<1>12. Link(c)'
  <2>1. Running(c) => st'.rx = FirstParts(req[c], st'.rseq) /\ st'.rseq < req[c].size /\ st'.sseq = 0
    <3>1. Append(FirstParts(req[c], st.rseq), Part(req[c], st.rseq + 1)) = FirstParts(req[c], st.rseq + 1)
      BY <1>4, NextPart
    <3> QED BY <1>3, <1>5, <1>6, <3>1
  <2>2. Linked(c) => ct[c].state = "DONE" /\ ct[c].peer = st'.eph /\ st'.peer = Now(c)
    BY <1>2, <1>3, <1>6, <1>11 DEF Linked
  <2> QED BY <1>10, <2>1, <2>2 DEF Link, Linked
<1>13. Count(c)'
  <2>1. ASSUME Calm, Linked(c)
        PROVE  /\ SHUTDOWN \notin In(toSrv'[c]) \cup In(toCli'[c])
               /\ st'.rseq + Len(toSrv'[c]) = ct[c].sseq /\ ct[c].rseq + Len(toCli'[c]) = st'.sseq
    <3>1. /\ SHUTDOWN \notin In(toSrv[c]) \cup In(toCli[c])
          /\ st.rseq + Len(toSrv[c]) = ct[c].sseq /\ ct[c].rseq + Len(toCli[c]) = st.sseq
      BY <1>1, <1>11, <2>1 DEF ClientInv, Count
    <3>2. st'.rseq + Len(toSrv'[c]) = st.rseq + Len(toSrv[c])
      BY <1>4, <1>5, <1>9
    <3>3. SHUTDOWN \notin In(toSrv'[c]) \cup In(toCli'[c])
      BY <1>9, <3>1
    <3> QED BY <1>6, <3>1, <3>2, <3>3
  <2>2. ASSUME Calm', Linked(c)'
        PROVE  /\ SHUTDOWN \notin In(toSrv'[c]) \cup In(toCli'[c])
               /\ st'.rseq + Len(toSrv'[c]) = ct'[c].sseq /\ ct'[c].rseq + Len(toCli'[c]) = st'.sseq
    BY <1>10, <2>1, <2>2
  <2> QED BY <1>6, <2>2 DEF Count
<1>14. IsSeq(<<>>) /\ In(<<>>) = {}
  BY NoRecords
<1>15. /\ \A q \in In(<<>>) : SrvSays(c, a, b, q)
       /\ \A q \in In(<<>>) : q.rt = "APPLICATION" /\ q.key = App(a, b, "s2c") => st'.state = "DONE" /\ q.seq < st'.sseq
  BY <1>14
<1>16. UNCHANGED <<boxes, seals>> /\ happened' = happened
  BY DEF history
<1>17. st.state = "DONE" => st'.state = "DONE" /\ st'.sseq >= st.sseq
  BY <1>4, <1>6
<1>18. Running(c) => a = Now(c)
  BY <1>3
<1> QED BY <1>2, <1>7, <1>8, <1>12, <1>13, <1>14, <1>15, <1>16, <1>17, <1>18, ServerGoesOn

\* The records of a message, in the server's session.
LEMMA Replies ==
    ASSUME BoxInv, NEW c, NEW a \in ClientEph, NEW b \in ServerEph, b = st.eph, st.sseq \in Nat, NEW m, m.size \in Nat,
           NEW out, IsSeq(out), Len(out) = m.size,
           \A i \in 1 .. m.size : out[i] = Box(App(a, b, "s2c"), st.sseq + i - 1, Part(m, i)),
           Running(c) => m = Answer(c) /\ st.sseq = 0
    PROVE  /\ Fresh(out) /\ \A q \in In(out) : SrvSays(c, a, b, q)
           /\ \A q \in In(out) : q.seq < st.sseq + m.size /\ q # SHUTDOWN
<1> DEFINE k == App(a, b, "s2c")
<1>1. DOMAIN out = 1 .. m.size
  BY DEF IsSeq
<1>2. ASSUME NEW i \in 1 .. m.size
      PROVE  /\ out[i].rt = "APPLICATION" /\ out[i].key = k /\ out[i].seq = st.sseq + i - 1 /\ out[i].inner = Part(m, i)
             /\ Sealer(out[i]) = <<k, st.sseq + i - 1>> /\ st.sseq + i - 1 \in Nat /\ st.sseq + i - 1 >= st.sseq
             /\ st.sseq + i - 1 < st.sseq + m.size
  <2>1. out[i] = Box(k, st.sseq + i - 1, Part(m, i))
    OBVIOUS
  <2>2. st.sseq + i - 1 \in Nat /\ st.sseq + i - 1 >= st.sseq /\ st.sseq + i - 1 < st.sseq + m.size
    OBVIOUS
  <2> HIDE DEF k
  <2> QED BY <2>1, <2>2 DEF Box, Sealer
<1>3. ASSUME NEW i \in 1 .. m.size PROVE Sealer(out[i]) \notin boxes
  BY <1>2, <1>3, NotYet
<1>4. ASSUME NEW i \in 1 .. m.size PROVE SrvSays(c, a, b, out[i])
  <2>1. Running(c) => st.sseq + i - 1 < Answer(c).size /\ out[i].inner = Part(Answer(c), st.sseq + i - 1 + 1)
    <3>1. ASSUME Running(c) PROVE st.sseq + i - 1 = i - 1 /\ st.sseq + i - 1 + 1 = i /\ i - 1 < m.size
      BY <3>1
    <3> QED BY <1>2, <3>1
  <2> QED BY <1>2, <2>1 DEF SrvSays
<1> HIDE DEF k
<1>5. Fresh(out)
  <2>1. SealedRecs(out) \subseteq 1 .. m.size
    BY <1>1 DEF SealedRecs
  <2>2. ASSUME NEW i \in 1 .. m.size, NEW j \in 1 .. m.size, Sealer(out[i]) = Sealer(out[j]) PROVE i = j
    <3>1. st.sseq + i - 1 = st.sseq + j - 1
      BY <1>2, <2>2
    <3> QED BY <3>1
  <2> QED BY <1>3, <2>1, <2>2 DEF Fresh
<1>6. \A q \in In(out) : \E i \in 1 .. m.size : q = out[i]
  BY <1>1 DEF In
<1>7. \A q \in In(out) : q.seq < st.sseq + m.size /\ q # SHUTDOWN
  BY <1>2, <1>6 DEF SHUTDOWN
<1> QED BY <1>4, <1>5, <1>6, <1>7

\* The last one: the request is answered.
LEMMA StepReply ==
    ASSUME IndInv, NEW r, SrvTakes(r), NEW c \in Client, c = sa, st.state = "DONE", btls_recv_app_ok(st, r), ~r.inner.more,
           NEW u, u = btls_recv_app(st, r), NEW m, m = Reply(Reassembled(st, r)), NEW y, y = btls_send_app(u, m),
           SrvSends(y, RespIdle), UNCHANGED <<conf, cliVars>>
    PROVE  IndInv'
<1>1. Types /\ ServerInv /\ ClientInv(c) /\ BoxInv /\ srv = "serving" /\ IsSeq(toCli[c]) /\ UpRec(c, r)
  BY TakenUp
<1>2. PICK b \in ServerEph, a \in ClientEph : Past(a) /\ b = st.eph /\ a = st.peer /\ S2(st, a, b)
  BY <1>1, Peered
<1>3. /\ Running(c) => a = Now(c)
      /\ Running(c) => /\ st.rx = FirstParts(req[c], st.rseq) /\ st.rseq < req[c].size /\ st.sseq = 0
                       /\ r.inner = Part(req[c], st.rseq + 1) /\ ct[c].state = "DONE" /\ ct[c].peer = b
                       /\ r.inner.more = (st.rseq + 1 < req[c].size)
  BY <1>2, NextAsked
<1>4. st.rseq \in Nat /\ st.sseq \in Nat /\ req[c].size \in Nat /\ m.size \in Nat
  BY <1>1, <1>2, SizeOfReply DEF S2, Types
<1>5. Running(c) => m = Answer(c) /\ st.rseq + 1 = req[c].size
  <2>1. ASSUME Running(c) PROVE st.rseq + 1 = req[c].size
    <3>1. ~(st.rseq + 1 < req[c].size) /\ st.rseq < req[c].size
      BY <1>3, <2>1
    <3> QED BY <1>4, <3>1
  <2>2. ASSUME Running(c) PROVE Reassembled(st, r) = Parts(req[c])
    <3>1. /\ Append(FirstParts(req[c], st.rseq), Part(req[c], st.rseq + 1)) = FirstParts(req[c], st.rseq + 1)
          /\ FirstParts(req[c], req[c].size) = Parts(req[c])
      BY <1>4, AddPart, AllParts
    <3> QED BY <1>3, <2>1, <2>2, <3>1 DEF Reassembled
  <2> QED BY <2>1, <2>2 DEF Answer
<1>6. Same(st, u, {"rseq", "rx"}) /\ u.rseq = st.rseq + 1 /\ u.rx = <<>>
  BY <1>2, TakesPart DEF S2, Server
<1>7. /\ IsSession(u) /\ u.role = st.role /\ u.pub = st.pub /\ u.eph = st.eph /\ u.state = st.state /\ u.epoch = st.epoch
      /\ u.peer = st.peer /\ u.th = st.th /\ u.send = st.send /\ u.recv = st.recv /\ u.sseq = st.sseq
  BY <1>6 DEF Same, Fields
<1> DEFINE t == y.t
           out == y.out
<1>8. /\ Same(u, t, {"sseq"}) /\ t.sseq = st.sseq + m.size
      /\ IsSeq(out) /\ Len(out) = m.size
      /\ \A i \in 1 .. m.size : out[i] = Box(u.send, u.sseq + i - 1, Part(m, i))
  <2> DEFINE z == btls_send_app(u, m)
  <2>1. u.sseq \in Nat
    BY <1>4, <1>7
  <2>2. /\ Same(u, z.t, {"sseq"}) /\ z.t.sseq = u.sseq + m.size
        /\ IsSeq(z.out) /\ Len(z.out) = m.size
        /\ \A i \in 1 .. m.size : z.out[i] = Box(u.send, u.sseq + i - 1, Part(m, i))
    BY <1>4, <1>7, <2>1, SendsParts
  <2>3. z = y
    OBVIOUS
  <2> HIDE DEF z
  <2> QED BY <1>7, <2>2, <2>3
<1> HIDE DEF t, out
<1>9. /\ IsSession(t) /\ t.role = st.role /\ t.pub = st.pub /\ t.eph = st.eph /\ t.state = st.state /\ t.epoch = st.epoch
      /\ t.peer = st.peer /\ t.th = st.th /\ t.send = st.send /\ t.recv = st.recv /\ t.rseq = st.rseq + 1 /\ t.rx = <<>>
  BY <1>6, <1>7, <1>8 DEF Same, Fields
<1>10. S2(t, a, b) /\ st.send = App(a, b, "s2c")
  <2>1. t.rseq \in Nat /\ t.sseq \in Nat
    BY <1>4, <1>8, <1>9
  <2> QED BY <1>2, <1>9, <2>1 DEF S2, Server
<1>11. IsSeq(out)
  BY <1>8
<1>12. \A i \in 1 .. m.size : out[i] = Box(App(a, b, "s2c"), st.sseq + i - 1, Part(m, i))
  BY <1>7, <1>8, <1>10
<1>13. /\ Fresh(out) /\ \A q \in In(out) : SrvSays(c, a, b, q)
       /\ \A q \in In(out) : q.seq < t.sseq /\ q # SHUTDOWN
  <2>1. Running(c) => m = Answer(c) /\ st.sseq = 0
    BY <1>3, <1>5
  <2>2. Len(out) = m.size /\ t.sseq = st.sseq + m.size
    BY <1>8
  <2>3. /\ Fresh(out) /\ \A q \in In(out) : SrvSays(c, a, b, q)
        /\ \A q \in In(out) : q.seq < st.sseq + m.size /\ q # SHUTDOWN
    <3>1. BoxInv /\ a \in ClientEph /\ b \in ServerEph /\ b = st.eph /\ st.sseq \in Nat /\ m.size \in Nat
      BY <1>1, <1>2, <1>4
    <3> QED BY ONLY <1>11, <1>12, <2>1, <2>2, <3>1, Replies
  <2> QED BY <2>2, <2>3
<1>14. CASE /\ toSrv' = SrvHas /\ toCli' = Sent(toCli, sa, "cli", y.out) /\ st' = y.t /\ Seals(y.out)
            /\ UNCHANGED <<srv, sa, win, associations, stalled, happened>>
  <2>1. toCli' = Sent(toCli, c, "cli", out) /\ Seals(out) /\ st' = t /\ S2(st', a, b) /\ toSrv' = SrvHas
    BY <1>10, <1>14 DEF t, out
  <2>2. /\ DOMAIN toCli' = Client /\ \A d \in Client \ {c} : toCli'[d] = toCli[d]
        /\ IsSeq(toCli'[c]) /\ In(toCli'[c]) \subseteq In(toCli[c]) \cup In(out)
        /\ Calm => In(toCli'[c]) = In(toCli[c]) \cup In(out) /\ Len(toCli'[c]) = Len(toCli[c]) + m.size
    BY <1>1, <1>8, <1>11, <2>1, ToldDown
  <2>3. /\ toSrv'[c] = Tail(toSrv[c]) /\ In(Tail(toSrv[c])) \subseteq In(toSrv[c]) /\ Len(Tail(toSrv[c])) = Len(toSrv[c]) - 1
        /\ Len(toSrv[c]) \in Nat
    BY <2>1, TakenUp
  <2>4. /\ ct' = ct /\ cst' = cst /\ req' = req /\ Now(c)' = Now(c) /\ (Running(c)' <=> Running(c))
        /\ (Linked(c)' <=> Linked(c)) /\ (Calm' <=> Calm)
    BY <1>14 DEF cliVars, Now, Running, Linked, Calm
  <2>5. st'.state = "DONE" /\ st'.peer = a /\ st'.eph = b /\ st'.rseq = st.rseq + 1 /\ st'.rx = <<>> /\ st'.sseq = st.sseq + m.size
    BY <1>2, <1>8, <1>9, <2>1
  <2>6. Linked(c) => st.peer = Now(c) /\ ct[c].state = "DONE" /\ ct[c].peer = b /\ st.rseq + 1 = req[c].size
    BY <1>2, <1>3, <1>5 DEF Linked
  <2>7. Link(c)'
    BY <1>2, <2>4, <2>5, <2>6 DEF Link
  <2>8. Count(c)'
    <3>1. ASSUME Calm, Linked(c)
          PROVE  /\ SHUTDOWN \notin In(toSrv'[c]) \cup In(toCli'[c])
                 /\ st'.rseq + Len(toSrv'[c]) = ct[c].sseq /\ ct[c].rseq + Len(toCli'[c]) = st'.sseq
      <4>1. /\ SHUTDOWN \notin In(toSrv[c]) \cup In(toCli[c])
            /\ st.rseq + Len(toSrv[c]) = ct[c].sseq /\ ct[c].rseq + Len(toCli[c]) = st.sseq
        BY <1>1, <2>6, <3>1, st.state = "DONE" DEF ClientInv, Count
      <4>2. st'.rseq + Len(toSrv'[c]) = st.rseq + Len(toSrv[c])
        BY <1>4, <2>3, <2>5
      <4>3. ct[c].rseq + Len(toCli'[c]) = st'.sseq
        <5>1. ct[c].rseq \in Nat /\ Len(toCli[c]) \in Nat
          BY <1>1, <2>6, <3>1, AtDone DEF Linked, IsSeq
        <5>2. ct[c].rseq + (Len(toCli[c]) + m.size) = (ct[c].rseq + Len(toCli[c])) + m.size
          BY <1>4, <5>1
        <5> QED BY <2>2, <2>5, <3>1, <4>1, <5>2
      <4>4. SHUTDOWN \notin In(toSrv'[c]) \cup In(toCli'[c])
        BY <1>13, <2>2, <2>3, <4>1
      <4> QED BY <4>1, <4>2, <4>3, <4>4
    <3>2. ASSUME Calm', Linked(c)'
          PROVE  /\ SHUTDOWN \notin In(toSrv'[c]) \cup In(toCli'[c])
                 /\ st'.rseq + Len(toSrv'[c]) = ct'[c].sseq /\ ct'[c].rseq + Len(toCli'[c]) = st'.sseq
      BY <2>4, <3>1, <3>2
    <3> QED BY <2>5, <3>2 DEF Count
  <2>9. \A q \in In(out) : q.rt = "APPLICATION" /\ q.key = App(a, b, "s2c") => st'.state = "DONE" /\ q.seq < st'.sseq
    BY <1>13, <2>1, <2>5
  <2>10. st.state = "DONE" => st'.state = "DONE" /\ st'.sseq >= st.sseq
    BY <1>4, <2>5
  <2>11. Running(c) => a = Now(c)
    BY <1>3
  <2> QED BY <1>2, <1>11, <1>13, <1>14, <2>1, <2>2, <2>7, <2>8, <2>9, <2>10, <2>11, ServerGoesOn
<1>15. CASE Happens("send") /\ \E k \in 0 .. Len(y.out) - 1 : AssocFail(SubSeq(y.out, 1, k)) /\ Seals(SubSeq(y.out, 1, k + 1))
  <2>1. PICK k \in 0 .. Len(out) - 1 : AssocFail(SubSeq(out, 1, k)) /\ Seals(SubSeq(out, 1, k + 1))
    BY <1>15 DEF out
  <2>2. happened \subseteq happened'
    BY <1>15 DEF Happens, Records
  <2> QED BY <1>2, <1>11, <1>13, <2>1, <2>2, SendFails
<1> QED BY <1>14, <1>15 DEF SrvSends

\* The server and a part of a request.
LEMMA StepSrvRequest == ASSUME IndInv, NEW r, SrvRequest(r) PROVE IndInv'
<1> DEFINE u == btls_recv_app(st, r)
           m == Reply(Reassembled(st, r))
<1>1. PICK c \in Client : c = sa
  BY DEF IndInv, ServerInv, SrvRequest, SrvTakes
<1>2. SrvTakes(r) /\ UNCHANGED <<conf, cliVars>> /\ st.state = "DONE"
  BY DEF SrvRequest
<1>3. CASE ~btls_recv_app_ok(st, r)
  <2>1. AssocFail(<<>>) /\ UNCHANGED history
    BY <1>3 DEF SrvRequest
  <2> QED BY <1>2, <2>1, Fails DEF history
<1>4. CASE btls_recv_app_ok(st, r) /\ r.inner.more
  <2>1. toSrv' = SrvHas /\ st' = u /\ UNCHANGED <<srv, sa, idle, win, associations, toCli, stalled, history>>
    BY <1>4 DEF SrvRequest
  <2> QED BY <1>1, <1>2, <1>4, <2>1, StepMoreAsked
<1>5. CASE btls_recv_app_ok(st, r) /\ ~r.inner.more
  <2>1. \/ SrvSends(btls_send_app(u, m), RespIdle)
        \/ Happens("doc") /\ AssocFail(<<>>) /\ UNCHANGED <<boxes, seals>>
    BY <1>5 DEF SrvRequest
  <2> HIDE DEF u, m
  <2>2. CASE SrvSends(btls_send_app(u, m), RespIdle)
    BY <1>1, <1>2, <1>5, <2>2, StepReply DEF u, m
  <2>3. CASE Happens("doc") /\ AssocFail(<<>>) /\ UNCHANGED <<boxes, seals>>
    <3>1. happened \subseteq happened'
      BY <2>3 DEF Happens, Records
    <3> QED BY <1>2, <2>3, <3>1, Fails
  <2> QED BY <2>1, <2>2, <2>3
<1> QED BY <1>3, <1>4, <1>5

-----------------------------------------------------------------------------
(* A client's handshake.                                                     *)

\* What the client takes is the server's.
LEMMA TakenDown ==
    ASSUME IndInv, NEW c \in Client, NEW r, CliTakes(c, r)
    PROVE  /\ Types /\ ServerInv /\ ClientInv(c) /\ BoxInv /\ Running(c) /\ toCli[c] # <<>> /\ runs[c] \in Nat
           /\ IsSeq(toSrv[c]) /\ IsSeq(toCli[c]) /\ DownRec(c, r) /\ CliAt(c, ct[c])
           /\ IsSeq(Tail(toCli[c])) /\ In(Tail(toCli[c])) \subseteq In(toCli[c]) /\ Len(Tail(toCli[c])) = Len(toCli[c]) - 1
           /\ Len(toCli[c]) \in Nat /\ Len(toCli[c]) # 0
           /\ Now(c) \in ClientEph /\ Past(Now(c))
           /\ toCli' = CliHas(c) => /\ toCli'[c] = Tail(toCli[c]) /\ DOMAIN toCli' = Client
                                    /\ \A d \in Client \ {c} : toCli'[d] = toCli[d]
<1>1. Types /\ ServerInv /\ ClientInv(c) /\ BoxInv /\ Running(c) /\ toCli[c] # <<>> /\ r = Head(toCli[c]) /\ runs[c] \in Nat
  BY DEF IndInv, CliTakes, Running, Types
<1>2. IsSeq(toSrv[c]) /\ IsSeq(toCli[c])
  BY <1>1 DEF ClientInv, Queue
<1>3. /\ IsSeq(Tail(toCli[c])) /\ In(Tail(toCli[c])) \subseteq In(toCli[c]) /\ Len(Tail(toCli[c])) = Len(toCli[c]) - 1
      /\ Len(toCli[c]) \in Nat /\ r \in In(toCli[c])
  BY <1>1, <1>2, HeadGone
<1>4. DownRec(c, r) /\ CliAt(c, ct[c])
  BY <1>1, <1>3 DEF ClientInv, Queue, Shape
<1>5. Now(c) \in ClientEph /\ Past(Now(c))
  <2>1. Now(c) \in ClientEph /\ Now(c)[1] = c /\ Now(c)[2] = runs[c]
    BY <1>1 DEF Now, ClientEph
  <2> QED BY <1>1, <2>1 DEF Past, Running
<1>6. Len(toCli[c]) # 0
  <2>1. Len(Tail(toCli[c])) \in Nat
    BY <1>3 DEF IsSeq
  <2> QED BY <1>3, <2>1
<1>7. toCli' = CliHas(c) => /\ toCli'[c] = Tail(toCli[c]) /\ DOMAIN toCli' = Client
                            /\ \A d \in Client \ {c} : toCli'[d] = toCli[d]
  BY <1>1 DEF Types, CliHas
<1> QED BY <1>1, <1>2, <1>3, <1>4, <1>5, <1>6, <1>7

\* The client goes on, having said out.
LEMMA ClientGoesOn ==
    ASSUME IndInv, NEW c \in Client, NEW r, CliTakes(c, r), toCli' = CliHas(c), ct[c].state # "DONE",
           NEW u, ct' = [ct EXCEPT ![c] = u], NEW out, IsSeq(out), Fresh(out), Seals(out), toSrv' = Sent(toSrv, c, "srv", out),
           UNCHANGED <<conf, srvVars, cst, req, left, result, runs, stalled, happened>>,
           CliAt(c, u), u.state # "CH_SENT",
           Linked(c) => u.peer = st.eph /\ st.peer = Now(c),
           Ahead(u) = Ahead(ct[c]) - 1, Ahead(ct[c]) \in Nat,
           u.state = "DONE" => u.rseq = 0,
           Len(out) = IF u.state = "DONE" THEN 1 + u.sseq ELSE 0,
           \A q \in In(out) : q # SHUTDOWN /\ UpRec(c, q)' /\ CliBox(Sealer(q))'
    PROVE  IndInv'
<1>1. /\ Types /\ ServerInv /\ ClientInv(c) /\ BoxInv /\ Running(c) /\ toCli[c] # <<>> /\ runs[c] \in Nat
      /\ IsSeq(toSrv[c]) /\ IsSeq(toCli[c])
      /\ IsSeq(Tail(toCli[c])) /\ In(Tail(toCli[c])) \subseteq In(toCli[c]) /\ Len(Tail(toCli[c])) = Len(toCli[c]) - 1
      /\ Len(toCli[c]) \in Nat /\ Len(toCli[c]) # 0
      /\ toCli'[c] = Tail(toCli[c]) /\ DOMAIN toCli' = Client /\ \A d \in Client \ {c} : toCli'[d] = toCli[d]
  BY TakenDown
<1>2. ct'[c] = u /\ DOMAIN ct' = Client /\ \A d \in Client \ {c} : ct'[d] = ct[d]
  BY <1>1 DEF Types
<1>3. /\ DOMAIN toSrv' = Client /\ \A d \in Client \ {c} : toSrv'[d] = toSrv[d]
      /\ IsSeq(toSrv'[c]) /\ In(toSrv'[c]) \subseteq In(toSrv[c]) \cup In(out)
      /\ Calm => In(toSrv'[c]) = In(toSrv[c]) \cup In(out) /\ Len(toSrv'[c]) = Len(toSrv[c]) + Len(out)
  BY <1>1, SentUp
<1>4. Types'
  BY <1>1, <1>2, <1>3 DEF Types, srvVars, Calm
<1>5. \A d \in Client \ {c} : Untouched(d)
  BY <1>1, <1>2, <1>3 DEF Untouched
<1>6. Now(c)' = Now(c) /\ Answer(c)' = Answer(c) /\ (Fits(c)' <=> Fits(c)) /\ (Running(c)' <=> Running(c))
      /\ (Linked(c)' <=> Linked(c)) /\ st' = st /\ (Calm' <=> Calm)
  BY SameAnswer DEF Now, Fits, Running, Linked, srvVars, Calm
<1>7. Older(c) /\ GoesOn(c) /\ StandsFor(c) /\ KeepsSeals(c)
  BY <1>1, <1>6 DEF Older, GoesOn, StandsFor, KeepsSeals, Running
<1>8. Queue(c)'
  <2>1. \A q \in In(toSrv'[c]) : UpRec(c, q)'
    BY <1>1, <1>3, <1>7, UpStays DEF ClientInv, Queue
  <2>2. \A q \in In(toCli'[c]) : DownRec(c, q)'
    BY <1>1, <1>7, DownStays DEF ClientInv, Queue
  <2>3. cst'[c] # "start"
    BY <1>1 DEF Running
  <2> QED BY <1>1, <1>3, <2>1, <2>2, <2>3 DEF Queue
<1>9. Shape(c)'
  <2>1. CliAt(c, ct[c])'
    BY <1>2, <1>6 DEF CliAt
  <2> QED BY <1>1, <1>6, <2>1 DEF Shape
<1>10. Linked(c) => ~(st.peer = Now(c) /\ st.state = "DONE")
  BY <1>1 DEF ClientInv, Link
<1>11. Link(c)'
  BY <1>2, <1>6, <1>10 DEF Link
<1>12. Count(c)'
  <2>1. ASSUME Calm, Linked(c)
        PROVE  /\ SHUTDOWN \notin In(toSrv'[c]) \cup In(toCli'[c])
               /\ st.state # "INIT"
               /\ st.peer = Now(c) /\ st.state = "WAIT_FIN" => Len(toSrv'[c]) = Len(out) /\ Len(toCli'[c]) = Ahead(u)
    <3>1. SHUTDOWN \notin In(toSrv[c]) \cup In(toCli[c]) /\ (st.state = "INIT" => Len(toCli[c]) = 0)
      BY <1>1, <2>1 DEF ClientInv, Count
    <3>2. SHUTDOWN \notin In(toSrv'[c]) \cup In(toCli'[c])
      BY <1>1, <1>3, <3>1
    <3>3. ASSUME st.peer = Now(c), st.state = "WAIT_FIN" PROVE Len(toSrv'[c]) = Len(out) /\ Len(toCli'[c]) = Ahead(u)
      <4>1. Len(toSrv[c]) = 0 /\ Len(toCli[c]) = Ahead(ct[c])
        BY <1>1, <2>1, <3>3 DEF ClientInv, Count
      <4>2. Len(toSrv'[c]) = 0 + Len(out) /\ Len(out) \in Nat
        BY <1>3, <2>1, <4>1 DEF IsSeq
      <4>3. Len(toCli'[c]) = Len(toCli[c]) - 1
        BY <1>1
      <4> QED BY <4>1, <4>2, <4>3
    <3> QED BY <1>1, <3>1, <3>2, <3>3
  <2>2. ASSUME Calm', Linked(c)'
        PROVE  /\ SHUTDOWN \notin In(toSrv'[c]) \cup In(toCli'[c])
               /\ st'.state # "INIT" /\ ~(st'.peer = Now(c)' /\ st'.state = "DONE")
               /\ st'.peer = Now(c)' /\ st'.state = "WAIT_FIN" =>
                    /\ Len(toSrv'[c]) = IF ct'[c].state = "DONE" THEN 1 + ct'[c].sseq ELSE 0
                    /\ Len(toCli'[c]) = Ahead(ct'[c])
                    /\ ct'[c].state = "DONE" => ct'[c].rseq = 0
    <3>1. /\ SHUTDOWN \notin In(toSrv'[c]) \cup In(toCli'[c])
          /\ st.state # "INIT" /\ ~(st.peer = Now(c) /\ st.state = "DONE")
          /\ st.peer = Now(c) /\ st.state = "WAIT_FIN" => Len(toSrv'[c]) = Len(out) /\ Len(toCli'[c]) = Ahead(u)
      BY <1>6, <1>10, <2>1, <2>2
    <3> QED BY <1>2, <1>6, <3>1
  <2> QED BY <2>2 DEF Count
<1>13. Got(c)'
  BY <1>1, <1>6 DEF Got, Running
<1>14. ClientInv(c)'
  BY <1>8, <1>9, <1>11, <1>12, <1>13 DEF ClientInv
<1>15. \E o : IsSeq(o) /\ Fresh(o) /\ Seals(o) /\ \A q \in In(o) : CliBox(Sealer(q))'
  OBVIOUS
<1> QED BY <1>4, <1>5, <1>7, <1>14, <1>15, OneClient

\* What client c says once it has finished the handshake with the session b of the server.
CliSays(c, b, r) ==
    \/ r = FinCBox(Now(c), b)
    \/ \E s \in Nat : r = Box(App(Now(c), b, "c2s"), s, Part(req[c], s + 1)) /\ s < req[c].size

\* The types of what a client says.
LEMMA CliKinds ==
    ASSUME NEW c, NEW b, NEW r, CliSays(c, b, r)
    PROVE  /\ r # SHUTDOWN
           /\ \E s \in Nat : Sealer(r) \in {<<Hs(Now(c), b, "c2s"), s>>, <<App(Now(c), b, "c2s"), s>>}
<1>1. \A k, n, f : Sealer(Box(k, n, f)) = <<k, n>> /\ Box(k, n, f) # SHUTDOWN
  BY DEF Box, Sealer, SHUTDOWN
<1>2. CASE r = FinCBox(Now(c), b)
  BY <1>1, <1>2 DEF FinCBox
<1>3. CASE \E s \in Nat : r = Box(App(Now(c), b, "c2s"), s, Part(req[c], s + 1)) /\ s < req[c].size
  BY <1>1, <1>3
<1> QED BY <1>2, <1>3 DEF CliSays

\* It is of the fetch that the client is at.
LEMMA CliArrives ==
    ASSUME NEW c \in Client, runs[c] \in Nat, NEW b \in ServerEph, NEW r, CliSays(c, b, r), runs'[c] = runs[c], req'[c] = req[c],
           Running(c)' => ct'[c].state = "DONE"
    PROVE  UpRec(c, r)'
<1>1. Now(c) = <<c, runs[c]>>
  BY DEF Now
<1>2. CASE r = FinCBox(Now(c), b)
  BY <1>1, <1>2 DEF UpRec, UpFin
<1>3. CASE \E s \in Nat : r = Box(App(Now(c), b, "c2s"), s, Part(req[c], s + 1)) /\ s < req[c].size
  <2>1. PICK s \in Nat : r = Box(App(Now(c), b, "c2s"), s, Part(req[c], s + 1)) /\ s < req[c].size
    BY <1>3
  <2>2. r.rt = "APPLICATION" /\ r.key = App(Now(c), b, "c2s") /\ r.seq = s /\ r.inner = Part(req[c], s + 1)
    BY <2>1 DEF Box
  <2>3. Running(c)' => runs[c] = runs'[c] /\ s < req'[c].size /\ r.inner = Part(req'[c], s + 1)
    BY <2>1, <2>2
  <2> QED BY <1>1, <2>2, <2>3 DEF UpRec, UpApp
<1> QED BY <1>2, <1>3 DEF CliSays

\* A record that the client sealed is one of a fetch of its own.
LEMMA CliSeals ==
    ASSUME NEW c \in Client, Now(c) \in ClientEph, Past(Now(c))', NEW b \in ServerEph, NEW r, CliSays(c, b, r),
           runs'[c] = runs[c], Running(c)' => ct'[c].state = "DONE"
    PROVE  CliBox(Sealer(r))'
<1>1. Now(c)' = Now(c) /\ Now(c)[1] = c
  BY DEF Now
<1>2. PICK s \in Nat : Sealer(r) \in {<<Hs(Now(c), b, "c2s"), s>>, <<App(Now(c), b, "c2s"), s>>}
  BY CliKinds
<1>3. ASSUME NEW a, a = Now(c), NEW x, x = Sealer(r) PROVE CliBox(x)'
  <2>1. x \in {<<Hs(a, b, "c2s"), s>>, <<App(a, b, "c2s"), s>>} /\ a \in ClientEph /\ Past(a)' /\ a[1] = c
    BY <1>1, <1>2, <1>3
  <2>2. Running(a[1])' /\ a = Now(a[1])' => ct'[a[1]].state = "DONE"
    BY <2>1
  <2> QED BY <2>1, <2>2 DEF CliBox
<1> QED BY <1>3 DEF Sealer

\* And new: the client has finished no handshake before.
LEMMA CliNotYet ==
    ASSUME BoxInv, NEW c \in Client, Running(c), ct[c].state # "DONE", Now(c) \in ClientEph, NEW b \in ServerEph, NEW s \in Nat
    PROVE  <<Hs(Now(c), b, "c2s"), s>> \notin boxes /\ <<App(Now(c), b, "c2s"), s>> \notin boxes
<1> DEFINE a == Now(c)
<1>1. a \in ClientEph /\ a[1] = c /\ a = Now(a[1]) /\ Running(a[1]) /\ "s2c" # "c2s"
  BY DEF Now
<1>2. ct[a[1]].state # "DONE"
  BY <1>1
<1> HIDE DEF a
<1>3. ASSUME NEW x \in boxes, x[1] = Hs(a, b, "c2s") \/ x[1] = App(a, b, "c2s") PROVE FALSE
  <2>1. SrvHsBox(x) \/ SrvAppBox(x) \/ CliBox(x)
    BY <1>3 DEF BoxInv
  <2>2. ~SrvHsBox(x)
    BY <1>1, <1>3, KeysDiffer DEF SrvHsBox
  <2>3. ~SrvAppBox(x)
    BY <1>1, <1>3, KeysDiffer DEF SrvAppBox
  <2>4. PICK a1 \in ClientEph, b1 \in ServerEph, s1 \in Nat :
           /\ x \in {<<Hs(a1, b1, "c2s"), s1>>, <<App(a1, b1, "c2s"), s1>>}
           /\ Running(a1[1]) /\ a1 = Now(a1[1]) => ct[a1[1]].state = "DONE"
    BY <2>1, <2>2, <2>3 DEF CliBox
  <2>5. a1 = a
    BY <1>1, <1>3, <2>4, KeysDiffer
  <2> QED BY <1>1, <1>2, <2>4, <2>5
<1>4. \A k : <<k, s>>[1] = k
  OBVIOUS
<1> QED BY <1>3, <1>4 DEF a

\* The Finished and the request.
LEMMA CliOut ==
    ASSUME BoxInv, NEW c \in Client, Running(c), ct[c].state # "DONE", Now(c) \in ClientEph, NEW b \in ServerEph,
           req[c].size \in Nat, NEW p, IsSeq(p), Len(p) = req[c].size,
           \A i \in 1 .. req[c].size : p[i] = Box(App(Now(c), b, "c2s"), i - 1, Part(req[c], i)),
           NEW out, out = Append(<<>>, FinCBox(Now(c), b)) \o p
    PROVE  IsSeq(out) /\ Fresh(out) /\ Len(out) = 1 + req[c].size /\ \A q \in In(out) : CliSays(c, b, q)
<1> DEFINE z == FinCBox(Now(c), b)
           k == App(Now(c), b, "c2s")
           h == Hs(Now(c), b, "c2s")
           n == req[c].size
           o == Append(<<>>, z)
<1>1. IsSeq(o) /\ In(o) = {z} /\ Len(o) = 1 /\ o[1] = z /\ o \in Seq({z})
  <2>1. IsSeq(o) /\ In(o) = {} \cup {z} /\ Len(o) = 0 + 1
    BY NoRecords, OneMore
  <2> HIDE DEF z
  <2>2. o[1] = z /\ o \in Seq({z})
    OBVIOUS
  <2> QED BY <2>1, <2>2
<1>2. z = Box(h, 0, FrFinC(Now(c), b)) /\ \A i \in 1 .. n : p[i] = Box(k, i - 1, Part(req[c], i))
  BY DEF FinCBox
<1>3. out = o \o p
  OBVIOUS
<1>4. h # k
  BY KeysDiffer
<1>5. \A s \in Nat : <<h, s>> \notin boxes /\ <<k, s>> \notin boxes
  BY CliNotYet
<1>6. \A q \in {z} \cup {p[i] : i \in 1 .. n} : CliSays(c, b, q)
  <2>1. ASSUME NEW i \in 1 .. n PROVE CliSays(c, b, p[i])
    <3>1. i - 1 \in Nat /\ i - 1 < n /\ p[i] = Box(k, i - 1, Part(req[c], i - 1 + 1))
      BY <1>2
    <3> QED BY <3>1 DEF CliSays
  <2>2. CliSays(c, b, z)
    BY DEF CliSays
  <2> QED BY <2>1, <2>2
<1>7. \A x, m, f : Sealer(Box(x, m, f)) = <<x, m>>
  BY DEF Box, Sealer
<1>8. n \in Nat
  OBVIOUS
<1> HIDE DEF z, k, h, n, o
<1>9. IsSeq(out) /\ In(out) = {z} \cup In(p) /\ Len(out) = 1 + n
  BY <1>1, <1>3, Joined DEF n
<1>10. DOMAIN p = 1 .. n /\ In(p) = {p[i] : i \in 1 .. n}
  BY <1>8 DEF IsSeq, In, n
<1>11. DOMAIN out = 1 .. 1 + n /\ out[1] = z /\ \A i \in 2 .. 1 + n : out[i] = p[i - 1]
  <2> DEFINE S == {z} \cup In(p)
  <2>1. o \in Seq(S) /\ p \in Seq(S) /\ Len(o) = 1 /\ Len(p) = n
    BY <1>1 DEF IsSeq, n
  <2> HIDE DEF S
  <2> QED BY <1>1, <1>3, <1>8, <2>1
<1>12. Sealer(out[1]) = <<h, 0>> /\ \A i \in 2 .. 1 + n : i - 2 \in Nat /\ Sealer(out[i]) = <<k, i - 2>>
  <2>1. Sealer(out[1]) = <<h, 0>>
    BY <1>2, <1>7, <1>11
  <2>2. ASSUME NEW i \in 2 .. 1 + n PROVE i - 2 \in Nat /\ Sealer(out[i]) = <<k, i - 2>>
    <3>1. i - 1 \in 1 .. n /\ i - 1 - 1 = i - 2 /\ i - 2 \in Nat
      BY <1>8
    <3>2. out[i] = Box(k, i - 2, Part(req[c], i - 1))
      BY <1>2, <1>11, <3>1
    <3> QED BY <1>7, <3>1, <3>2
  <2> QED BY <2>1, <2>2
<1>13. Fresh(out)
  <2>1. SealedRecs(out) \subseteq 1 .. 1 + n
    BY <1>11 DEF SealedRecs
  <2>2. ASSUME NEW i \in 1 .. 1 + n, i # 1 PROVE i - 2 \in Nat /\ Sealer(out[i]) = <<k, i - 2>>
    <3>1. i \in 2 .. 1 + n
      BY <1>8, <2>2
    <3> QED BY <1>12, <3>1
  <2>3. ASSUME NEW i \in 1 .. 1 + n PROVE Sealer(out[i]) \notin boxes
    BY <1>5, <1>12, <2>2
  <2>4. ASSUME NEW i \in 1 .. 1 + n, NEW j \in 1 .. 1 + n, Sealer(out[i]) = Sealer(out[j]) PROVE i = j
    <3>1. \A x, y : <<h, x>> # <<k, y>>
      BY <1>4
    <3>2. CASE i = 1 /\ j # 1
      <4>1. Sealer(out[i]) = <<h, 0>> /\ Sealer(out[j]) = <<k, j - 2>>
        BY <1>12, <2>2, <3>2
      <4> QED BY <2>4, <3>1, <4>1
    <3>3. CASE i # 1 /\ j = 1
      <4>1. Sealer(out[j]) = <<h, 0>> /\ Sealer(out[i]) = <<k, i - 2>>
        BY <1>12, <2>2, <3>3
      <4> QED BY <2>4, <3>1, <4>1
    <3>4. CASE i # 1 /\ j # 1
      <4>1. Sealer(out[j]) = <<k, j - 2>> /\ Sealer(out[i]) = <<k, i - 2>>
        BY <2>2, <3>4
      <4>2. \A x, y : <<k, x>> = <<k, y>> => x = y
        OBVIOUS
      <4>3. i - 2 = j - 2
        BY <2>4, <4>1, <4>2
      <4> QED BY <4>3
    <3> QED BY <3>2, <3>3, <3>4
  <2> QED BY <2>1, <2>3, <2>4 DEF Fresh
<1> QED BY <1>6, <1>9, <1>10, <1>13 DEF n

\* icsp_data_send fails at the client.
LEMMA ClientQuits ==
    ASSUME IndInv, NEW c \in Client, NEW r, CliTakes(c, r), toCli' = CliHas(c), Exits(c, "failed"),
           NEW b \in ServerEph, NEW out, IsSeq(out), Fresh(out), \A q \in In(out) : CliSays(c, b, q),
           NEW n \in 0 .. Len(out) - 1, toSrv' = Sent(toSrv, c, "srv", SubSeq(out, 1, n)), Seals(SubSeq(out, 1, n + 1)),
           UNCHANGED <<conf, srvVars, req, left, result, runs, stalled>>, happened \subseteq happened'
    PROVE  IndInv'
<1> DEFINE p == SubSeq(out, 1, n)
           w == SubSeq(out, 1, n + 1)
<1>1. n \in 0 .. Len(out) /\ n + 1 \in 0 .. Len(out)
  BY DEF IsSeq
<1>2. IsSeq(p) /\ In(p) \subseteq In(out) /\ IsSeq(w) /\ In(w) \subseteq In(out) /\ Fresh(w)
  BY <1>1, FreshPrefix
<1>3. toSrv' = Sent(toSrv, c, "srv", p) /\ Seals(w)
  OBVIOUS
<1> HIDE DEF p, w
<1>4. /\ Types /\ ServerInv /\ ClientInv(c) /\ Running(c) /\ runs[c] \in Nat
      /\ IsSeq(toSrv[c]) /\ IsSeq(toCli[c]) /\ IsSeq(toCli'[c]) /\ In(toCli'[c]) \subseteq In(toCli[c])
      /\ DOMAIN toCli' = Client /\ \A d \in Client \ {c} : toCli'[d] = toCli[d]
      /\ Now(c) \in ClientEph /\ Past(Now(c))
  BY TakenDown
<1>5. /\ DOMAIN toSrv' = Client /\ \A d \in Client \ {c} : toSrv'[d] = toSrv[d]
      /\ IsSeq(toSrv'[c]) /\ In(toSrv'[c]) \subseteq In(toSrv[c]) \cup In(p)
  BY <1>2, <1>3, <1>4, SentUp
<1>6. cst'[c] = "failed" /\ ct'[c].state = "INIT" /\ runs'[c] = runs[c] /\ req'[c] = req[c] /\ ~Running(c)'
  BY <1>4, NewSession DEF Types, Exits, NoSession, Running
<1>7. Types'
  BY <1>4, <1>5 DEF Types, Exits, Calm, srvVars
<1>8. \A d \in Client \ {c} : Untouched(d)
  BY <1>4, <1>5 DEF Types, Untouched, Exits
<1>9. \A q \in In(p) : UpRec(c, q)'
  BY <1>2, <1>4, <1>6, CliArrives
<1>10. ClientInv(c)' /\ Older(c) /\ KeepsSeals(c)
  <2>1. \A q \in In(toSrv'[c]) : q \in In(toSrv[c]) \/ UpRec(c, q)'
    BY <1>5, <1>9
  <2> QED BY <1>4, <1>5, <1>6, <2>1, Leaves
<1>11. \A q \in In(w) : CliBox(Sealer(q))'
  <2>1. Past(Now(c))'
    <3>1. Now(c)' = Now(c) /\ Now(c)[1] = c
      BY <1>6 DEF Now
    <3>2. \A a : a = Now(c) => Past(a)'
      BY <1>4, <1>10, <3>1, PastStays
    <3>3. PICK a : a = Now(c)
      OBVIOUS
    <3>4. Past(a)' /\ a = Now(c)'
      BY <3>1, <3>2, <3>3
    <3> QED BY <3>4
  <2> QED BY <1>2, <1>4, <1>6, <2>1, CliSeals
<1>12. \E o : IsSeq(o) /\ Fresh(o) /\ Seals(o) /\ \A q \in In(o) : CliBox(Sealer(q))'
  BY <1>2, <1>3, <1>11
<1> QED BY <1>7, <1>8, <1>10, <1>12, OneClient

\* What CliHandshake does with the session and the records x.
CliSends(c, x) ==
    \/ /\ ct' = [ct EXCEPT ![c] = x.t] /\ toSrv' = Sent(toSrv, c, "srv", x.out)
       /\ Seals(x.out)
       /\ UNCHANGED <<cst, happened>>
    \/ /\ Happens("send") /\ Exits(c, "failed")
       /\ \E n \in 0 .. Len(x.out) - 1 :
             toSrv' = Sent(toSrv, c, "srv", SubSeq(x.out, 1, n)) /\ Seals(SubSeq(x.out, 1, n + 1))

\* A record that the client answers with nothing.
LEMMA StepSilent ==
    ASSUME IndInv, NEW c \in Client, NEW r, CliTakes(c, r), toCli' = CliHas(c), ct[c].state # "DONE",
           NEW y, y.out = <<>>, y.t.state = "HS", CliAt(c, y.t), Linked(c) => y.t.peer = st.eph /\ st.peer = Now(c),
           Ahead(y.t) = Ahead(ct[c]) - 1, Ahead(ct[c]) \in Nat,
           NEW x, x = WithRequest(c, y), CliSends(c, x), UNCHANGED <<conf, srvVars, req, left, result, runs, stalled>>
    PROVE  IndInv'
<1>1. x = y
  BY DEF WithRequest
<1>2. IsSeq(<<>>) /\ In(<<>>) = {} /\ Len(<<>>) = 0 /\ Fresh(<<>>)
  BY NoRecords DEF Fresh, SealedRecs
<1>3. /\ ct' = [ct EXCEPT ![c] = y.t] /\ toSrv' = Sent(toSrv, c, "srv", <<>>) /\ Seals(<<>>)
      /\ UNCHANGED <<cst, happened>>
  <2>1. 0 .. Len(y.out) - 1 = {}
    BY <1>2
  <2> QED BY <1>1, <2>1 DEF CliSends
<1>4. \A q \in In(<<>>) : q # SHUTDOWN /\ UpRec(c, q)' /\ CliBox(Sealer(q))'
  BY <1>2
<1>5. y.t.state # "CH_SENT" /\ y.t.state # "DONE"
  OBVIOUS
<1>6. Len(<<>>) = IF y.t.state = "DONE" THEN 1 + y.t.sseq ELSE 0
  BY <1>2, <1>5
<1>7. UNCHANGED <<conf, srvVars, cst, req, left, result, runs, stalled, happened>>
  BY <1>3
<1> QED BY <1>2, <1>3, <1>4, <1>5, <1>6, <1>7, ClientGoesOn

\* The ServerHello.
LEMMA StepServerHello ==
    ASSUME IndInv, NEW c \in Client, NEW r, CliTakes(c, r), toCli' = CliHas(c), ct[c].state # "DONE",
           C0(ct[c], Now(c), conf.label[c]), btls_feed_ok(ct[c], r),
           NEW y \in Flight(btls_feed(ct[c], r)), NEW x, x = WithRequest(c, y), CliSends(c, x),
           UNCHANGED <<conf, srvVars, req, left, result, runs, stalled>>
    PROVE  IndInv'
<1>1. DownRec(c, r)
  BY TakenDown
<1>2. DownHello(c, r)
  BY <1>1, OpensAnswer
<1>3. PICK b \in ServerEph : r = Plain(FrSH(b)) /\ (Linked(c) => b = st.eph /\ st.peer = Now(c))
  BY <1>2 DEF DownHello
<1>4. C1(y.t, Now(c), b, conf.label[c]) /\ y.out = <<>>
  BY <1>3, ClientHello
<1>5. CliAt(c, y.t) /\ y.t.state = "HS" /\ y.t.peer = b
  BY <1>4 DEF CliAt, C1, CH1
<1>6. Ahead(y.t) = 3 /\ Ahead(ct[c]) = 4
  BY <1>4 DEF Ahead, C0, C1, CH1
<1>7. Ahead(y.t) = Ahead(ct[c]) - 1 /\ Ahead(ct[c]) \in Nat
  BY <1>6
<1>8. Linked(c) => y.t.peer = st.eph /\ st.peer = Now(c)
  BY <1>3, <1>5
<1> QED BY <1>4, <1>5, <1>7, <1>8, StepSilent

\* The client's session and the server's, in the flight.
LEMMA InFlight ==
    ASSUME IndInv, NEW c \in Client, NEW r, CliTakes(c, r), NEW b, NEW want, NEW th, NEW n,
           CH1(ct[c], Now(c), b, conf.label[c], want, th, n), btls_feed_ok(ct[c], r), b \in ServerEph
    PROVE  /\ r \in {CertBox(Now(c), b), CVBox(Now(c), b), FinSBox(Now(c), b)} /\ r.inner.type = want
           /\ want = "CERT" => Fits(c)
           /\ Linked(c) => b = st.eph /\ st.peer = Now(c)
           /\ want = "CERT" => r = CertBox(Now(c), b)
           /\ want = "CV" => r = CVBox(Now(c), b)
           /\ want = "FIN" => r = FinSBox(Now(c), b)
<1>1. DownRec(c, r) /\ Now(c) \in ClientEph /\ ClientInv(c)
  BY TakenDown
<1>2. /\ r \in {CertBox(Now(c), b), CVBox(Now(c), b), FinSBox(Now(c), b)} /\ r.inner.type = want
      /\ want = "CERT" => Fits(c)
  <2> DEFINE a == Now(c)
             t == ct[c]
  <2>1. a \in ClientEph /\ CH1(t, a, b, conf.label[c], want, th, n) /\ DownRec(c, r) /\ btls_feed_ok(t, r)
    BY <1>1
  <2> HIDE DEF a, t
  <2>2. /\ r \in {CertBox(a, b), CVBox(a, b), FinSBox(a, b)} /\ r.inner.type = want
        /\ want = "CERT" => Fits(c)
    BY <2>1, OpensFlight
  <2> QED BY <2>2 DEF a
<1>3. CertBox(Now(c), b).inner.type = "CERT" /\ CVBox(Now(c), b).inner.type = "CV" /\ FinSBox(Now(c), b).inner.type = "FIN"
  BY DEF CertBox, CVBox, FinSBox, Box, FrCert, FrCV, FrFinS
<1>4. Linked(c) => b = st.eph /\ st.peer = Now(c)
  BY <1>1 DEF ClientInv, Link, CH1
<1> QED BY <1>2, <1>3, <1>4

\* The Certificate.
LEMMA StepCertificate ==
    ASSUME IndInv, NEW c \in Client, NEW r, CliTakes(c, r), toCli' = CliHas(c), ct[c].state # "DONE",
           NEW b \in ServerEph, C1(ct[c], Now(c), b, conf.label[c]), btls_feed_ok(ct[c], r),
           NEW y \in Flight(btls_feed(ct[c], r)), NEW x, x = WithRequest(c, y), CliSends(c, x),
           UNCHANGED <<conf, srvVars, req, left, result, runs, stalled>>
    PROVE  IndInv'
<1>1. r = CertBox(Now(c), b) /\ Fits(c) /\ (Linked(c) => b = st.eph /\ st.peer = Now(c))
  BY InFlight DEF C1
<1>2. C2(y.t, Now(c), b, conf.label[c]) /\ y.out = <<>>
  BY <1>1, ClientCert
<1>3. CliAt(c, y.t) /\ y.t.state = "HS" /\ y.t.peer = b
  BY <1>1, <1>2 DEF CliAt, C2, CH1
<1>4. Ahead(y.t) = 2 /\ Ahead(ct[c]) = 3
  BY <1>2 DEF Ahead, C1, C2, CH1
<1>5. Ahead(y.t) = Ahead(ct[c]) - 1 /\ Ahead(ct[c]) \in Nat
  BY <1>4
<1>6. Linked(c) => y.t.peer = st.eph /\ st.peer = Now(c)
  BY <1>1, <1>3
<1> QED BY <1>2, <1>3, <1>5, <1>6, StepSilent

\* The CertificateVerify.
LEMMA StepVerify ==
    ASSUME IndInv, NEW c \in Client, NEW r, CliTakes(c, r), toCli' = CliHas(c), ct[c].state # "DONE",
           NEW b \in ServerEph, C2(ct[c], Now(c), b, conf.label[c]), Fits(c), btls_feed_ok(ct[c], r),
           NEW y \in Flight(btls_feed(ct[c], r)), NEW x, x = WithRequest(c, y), CliSends(c, x),
           UNCHANGED <<conf, srvVars, req, left, result, runs, stalled>>
    PROVE  IndInv'
<1>1. r = CVBox(Now(c), b) /\ (Linked(c) => b = st.eph /\ st.peer = Now(c))
  BY InFlight DEF C2
<1>2. C3(y.t, Now(c), b, conf.label[c]) /\ y.out = <<>>
  BY <1>1, ClientVerify
<1>3. CliAt(c, y.t) /\ y.t.state = "HS" /\ y.t.peer = b
  BY <1>2 DEF CliAt, C3, CH1
<1>4. Ahead(y.t) = 1 /\ Ahead(ct[c]) = 2
  BY <1>2 DEF Ahead, C2, C3, CH1
<1>5. Ahead(y.t) = Ahead(ct[c]) - 1 /\ Ahead(ct[c]) \in Nat
  BY <1>4
<1>6. Linked(c) => y.t.peer = st.eph /\ st.peer = Now(c)
  BY <1>1, <1>3
<1> QED BY <1>2, <1>3, <1>5, <1>6, StepSilent

\* The server's Finished: the client's, and its request.
LEMMA StepServerFinished ==
    ASSUME IndInv, NEW c \in Client, NEW r, CliTakes(c, r), toCli' = CliHas(c), ct[c].state # "DONE",
           NEW b \in ServerEph, C3(ct[c], Now(c), b, conf.label[c]), Fits(c), btls_feed_ok(ct[c], r),
           NEW y \in Flight(btls_feed(ct[c], r)), NEW x, x = WithRequest(c, y), CliSends(c, x),
           UNCHANGED <<conf, srvVars, req, left, result, runs, stalled>>
    PROVE  IndInv'
<1>1. r = FinSBox(Now(c), b) /\ (Linked(c) => b = st.eph /\ st.peer = Now(c))
  BY InFlight DEF C3
<1>2. /\ C4(y.t, Now(c), b, conf.label[c]) /\ y.t.sseq = 0 /\ y.t.rseq = 0 /\ y.t.rx = <<>>
      /\ y.out = Append(<<>>, FinCBox(Now(c), b))
  BY <1>1, ClientFinished
<1>3. /\ Types /\ BoxInv /\ Running(c) /\ runs[c] \in Nat /\ Now(c) \in ClientEph /\ Past(Now(c))
  BY TakenDown
<1>4. req[c].size \in Nat
  BY <1>3 DEF Types
<1> DEFINE z == btls_send_app(y.t, req[c])
           u == z.t
           p == z.out
           out == y.out \o p
<1>5. x = [t |-> u, out |-> out]
  BY <1>2 DEF WithRequest, C4
<1>6. /\ Same(y.t, u, {"sseq"}) /\ u.sseq = y.t.sseq + req[c].size
      /\ IsSeq(p) /\ Len(p) = req[c].size
      /\ \A i \in 1 .. req[c].size : p[i] = Box(y.t.send, y.t.sseq + i - 1, Part(req[c], i))
  <2>1. IsSession(y.t) /\ y.t.sseq \in Nat
    BY <1>2 DEF C4, Cli
  <2>2. /\ Same(y.t, z.t, {"sseq"}) /\ z.t.sseq = y.t.sseq + req[c].size
        /\ IsSeq(z.out) /\ Len(z.out) = req[c].size
        /\ \A i \in 1 .. req[c].size : z.out[i] = Box(y.t.send, y.t.sseq + i - 1, Part(req[c], i))
    BY <1>4, <2>1, SendsParts
  <2> HIDE DEF z
  <2> QED BY <2>2
<1> HIDE DEF z, u, p, out
<1>7. x.t = u /\ x.out = out
  BY ONLY <1>5
<1>8. /\ IsSession(u) /\ u.role = y.t.role /\ u.eph = y.t.eph /\ u.label = y.t.label /\ u.state = y.t.state /\ u.epoch = y.t.epoch
      /\ u.want = y.t.want /\ u.peer = y.t.peer /\ u.th = y.t.th /\ u.cert = y.t.cert /\ u.send = y.t.send /\ u.recv = y.t.recv
      /\ u.rseq = y.t.rseq /\ u.rx = y.t.rx
  BY <1>6 DEF Same, Fields
<1>9. u.sseq = req[c].size /\ u.rseq = 0 /\ u.rx = <<>>
  BY <1>2, <1>4, <1>6, <1>8
<1>10. C4(u, Now(c), b, conf.label[c])
  <2>1. u.sseq \in Nat /\ u.rseq \in Nat
    BY <1>4, <1>9
  <2> QED BY <1>2, <1>8, <2>1 DEF C4, Cli
<1>11. u.state = "DONE" /\ u.peer = b /\ u.want = "none"
  BY <1>10 DEF C4
<1>12. CliAt(c, u)
  <2>1. FirstParts(Answer(c), 0) = <<>>
    BY DEF FirstParts
  <2> QED BY <1>9, <1>10, <2>1 DEF CliAt
<1>13. \A i \in 1 .. req[c].size : p[i] = Box(App(Now(c), b, "c2s"), i - 1, Part(req[c], i))
  <2>1. y.t.send = App(Now(c), b, "c2s") /\ y.t.sseq = 0
    BY <1>2 DEF C4
  <2>2. \A i \in 1 .. req[c].size : 0 + i - 1 = i - 1
    OBVIOUS
  <2> QED BY <1>6, <2>1, <2>2
<1>14. out = Append(<<>>, FinCBox(Now(c), b)) \o p
  BY <1>2 DEF out
<1>15. IsSeq(out) /\ Fresh(out) /\ Len(out) = 1 + req[c].size /\ \A q \in In(out) : CliSays(c, b, q)
  BY <1>3, <1>4, <1>6, <1>13, <1>14, CliOut
<1>16. CASE /\ ct' = [ct EXCEPT ![c] = x.t] /\ toSrv' = Sent(toSrv, c, "srv", x.out)
            /\ Seals(x.out) /\ UNCHANGED <<cst, happened>>
  <2>1. ct' = [ct EXCEPT ![c] = u] /\ toSrv' = Sent(toSrv, c, "srv", out) /\ Seals(out)
    BY <1>7, <1>16
  <2>2. ct'[c].state = "DONE" /\ runs'[c] = runs[c] /\ req'[c] = req[c]
    BY <1>3, <1>11, <2>1 DEF Types
  <2>3. Past(Now(c))'
    <3>1. Now(c)' = Now(c)
      BY DEF Now
    <3>2. ASSUME NEW a, Past(a) PROVE Past(a)'
      BY <1>16, <3>2 DEF Past
    <3>3. \A a : a = Now(c) => Past(a)'
      BY <1>3, <3>2
    <3>4. PICK a : a = Now(c)
      OBVIOUS
    <3>5. Past(a)' /\ a = Now(c)'
      BY <3>1, <3>3, <3>4
    <3> QED BY <3>5
  <2>4. \A q \in In(out) : q # SHUTDOWN /\ UpRec(c, q)' /\ CliBox(Sealer(q))'
    BY <1>3, <1>15, <2>2, <2>3, CliKinds, CliArrives, CliSeals
  <2>5. Ahead(u) = 0 /\ Ahead(ct[c]) = 1
    BY <1>11 DEF Ahead, C3, CH1
  <2>6. Ahead(u) = Ahead(ct[c]) - 1 /\ Ahead(ct[c]) \in Nat
    BY <2>5
  <2>7. Len(out) = IF u.state = "DONE" THEN 1 + u.sseq ELSE 0
    BY <1>9, <1>11, <1>15
  <2>8. Linked(c) => u.peer = st.eph /\ st.peer = Now(c)
    BY <1>1, <1>11
  <2>9. u.state # "CH_SENT" /\ (u.state = "DONE" => u.rseq = 0)
    BY <1>9, <1>11
  <2>10. UNCHANGED <<conf, srvVars, cst, req, left, result, runs, stalled, happened>>
    BY <1>16
  <2> QED BY <1>12, <1>15, <2>1, <2>4, <2>6, <2>7, <2>8, <2>9, <2>10, ClientGoesOn
<1>17. CASE /\ Happens("send") /\ Exits(c, "failed")
            /\ \E n \in 0 .. Len(x.out) - 1 :
                  toSrv' = Sent(toSrv, c, "srv", SubSeq(x.out, 1, n)) /\ Seals(SubSeq(x.out, 1, n + 1))
  <2>1. PICK n \in 0 .. Len(out) - 1 : toSrv' = Sent(toSrv, c, "srv", SubSeq(out, 1, n)) /\ Seals(SubSeq(out, 1, n + 1))
    BY <1>7, <1>17
  <2>2. happened \subseteq happened'
    BY <1>17 DEF Happens, Records
  <2> QED BY <1>15, <1>17, <2>1, <2>2, ClientQuits
<1> QED BY <1>16, <1>17 DEF CliSends

\* A client and a record of the handshake.
LEMMA StepCliHandshake == ASSUME IndInv, NEW c \in Client, NEW r, CliHandshake(c, r) PROVE IndInv'
<1>1. /\ CliTakes(c, r) /\ ct[c].state # "DONE" /\ toCli' = CliHas(c)
      /\ UNCHANGED <<conf, srvVars, req, left, result, runs, stalled>>
  BY DEF CliHandshake
<1>2. CASE ~btls_feed_ok(ct[c], r)
  <2>1. Exits(c, "failed") /\ UNCHANGED <<toSrv, history>>
    BY <1>2 DEF CliHandshake
  <2>2. DOMAIN result' = Client /\ toCli[c] # <<>>
    BY <1>1, TakenDown DEF Types
  <2> QED BY <1>1, <2>1, <2>2, Exit DEF history
<1>3. CASE btls_feed_ok(ct[c], r)
  <2>1. PICK y \in Flight(btls_feed(ct[c], r)) : \E x \in {WithRequest(c, y)} : CliSends(c, x)
    BY <1>3 DEF CliHandshake, CliSends
  <2>2. PICK x : x = WithRequest(c, y) /\ CliSends(c, x)
    BY <2>1
  <2>3. CliAt(c, ct[c])
    BY <1>1, TakenDown
  <2>4. \/ C0(ct[c], Now(c), conf.label[c])
        \/ \E b \in ServerEph :
              \/ C1(ct[c], Now(c), b, conf.label[c])
              \/ Fits(c) /\ C2(ct[c], Now(c), b, conf.label[c])
              \/ Fits(c) /\ C3(ct[c], Now(c), b, conf.label[c])
    BY <1>1, <2>3 DEF CliAt, C4
  <2>5. CASE C0(ct[c], Now(c), conf.label[c])
    BY <1>1, <1>3, <2>2, <2>5, StepServerHello
  <2>6. ASSUME NEW b \in ServerEph, C1(ct[c], Now(c), b, conf.label[c]) PROVE IndInv'
    BY <1>1, <1>3, <2>2, <2>6, StepCertificate
  <2>7. ASSUME NEW b \in ServerEph, Fits(c), C2(ct[c], Now(c), b, conf.label[c]) PROVE IndInv'
    BY <1>1, <1>3, <2>2, <2>7, StepVerify
  <2>8. ASSUME NEW b \in ServerEph, Fits(c), C3(ct[c], Now(c), b, conf.label[c]) PROVE IndInv'
    BY <1>1, <1>3, <2>2, <2>8, StepServerFinished
  <2> QED BY <2>4, <2>5, <2>6, <2>7, <2>8
<1> QED BY <1>2, <1>3

-----------------------------------------------------------------------------
(* The theorems.                                                             *)

\* The initial states.
LEMMA Starts == ASSUME Init PROVE IndInv
<1>1. conf \in Conf
  BY ConfAssumption DEF Init
<1>2. Types
  BY <1>1 DEF Types, Init, NoRequest, Calm
<1>3. ServerInv
  <2>1. <<NoClient, associations + 1>> \in ServerEph
    BY DEF Init, ServerEph
  <2>2. S0(st, <<NoClient, associations + 1>>)
    BY NewSession DEF Init, ServerSession, S0, Server
  <2> QED BY <2>1, <2>2 DEF ServerInv, Init
<1>4. ASSUME NEW c \in Client PROVE ClientInv(c)
  <2>1. cst[c] = "off" /\ ct[c].state = "INIT" /\ toSrv[c] = <<>> /\ toCli[c] = <<>>
    BY NewSession DEF Init, NoSession
  <2>2. Queue(c)
    BY <2>1, NoRecords DEF Queue
  <2> QED BY <2>1, <2>2 DEF ClientInv, Shape, Link, Linked, Count, Got, Running
<1>5. BoxInv
  BY FS_EmptySet DEF BoxInv, Init
<1> QED BY <1>2, <1>3, <1>4, <1>5 DEF IndInv

\* A step of nobody.
LEMMA Stutters == ASSUME IndInv, UNCHANGED vars PROVE IndInv'
BY NothingSaid DEF vars, srvVars, cliVars, netVars, history

\* Every step.
LEMMA StepNext == ASSUME IndInv, [Next]_vars PROVE IndInv'
<1>1. CASE SrvStep
  <2>1. CASE AcceptTimeout BY <2>1, StepAcceptTimeout
  <2>2. CASE SrvIdle BY <2>2, StepSrvIdle
  <2>3. ASSUME NEW c \in Client, Accept(c) PROVE IndInv'
    BY <2>3, StepAccept
  <2>4. ASSUME NEW r, SrvClosed(r) \/ SrvHandshake(r) \/ SrvRequest(r) PROVE IndInv'
    BY <2>4, StepSrvClosed, StepSrvHandshake, StepSrvRequest
  <2> QED BY <1>1, <2>1, <2>2, <2>3, <2>4 DEF SrvStep
<1>2. CASE SrvPollErr BY <1>2, StepSrvPollErr
<1>3. CASE Tick BY <1>3, StepTick
<1>4. ASSUME NEW c \in Client, CliStep(c) PROVE IndInv'
  <2>1. CASE TimeUp(c) BY <2>1, StepTimeUp
  <2>2. CASE Start(c) BY <2>2, StepStart
  <2>3. CASE CliClosed(c, Head(toCli[c])) \/ CliHandshake(c, Head(toCli[c])) \/ CliResponse(c, Head(toCli[c]))
    BY <2>3, StepCliClosed, StepCliHandshake, StepCliResponse
  <2> QED BY <1>4, <2>1, <2>2, <2>3 DEF CliStep
<1>5. ASSUME NEW c \in Client, SecondInit(c) PROVE IndInv'
  BY <1>5, StepSecondInit
<1>6. ASSUME NEW c \in Client, CliPollErr(c) PROVE IndInv'
  BY <1>6, StepCliPollErr
<1>7. ASSUME NEW c \in Client, Again(c) PROVE IndInv'
  BY <1>7, StepAgain
<1>8. ASSUME NEW c \in Client, LoseUp(c) PROVE IndInv'
  BY <1>8, StepLoseUp
<1>9. ASSUME NEW c \in Client, LoseDown(c) PROVE IndInv'
  BY <1>9, StepLoseDown
<1>10. ASSUME NEW c \in Client, NEW m \in conf.asks, Dial(c, m) PROVE IndInv'
  BY <1>10, StepDial
<1>11. CASE UNCHANGED vars BY <1>11, Stutters
<1> QED BY <1>1, <1>2, <1>3, <1>4, <1>5, <1>6, <1>7, <1>8, <1>9, <1>10, <1>11 DEF Next

\* The invariant holds.
LEMMA Invariance == Spec => []IndInv
<1>1. Init => IndInv
  BY Starts
<1>2. IndInv /\ [Next]_vars => IndInv'
  BY StepNext
<1> QED BY <1>1, <1>2, PTL DEF Spec

\* With nothing lost and no SHUTDOWN, every record on its way counts.
LEMMA Counted ==
    ASSUME NEW q, IsSeq(q), SHUTDOWN \notin In(q)
    PROVE  Cardinality({i \in DOMAIN q : q[i] # SHUTDOWN}) = Len(q)
<1>1. {i \in DOMAIN q : q[i] # SHUTDOWN} = 1 .. Len(q) /\ Len(q) \in Nat
  BY DEF IsSeq, In
<1>2. ASSUME NEW n \in Nat PROVE Cardinality(1 .. n) = n
  <2>1. 1 \in Int /\ n \in Int
    OBVIOUS
  <2>2. Cardinality(1 .. n) = IF 1 > n THEN 0 ELSE n - 1 + 1
    BY <2>1, FS_Interval
  <2>3. (IF 1 > n THEN 0 ELSE n - 1 + 1) = n
    OBVIOUS
  <2> QED BY <2>2, <2>3
<1> QED BY <1>1, <1>2

\* Two sessions that have finished the handshake are in step.
LEMMA InStepNow ==
    ASSUME IndInv, NEW c \in Client, srv = "serving", sa = c, ct[c].state = "DONE", st.state = "DONE"
    PROVE  ct[c].th = st.th /\ InStep(st, ct[c], toSrv[c]) /\ InStep(ct[c], st, toCli[c])
<1>1. Types /\ ServerInv /\ ClientInv(c)
  BY DEF IndInv
<1>2. Running(c) /\ Linked(c) /\ IsSeq(toSrv[c]) /\ IsSeq(toCli[c])
  BY <1>1 DEF ClientInv, Shape, Queue, Linked
<1>3. ct[c].peer = st.eph /\ st.peer = Now(c)
  BY <1>1, <1>2 DEF ClientInv, Link
<1>4. PICK b \in ServerEph : C4(ct[c], Now(c), b, conf.label[c])
  BY <1>1, <1>2, AtDone
<1>5. PICK d \in ServerEph, a \in ClientEph : d = st.eph /\ a = st.peer /\ S2(st, a, d)
  BY <1>1, Peered
<1>6. b = d /\ a = Now(c)
  BY <1>3, <1>4, <1>5 DEF C4
<1>7. ct[c].th = st.th /\ st.recv = ct[c].send /\ ct[c].recv = st.send
  BY <1>4, <1>5, <1>6 DEF C4, S2
<1>8. Calm => /\ st.rseq + Len(toSrv[c]) = ct[c].sseq /\ ct[c].rseq + Len(toCli[c]) = st.sseq
              /\ SHUTDOWN \notin In(toSrv[c]) /\ SHUTDOWN \notin In(toCli[c])
  BY <1>1, <1>2, <1>3 DEF ClientInv, Count
<1>9. Calm => /\ Cardinality({i \in DOMAIN toSrv[c] : toSrv[c][i] # SHUTDOWN}) = Len(toSrv[c])
              /\ Cardinality({i \in DOMAIN toCli[c] : toCli[c][i] # SHUTDOWN}) = Len(toCli[c])
  BY <1>2, <1>8, Counted
<1>10. InStep(st, ct[c], toSrv[c])
  BY <1>7, <1>8, <1>9 DEF InStep, Calm
<1>11. InStep(ct[c], st, toCli[c])
  BY <1>7, <1>8, <1>9 DEF InStep, Calm
<1> QED BY <1>7, <1>10, <1>11

\* A client that has finished the handshake has the key of the name it dialed, and got it from the
\* server; once both have finished, they have the same transcript, each opens with the key and the
\* counter the other seals with, and no key seals twice with one counter (install_epoch, seal_box,
\* open_rec): for any number of clients, fetches, sizes of documents and losses.
THEOREM SealedChannel == Spec => []Channel
<1>1. ASSUME IndInv PROVE Channel
  <2>1. ASSUME NEW c \in Client, ct[c].state = "DONE"
        PROVE  ct[c].cert = ServerKey /\ conf.label[c] \in {NoLabel, bait_label_from_pub(ServerKey)}
    <3>1. Types /\ ClientInv(c) /\ Running(c)
      BY <1>1, <2>1 DEF IndInv, ClientInv, Shape
    <3>2. Fits(c) /\ \E b \in ServerEph : C4(ct[c], Now(c), b, conf.label[c])
      BY <2>1, <3>1, AtDone
    <3> QED BY <3>2 DEF Fits, C4
  <2>2. ASSUME NEW c \in Client, srv = "serving", sa = c, ct[c].state = "DONE", st.state = "DONE"
        PROVE  ct[c].th = st.th /\ InStep(st, ct[c], toSrv[c]) /\ InStep(ct[c], st, toCli[c])
    BY <1>1, <2>2, InStepNow
  <2>3. Cardinality(boxes) = seals
    BY <1>1 DEF IndInv, BoxInv
  <2> QED BY <2>1, <2>2, <2>3 DEF Channel
<1> QED BY <1>1, Invariance, PTL

\* The response a client is given is the whole response to its own request, however many fetches
\* came before (app_send, btls_recv_app): for any number of clients and fetches, and whatever is
\* lost, fails or comes late.
THEOREM OwnAnswer == Spec => []Answers
<1>1. IndInv => Answers
  BY DEF IndInv, ClientInv, Got, Answer, Answers
<1> QED BY <1>1, Invariance, PTL
=============================================================================
