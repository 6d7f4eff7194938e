------------------------- MODULE UnlockServiceProofs -------------------------
(***************************************************************************)
(* The WebSocket sessions for any number of connections, addresses and     *)
(* devices, any limits, timeouts and lockout parameters, with or without   *)
(* failing audit records and restarts.                                     *)
(***************************************************************************)
EXTENDS UnlockService, BackoffTableProofs, FiniteSetTheorems

ConnRec == [pc: {"idle", "closed"} \cup Holding,
            ip: Addrs \cup {"none"},
            cert: Devices \cup {NoDevice}, dev: Devices \cup {NoDevice},
            deadline: Nat, hits: SUBSET {"ip", "device"},
            inner: BOOLEAN, base: SUBSET Devices]

\* A running handler knows the address it charges.
Placed == \A c \in Conns : conn[c].pc \in Holding => conn[c].ip \in Addrs

Busy == {c \in Conns : conn[c].pc \in Holding}

\* self.active counts the running handlers and stays within the cap.
Slots ==
    /\ IsFiniteSet(Busy)
    /\ active = Cardinality(Busy)
    /\ active <= MaxConnections

\* self.pending stays within its cap.
Room ==
    /\ IsFiniteSet(DOMAIN pending)
    /\ Cardinality(DOMAIN pending) <= MaxPending

\* Challenges: a nonce is given once, what is pending is what was issued, and
\* phones sign only what was issued to them.
Challenges ==
    /\ DOMAIN chal \subseteq Conns
    /\ \A n \in DOMAIN chal :
         /\ chal[n].dev \in Devices
         /\ conn[n].pc \notin {"idle", "hello"}
    /\ \A n \in DOMAIN pending : n \in DOMAIN chal /\ pending[n] = chal[n]
    /\ \A x \in signed : x[1] \in DOMAIN chal /\ x[2] = chal[x[1]].dev

\* Grants: the nonce is spent, and the session that used it is over.
Spent ==
    \A g \in grants :
        /\ g.nonce \notin DOMAIN pending
        /\ g.conn \in Conns
        /\ conn[g.conn].pc \in {"sending", "closed"}

\* Revocations only shrink the configuration, and the one in memory is behind by
\* what the latest reload missed or by a change it will notice; so what a waiting
\* session may identify was enabled, or missed, when it was accepted.
Vetted ==
    /\ enabled \subseteq loaded
    /\ ~changed => loaded \subseteq enabled \cup missed
    /\ \A c \in Conns :
         /\ conn[c].pc = "hello" =>
              loaded \subseteq conn[c].base /\ conn[c].cert \in conn[c].base \cup {NoDevice}
         /\ conn[c].pc = "challenge" => conn[c].dev \in conn[c].base

IInv ==
    /\ TypeOK /\ Placed /\ Slots /\ Room /\ Challenges
    /\ GrantIsWarranted /\ OneGrantPerChallenge /\ Spent
    /\ Vetted /\ RevocationBindsNewSessions /\ LockoutIsReported

----------------------------------------------------------------------------
(* Slots and tables. *)

\* One connection moves: the running handlers after it.
LEMMA BusyMoves ==
    ASSUME TypeOK, NEW c \in Conns, NEW s \in ConnRec, conn' = [conn EXCEPT ![c] = s]
    PROVE  Busy' = IF s.pc \in Holding THEN Busy \cup {c} ELSE Busy \ {c}
  BY DEF TypeOK, Busy

\* The counter follows the running handlers, so the finally clause and the
\* increment on entry keep them in step.
LEMMA SlotsMove ==
    ASSUME TypeOK, Slots, NEW c \in Conns, NEW s \in ConnRec, conn' = [conn EXCEPT ![c] = s],
           active' = active + (IF s.pc \in Holding THEN 1 ELSE 0)
                            - (IF conn[c].pc \in Holding THEN 1 ELSE 0),
           s.pc \in Holding /\ conn[c].pc \notin Holding => ~Full
    PROVE  Slots' /\ active' \in Nat
<1>1. Busy' = IF s.pc \in Holding THEN Busy \cup {c} ELSE Busy \ {c}
  BY BusyMoves
<1>2. c \in Busy <=> conn[c].pc \in Holding
  BY DEF Busy
<1>3. /\ IsFiniteSet(Busy \cup {c}) /\ IsFiniteSet(Busy \ {c})
      /\ Cardinality(Busy \cup {c}) = IF c \in Busy THEN active ELSE active + 1
      /\ Cardinality(Busy \ {c}) = IF c \in Busy THEN active - 1 ELSE active
  BY FS_AddElement, FS_RemoveElement DEF Slots
<1>4. active \in Nat /\ active <= MaxConnections /\ MaxConnections \in Nat
  BY ServiceAssumption DEF TypeOK, Slots
<1>5. IsFiniteSet(Busy') /\ active' = Cardinality(Busy')
  BY <1>1, <1>2, <1>3, <1>4
<1>6. active' \in Nat
  BY <1>5, FS_CardinalityType
<1>7. active' <= MaxConnections
  BY <1>4 DEF Full
<1> QED
  BY <1>5, <1>6, <1>7 DEF Slots

\* The pending challenges after one is used or the expired ones are dropped.
LEMMA RoomShrinks ==
    ASSUME Room, DOMAIN pending' \subseteq DOMAIN pending
    PROVE  Room'
<1>1. /\ IsFiniteSet(DOMAIN pending')
      /\ Cardinality(DOMAIN pending') <= Cardinality(DOMAIN pending)
  BY FS_Subset DEF Room
<1>2. Cardinality(DOMAIN pending') \in Nat /\ Cardinality(DOMAIN pending) \in Nat
  BY <1>1, FS_CardinalityType DEF Room
<1> QED
  BY <1>1, <1>2, ServiceAssumption DEF Room

----------------------------------------------------------------------------
(* Steps that end a session or start its end. *)

\* What the ends of a handler have in common: the connection stops waiting, its
\* slot and the failure tables are accounted for, and any lockout it started and
\* has not recorded is the connection's own to record.
Settles(c) ==
    \E s \in ConnRec :
      /\ conn' = [conn EXCEPT ![c] = s]
      /\ s.pc \in {"failing", "closing", "closed"}
      /\ conn[c].pc = "sending" => s.pc = "closed"
      /\ s.pc # "closed" => s.ip \in Addrs
      /\ active' = active + (IF s.pc \in Holding THEN 1 ELSE 0)
                          - (IF conn[c].pc \in Holding THEN 1 ELSE 0)
      /\ IsTable(ipB', Addrs) /\ IsTable(devB', Devices)
      /\ lockAudit' \in [LockKeys -> Nat]
      /\ owed' \subseteq Conns \X {"ip", "device"}
      /\ \A x \in owed' : IF x[1] = c THEN s.pc = "failing" /\ x[2] \in s.hits
                                      ELSE x \in owed

\* Where _fail() and _locked() are called.
Waiting == {"idle", "hello", "challenge"}

\* The record of a connection whose handler has ended.
LEMMA ClosedType == Closed \in ConnRec /\ Closed.pc = "closed"
  BY DEF Closed, Fresh0, ConnRec

\* Nothing a connection that is not failing started is unrecorded.
LEMMA OwedElsewhere ==
    ASSUME IInv, NEW c \in Conns, conn[c].pc # "failing", NEW x \in owed
    PROVE  x[1] # c
  BY DEF IInv, LockoutIsReported

\* _fail() up to its await.
LEMMA RejectSettles ==
    ASSUME IInv, NEW c \in Conns, conn[c].pc \in Waiting,
           NEW r \in ConnRec, r.ip \in Addrs,
           NEW dev \in Devices \cup {NoDevice}, NEW inner \in BOOLEAN,
           Reject(c, r, dev, inner), lockAudit' \in [LockKeys -> Nat]
    PROVE  Settles(c)
<1> DEFINE hits  == {k \in {"ip", "device"} :
                       IF k = "ip" THEN StartsLockout(ipB, r.ip, now)
                       ELSE dev # NoDevice /\ StartsLockout(devB, dev, now)}
           f     == [r EXCEPT !.pc = "failing", !.dev = dev, !.hits = hits, !.inner = inner]
<1>0. now \in Nat /\ IsTable(ipB, Addrs) /\ IsTable(devB, Devices) /\ TypeOK
  BY DEF IInv, TypeOK
<1>1. IsTable(devB', Devices)
  BY <1>0, FailTableShape DEF Reject, Charged
<1>2. IsTable(FailTable(ipB, r.ip, now), Addrs)
  BY <1>0, FailTableShape
<1>3. IsTable(FailTable(FailTable(ipB, r.ip, now), r.ip, now), Addrs)
  BY <1>0, <1>2, FailTableShape
<1>4. IsTable(ipB', Addrs)
  BY <1>2, <1>3 DEF Reject
<1>5. CASE disk
  <2>1. /\ conn' = [conn EXCEPT ![c] = f]
        /\ owed' = owed \cup ({c} \X hits)
        /\ active' = IF conn[c].pc = "idle" THEN active + 1 ELSE active
    BY <1>5 DEF Reject
  <2>2. hits \in SUBSET {"ip", "device"}
    OBVIOUS
  <2> HIDE DEF hits
  <2>3. f \in ConnRec /\ f.pc = "failing" /\ f.ip = r.ip /\ f.hits = hits
    BY <2>2 DEF ConnRec, Holding
  <2> HIDE DEF f
  <2>4. active' = active + (IF f.pc \in Holding THEN 1 ELSE 0)
                         - (IF conn[c].pc \in Holding THEN 1 ELSE 0)
    BY <1>0, <2>1, <2>3 DEF Holding, Waiting, TypeOK
  <2>5. owed' \subseteq Conns \X {"ip", "device"}
    BY <1>0, <2>1, <2>2 DEF TypeOK
  <2>6. ASSUME NEW x \in owed'
        PROVE  IF x[1] = c THEN f.pc = "failing" /\ x[2] \in f.hits ELSE x \in owed
    <3>1. CASE x \in owed
      BY <2>6, <3>1, OwedElsewhere DEF Waiting
    <3>2. CASE x \in {c} \X hits
      BY <2>3, <3>2
    <3> QED
      BY <2>1, <2>6, <3>1, <3>2
  <2> QED
    BY <1>1, <1>4, <2>1, <2>3, <2>4, <2>5, <2>6 DEF Settles, Waiting
<1>6. CASE ~disk
  <2>1. /\ conn' = [conn EXCEPT ![c] = Closed]
        /\ owed' = owed
        /\ active' = IF conn[c].pc = "idle" THEN active ELSE active - 1
    BY <1>6 DEF Reject, LeaveByError, Leave
  <2>2. active' = active + (IF Closed.pc \in Holding THEN 1 ELSE 0)
                         - (IF conn[c].pc \in Holding THEN 1 ELSE 0)
    BY <1>0, <2>1, ClosedType DEF Holding, Waiting, TypeOK
  <2>3. owed' \subseteq Conns \X {"ip", "device"}
    BY <1>0, <2>1 DEF TypeOK
  <2>4. \A x \in owed' : x[1] # c /\ x \in owed
    BY <2>1, OwedElsewhere DEF Waiting
  <2> QED
    BY <1>1, <1>4, <2>1, <2>2, <2>3, <2>4, ClosedType DEF Settles, Waiting
<1> QED
  BY <1>5, <1>6

\* _locked(): the attempt is refused while a lockout runs.
LEMMA TurnAwaySettles ==
    ASSUME IInv, NEW c \in Conns, conn[c].pc \in Waiting,
           NEW r \in ConnRec, r.ip \in Addrs,
           NEW kind, NEW key, <<kind, key>> \in LockKeys,
           TurnAway(c, r, kind, key)
    PROVE  Settles(c)
<1> DEFINE record == now - lockAudit[<<kind, key>>] > AuditGap
           f      == [r EXCEPT !.pc = "closing"]
<1>0. TypeOK
  BY DEF IInv
<1>1. lockAudit' \in [LockKeys -> Nat]
  BY <1>0 DEF TurnAway, TypeOK
<1>2. CASE disk \/ ~record
  <2>1. /\ conn' = [conn EXCEPT ![c] = f]
        /\ active' = IF conn[c].pc = "idle" THEN active + 1 ELSE active
        /\ ipB' = ipB /\ devB' = devB /\ owed' = owed
    BY <1>2 DEF TurnAway
  <2>2. f \in ConnRec /\ f.pc = "closing" /\ f.ip = r.ip
    BY DEF ConnRec, Holding
  <2> HIDE DEF f
  <2>3. active' = active + (IF f.pc \in Holding THEN 1 ELSE 0)
                         - (IF conn[c].pc \in Holding THEN 1 ELSE 0)
    BY <1>0, <2>1, <2>2 DEF Holding, Waiting, TypeOK
  <2>4. \A x \in owed' : x[1] # c /\ x \in owed
    BY <2>1, OwedElsewhere DEF Waiting
  <2>5. /\ IsTable(ipB', Addrs) /\ IsTable(devB', Devices)
        /\ owed' \subseteq Conns \X {"ip", "device"}
    BY <1>0, <2>1 DEF TypeOK
  <2> QED
    BY <1>1, <2>1, <2>2, <2>3, <2>4, <2>5 DEF Settles, Waiting
<1>3. CASE ~disk /\ record
  <2>1. Reject(c, r, NoDevice, FALSE)
    BY <1>3 DEF TurnAway
  <2> QED
    BY <1>1, <2>1, RejectSettles
<1> QED
  BY <1>2, <1>3

\* A handler that returns, with or without an exception.
LEMMA LeaveSettles ==
    ASSUME IInv, NEW c \in Conns, conn[c].pc \in Holding, Leave(c),
           IsTable(ipB', Addrs), UNCHANGED <<devB, lockAudit>>,
           owed' \subseteq owed,
           \A x \in owed' : x[1] # c
    PROVE  Settles(c)
<1>0. TypeOK
  BY DEF IInv
<1>1. active' = active + (IF Closed.pc \in Holding THEN 1 ELSE 0)
                       - (IF conn[c].pc \in Holding THEN 1 ELSE 0)
  BY <1>0, ClosedType DEF Leave, Holding, TypeOK
<1>2. conn' = [conn EXCEPT ![c] = Closed]
  BY DEF Leave
<1>3. /\ IsTable(devB', Devices) /\ lockAudit' \in [LockKeys -> Nat]
      /\ owed' \subseteq Conns \X {"ip", "device"}
  BY <1>0 DEF TypeOK
<1> QED
  BY <1>1, <1>2, <1>3, ClosedType DEF Settles

\* A reload, whatever it misses: the configuration in memory is what config.json
\* held, and what it lacks of it since is known to be missed.
LEMMA Reloads ==
    ASSUME IInv, ReloadIfChanged \/ Reload \/ UNCHANGED config
    PROVE  /\ enabled' \subseteq Devices /\ missed' \subseteq Devices
           /\ loaded' \subseteq Devices /\ changed' \in BOOLEAN
           /\ enabled' \subseteq loaded' /\ loaded' \subseteq loaded
           /\ ~changed' => loaded' \subseteq enabled' \cup missed'
<1>1. /\ loaded \subseteq Devices /\ enabled \subseteq Devices /\ missed \subseteq Devices
      /\ changed \in BOOLEAN
      /\ enabled \subseteq loaded /\ (~changed => loaded \subseteq enabled \cup missed)
  BY DEF IInv, TypeOK, Vetted
<1>2. CASE Reload
  <2>1. PICK late \in SUBSET enabled : enabled' = enabled \ late /\ missed' = late
    BY <1>2 DEF Reload
  <2>2. loaded' = enabled /\ changed' = FALSE
    BY <1>2 DEF Reload, Reloaded
  <2> QED
    BY <1>1, <2>1, <2>2
<1>3. CASE UNCHANGED config
  BY <1>1, <1>3 DEF config
<1> QED
  BY <1>2, <1>3 DEF ReloadIfChanged

\* A session that ends, or starts to, keeps the inductive invariant: the pending
\* challenges may have shrunk, the configuration may have been read again.
LEMMA SettlesPreserves ==
    ASSUME IInv, NEW c \in Conns, conn[c].pc # "closed", Settles(c),
           conn[c].pc = "idle" => ~Full \/ conn'[c].pc = "closed",
           DOMAIN pending' \subseteq DOMAIN pending,
           \A n \in DOMAIN pending' : pending'[n] = pending[n],
           ReloadIfChanged \/ UNCHANGED config,
           UNCHANGED <<now, disk, signed, chal, grants, audited>>
    PROVE  IInv'
<1> PICK s \in ConnRec :
      /\ conn' = [conn EXCEPT ![c] = s]
      /\ s.pc \in {"failing", "closing", "closed"}
      /\ conn[c].pc = "sending" => s.pc = "closed"
      /\ s.pc # "closed" => s.ip \in Addrs
      /\ active' = active + (IF s.pc \in Holding THEN 1 ELSE 0)
                          - (IF conn[c].pc \in Holding THEN 1 ELSE 0)
      /\ IsTable(ipB', Addrs) /\ IsTable(devB', Devices)
      /\ lockAudit' \in [LockKeys -> Nat]
      /\ owed' \subseteq Conns \X {"ip", "device"}
      /\ \A x \in owed' : IF x[1] = c THEN s.pc = "failing" /\ x[2] \in s.hits
                                      ELSE x \in owed
  BY DEF Settles
<1>0. TypeOK /\ conn \in [Conns -> ConnRec]
  BY DEF IInv, TypeOK, ConnRec
<1>1. /\ conn' \in [Conns -> ConnRec] /\ conn'[c] = s
      /\ \A x \in Conns \ {c} : conn'[x] = conn[x]
  BY <1>0
<1>2. Slots' /\ active' \in Nat
  <2>1. s.pc \in Holding /\ conn[c].pc \notin Holding => ~Full
    BY <1>0, <1>1 DEF Holding, ConnRec
  <2> QED
    BY <1>0, <2>1, SlotsMove DEF IInv
<1>3. TypeOK'
  BY <1>0, <1>1, <1>2, Reloads DEF TypeOK, ConnRec
<1>4. Placed'
  BY <1>0, <1>1 DEF IInv, Placed, Holding
<1>5. Room'
  BY RoomShrinks DEF IInv
<1>6. Challenges'
  BY <1>0, <1>1 DEF IInv, Challenges
<1>7. (GrantIsWarranted /\ OneGrantPerChallenge /\ RevocationBindsNewSessions)'
  BY DEF IInv, GrantIsWarranted, OneGrantPerChallenge, RevocationBindsNewSessions
<1>8. Spent'
  BY <1>0, <1>1 DEF IInv, Spent
<1>9. Vetted'
  BY <1>0, <1>1, Reloads DEF IInv, Vetted
<1>10. LockoutIsReported'
  <2>1. \A x \in owed' : x[1] \in Conns
    BY DEF TypeOK
  <2> QED
    BY <1>1, <2>1 DEF IInv, LockoutIsReported
<1> QED
  BY <1>2, <1>3, <1>4, <1>5, <1>6, <1>7, <1>8, <1>9, <1>10 DEF IInv

----------------------------------------------------------------------------
(* One lemma per action. *)

\* A connection over the cap.
LEMMA RefusePreserves ==
    ASSUME IInv, NEW c \in Conns, Refuse(c)
    PROVE  IInv'
<1>0. TypeOK
  BY DEF IInv
<1>1. Settles(c) /\ conn'[c].pc = "closed"
  <2>1. /\ conn' = [conn EXCEPT ![c] = Closed] /\ conn'[c] = Closed
        /\ active' = active + (IF Closed.pc \in Holding THEN 1 ELSE 0)
                            - (IF conn[c].pc \in Holding THEN 1 ELSE 0)
    BY <1>0, ClosedType DEF Refuse, Holding, TypeOK
  <2>2. \A x \in owed' : x[1] # c /\ x \in owed
    BY OwedElsewhere DEF Refuse, history
  <2>3. /\ IsTable(ipB', Addrs) /\ IsTable(devB', Devices)
        /\ lockAudit' \in [LockKeys -> Nat]
        /\ owed' \subseteq Conns \X {"ip", "device"}
    BY <1>0 DEF Refuse, TypeOK, tables, history
  <2> QED
    BY <2>1, <2>2, <2>3, ClosedType DEF Settles
<1> QED
  BY <1>1, SettlesPreserves DEF Refuse, history

\* The end of _fail().
LEMMA FinishRejectPreserves ==
    ASSUME IInv, NEW c \in Conns, FinishReject(c)
    PROVE  IInv'
<1>0. TypeOK /\ conn[c].pc = "failing" /\ conn[c].ip \in Addrs
  BY DEF IInv, Placed, FinishReject, Holding
<1>1. IsTable(ipB', Addrs)
  BY <1>0, FailTableShape DEF FinishReject, TypeOK
<1>2. owed' \subseteq owed
  BY DEF FinishReject
<1>3. ASSUME NEW x \in owed' PROVE x[1] # c
  <2>1. owed' = owed \ ({c} \X conn[c].hits)
    BY DEF FinishReject, Reported
  <2>2. x \in owed /\ x \in Conns \X {"ip", "device"} /\ x[2] \in conn[x[1]].hits
    BY <1>0, <1>3, <2>1 DEF IInv, LockoutIsReported, TypeOK
  <2> QED
    BY <1>3, <2>1, <2>2
<1>4. Settles(c)
  BY <1>0, <1>1, <1>2, <1>3, LeaveSettles DEF FinishReject, Holding
<1> QED
  BY <1>0, <1>4, SettlesPreserves DEF FinishReject

\* The end of a close, of a send, and a peer that goes away.
LEMMA FinishClosePreserves ==
    ASSUME IInv, NEW c \in Conns, FinishClose(c) \/ PeerClosed(c)
    PROVE  IInv'
<1>0. /\ TypeOK /\ conn[c].pc \in Holding /\ conn[c].pc \notin {"failing", "closed", "idle"}
      /\ Leave(c)
      /\ UNCHANGED <<now, pending, ipB, devB, lockAudit, config, disk, signed,
                     chal, grants, audited, owed>>
  BY DEF IInv, FinishClose, PeerClosed, Holding, tables, history
<1>1. Settles(c)
  BY <1>0, OwedElsewhere, LeaveSettles DEF TypeOK
<1> QED
  BY <1>0, <1>1, SettlesPreserves

\* Malformed and unexpected messages, and waits that expire.
LEMMA FailedWaitPreserves ==
    ASSUME IInv, NEW c \in Conns, NEW malformed \in BOOLEAN,
           BadHello(c, malformed) \/ BadResponse(c, malformed) \/ TimeOut(c)
    PROVE  IInv'
<1>0. /\ TypeOK /\ conn[c] \in ConnRec /\ conn[c].pc \in Waiting \ {"idle"}
      /\ conn[c].ip \in Addrs
  BY DEF IInv, TypeOK, ConnRec, Placed, BadHello, BadResponse, TimeOut, Timed, Holding, Waiting
<1>1. UNCHANGED <<now, pending, lockAudit, config, disk, signed, chal, grants, audited>>
  BY DEF BadHello, BadResponse, TimeOut
<1>2. lockAudit' \in [LockKeys -> Nat]
  BY <1>0, <1>1 DEF TypeOK
<1>3. PICK dev \in Devices \cup {NoDevice}, inner \in BOOLEAN : Reject(c, conn[c], dev, inner)
  BY <1>0 DEF BadHello, BadResponse, TimeOut, ConnRec
<1>4. Settles(c)
  BY <1>0, <1>2, <1>3, RejectSettles
<1> QED
  BY <1>0, <1>1, <1>4, SettlesPreserves DEF Waiting

\* A connection within the cap.
LEMMA AcceptPreserves ==
    ASSUME IInv, NEW c \in Conns, NEW a \in Addrs, NEW d \in Devices \cup {NoDevice},
           Accept(c, a, d)
    PROVE  IInv'
<1> DEFINE cert == Registered(loaded', d)
           valid == enabled' \cup missed'
           r    == [Fresh0 EXCEPT !.ip = a, !.cert = cert, !.base = valid]
           h    == [r EXCEPT !.pc = "hello", !.deadline = now + MsgTimeout]
<1>0. TypeOK /\ conn \in [Conns -> ConnRec] /\ conn[c].pc = "idle" /\ ~Full
  BY DEF IInv, TypeOK, ConnRec, Accept
<1>3. /\ ReloadIfChanged
      /\ UNCHANGED <<now, pending, disk, signed, chal, grants, audited>>
  BY DEF Accept
<1>7. /\ valid \subseteq Devices /\ loaded' \subseteq Devices /\ loaded' \subseteq loaded
      /\ enabled' \subseteq loaded' /\ ~changed' /\ loaded' \subseteq valid
  <2>1. ~changed'
    BY <1>3 DEF ReloadIfChanged, Reload, config
  <2> QED
    BY <1>3, <2>1, Reloads
<1>1. cert \in loaded' \cup {NoDevice} /\ cert \in Devices \cup {NoDevice}
  BY <1>7 DEF Registered
<1> HIDE DEF cert, valid
<1>2. r \in ConnRec /\ r.ip \in Addrs /\ r.cert = cert /\ r.base = valid
  BY <1>0, <1>1, <1>7 DEF Fresh0, ConnRec
<1>8. \/ TurnAway(c, r, "ip", a)
      \/ Reject(c, r, NoDevice, TRUE) /\ UNCHANGED lockAudit
      \/ /\ active' = active + 1
         /\ conn' = [conn EXCEPT ![c] = h]
         /\ UNCHANGED <<tables, owed>>
  BY DEF Accept, cert, valid
<1> HIDE DEF r
<1>4. CASE TurnAway(c, r, "ip", a)
  <2>1. <<"ip", a>> \in LockKeys
    BY DEF LockKeys
  <2>2. Settles(c)
    BY <1>0, <1>2, <1>4, <2>1, TurnAwaySettles DEF Waiting
  <2> QED
    BY <1>0, <1>3, <2>2, SettlesPreserves
<1>5. CASE Reject(c, r, NoDevice, TRUE) /\ UNCHANGED lockAudit
  <2>1. lockAudit' \in [LockKeys -> Nat]
    BY <1>0, <1>5 DEF TypeOK
  <2>2. Settles(c)
    BY <1>0, <1>2, <1>5, <2>1, RejectSettles DEF Waiting
  <2> QED
    BY <1>0, <1>3, <2>2, SettlesPreserves
<1>6. CASE /\ active' = active + 1
           /\ conn' = [conn EXCEPT ![c] = h]
           /\ UNCHANGED <<tables, owed>>
  <2>1. /\ h \in ConnRec /\ h.pc = "hello" /\ h.ip \in Addrs /\ h.base = valid /\ h.cert = cert
    <3>1. now + MsgTimeout \in Nat
      BY <1>0, ServiceAssumption DEF TypeOK
    <3> DEFINE t == now + MsgTimeout
    <3>3. t \in Nat
      BY <3>1
    <3> HIDE DEF t
    <3>4. h = [r EXCEPT !.pc = "hello", !.deadline = t]
      BY DEF t
    <3> HIDE DEF h
    <3> QED
      BY <1>2, <3>3, <3>4 DEF ConnRec, Holding
  <2> HIDE DEF h
  <2>2. /\ conn' \in [Conns -> ConnRec] /\ conn'[c] = h
        /\ \A x \in Conns \ {c} : conn'[x] = conn[x]
    BY <1>0, <1>6, <2>1
  <2>3. Slots' /\ active' \in Nat
    <3>1. active' = active + (IF h.pc \in Holding THEN 1 ELSE 0)
                           - (IF conn[c].pc \in Holding THEN 1 ELSE 0)
      BY <1>0, <1>6, <2>1 DEF Holding, TypeOK
    <3> QED
      BY <1>0, <1>6, <2>1, <3>1, SlotsMove DEF IInv
  <2>4. TypeOK'
    BY <1>0, <1>3, <1>6, <2>2, <2>3, Reloads DEF TypeOK, ConnRec, tables
  <2>5. Placed'
    BY <2>1, <2>2 DEF IInv, Placed
  <2>6. Room'
    BY <1>3, RoomShrinks DEF IInv
  <2>7. Challenges'
    BY <1>0, <1>3, <2>2 DEF IInv, Challenges
  <2>8. (GrantIsWarranted /\ OneGrantPerChallenge /\ RevocationBindsNewSessions)'
    BY <1>3 DEF IInv, GrantIsWarranted, OneGrantPerChallenge, RevocationBindsNewSessions
  <2>9. Spent'
    BY <1>0, <1>3, <2>2 DEF IInv, Spent
  <2>10. Vetted'
    BY <1>1, <1>7, <2>1, <2>2 DEF IInv, Vetted, valid
  <2>11. LockoutIsReported'
    BY <1>0, <1>6, <2>2 DEF IInv, LockoutIsReported, TypeOK
  <2> QED
    BY <2>3, <2>4, <2>5, <2>6, <2>7, <2>8, <2>9, <2>10, <2>11 DEF IInv
<1> QED
  BY <1>4, <1>5, <1>6, <1>8

\* The challenge that issue_challenge() adds when there is room for it.
LEMMA RoomForOne ==
    ASSUME Room, NEW q, DOMAIN q \subseteq DOMAIN pending, NEW c, NEW e,
           Cardinality(DOMAIN q) < MaxPending, pending' = Put(q, c, e)
    PROVE  Room'
<1>1. IsFiniteSet(DOMAIN q)
  BY FS_Subset DEF Room
<1>2. DOMAIN pending' = DOMAIN q \cup {c}
  BY DEF Put
<1>3. /\ IsFiniteSet(DOMAIN q \cup {c})
      /\ Cardinality(DOMAIN q \cup {c}) \in {Cardinality(DOMAIN q), Cardinality(DOMAIN q) + 1}
  BY <1>1, FS_AddElement
<1>4. Cardinality(DOMAIN q) \in Nat
  BY <1>1, FS_CardinalityType
<1> QED
  BY <1>2, <1>3, <1>4, ServiceAssumption DEF Room

\* A hello that is answered with a challenge.
LEMMA ChallengePreserves ==
    ASSUME IInv, NEW c \in Conns, NEW d \in Devices,
           conn[c].pc = "hello", Identified(c, d) = d,
           Cardinality(DOMAIN Current(pending)) < MaxPending,
           IssueChallenge(c, d),
           conn' = [conn EXCEPT ![c] =
               [@ EXCEPT !.pc = "challenge", !.dev = d,
                         !.deadline = now + ChallengeTtl + ReplySlack]],
           UNCHANGED <<now, active, tables, config, disk, signed, grants, audited, owed>>
    PROVE  IInv'
<1> DEFINE s == [conn[c] EXCEPT !.pc = "challenge", !.dev = d,
                                !.deadline = now + ChallengeTtl + ReplySlack]
           q == Current(pending)
           e == [dev |-> d, t0 |-> now]
<1>0. TypeOK /\ conn \in [Conns -> ConnRec] /\ conn[c].ip \in Addrs /\ conn[c] \in ConnRec
  BY DEF IInv, TypeOK, ConnRec, Placed, Holding
<1>1. /\ s \in ConnRec /\ s.pc = "challenge" /\ s.dev = d /\ s.base = conn[c].base
      /\ s.ip = conn[c].ip
  <2>1. now + ChallengeTtl + ReplySlack \in Nat
    BY <1>0, ServiceAssumption DEF TypeOK
  <2> DEFINE t == now + ChallengeTtl + ReplySlack
  <2>2. t \in Nat
    BY <2>1
  <2> HIDE DEF t
  <2>3. s = [conn[c] EXCEPT !.pc = "challenge", !.dev = d, !.deadline = t]
    BY DEF t
  <2> HIDE DEF s
  <2> QED
    BY <1>0, <2>2, <2>3 DEF ConnRec, Holding
<1>2. conn' = [conn EXCEPT ![c] = s]
  BY <1>0
<1> HIDE DEF s
<1>3. /\ conn' \in [Conns -> ConnRec] /\ conn'[c] = s
      /\ \A x \in Conns \ {c} : conn'[x] = conn[x]
  BY <1>0, <1>1, <1>2
<1>4. /\ DOMAIN q \subseteq DOMAIN pending
      /\ \A n \in DOMAIN q : q[n] = pending[n]
  BY DEF Current
<1>5. pending' = Put(q, c, e) /\ chal' = Put(chal, c, e)
  BY DEF IssueChallenge
<1>6. c \notin DOMAIN chal /\ DOMAIN pending \subseteq DOMAIN chal
  BY DEF IInv, Challenges
<1> HIDE DEF q
<1>7. /\ DOMAIN chal' = DOMAIN chal \cup {c} /\ chal'[c] = e
      /\ \A n \in DOMAIN chal : chal'[n] = chal[n]
      /\ DOMAIN pending' = DOMAIN q \cup {c} /\ pending'[c] = e
      /\ \A n \in DOMAIN q : pending'[n] = pending[n]
  BY <1>4, <1>5, <1>6 DEF Put
<1>8. e.dev = d /\ e.t0 = now /\ now \in Nat
  BY <1>0 DEF TypeOK
<1> HIDE DEF e
<1>9. TypeOK'
  BY <1>0, <1>3, <1>4, <1>7, <1>8 DEF TypeOK, ConnRec, tables, config
<1>10. Placed'
  BY <1>0, <1>1, <1>3 DEF IInv, Placed
<1>11. Slots'
  <2>1. active' = active + (IF s.pc \in Holding THEN 1 ELSE 0)
                         - (IF conn[c].pc \in Holding THEN 1 ELSE 0)
    BY <1>0, <1>1 DEF Holding, TypeOK
  <2> QED
    BY <1>0, <1>1, <1>2, <2>1, SlotsMove DEF IInv, Holding
<1>12. Room'
  BY <1>4, <1>5, RoomForOne DEF IInv, q
<1>13. Challenges'
  <2>1. \A x \in signed : x[1] \in DOMAIN chal /\ x[2] = chal[x[1]].dev
    BY DEF IInv, Challenges
  <2> QED
    BY <1>0, <1>1, <1>3, <1>4, <1>6, <1>7, <1>8, <2>1 DEF IInv, Challenges
<1>14. GrantIsWarranted'
  BY <1>7 DEF IInv, GrantIsWarranted
<1>15. OneGrantPerChallenge' /\ RevocationBindsNewSessions'
  BY DEF IInv, OneGrantPerChallenge, RevocationBindsNewSessions
<1>16. Spent'
  BY <1>3, <1>4, <1>6, <1>7 DEF IInv, Spent, GrantIsWarranted
<1>17. Vetted'
  <2>1. d \in conn[c].base
    BY ServiceAssumption DEF IInv, Vetted, Identified, Registered
  <2> QED
    BY <1>1, <1>3, <2>1 DEF IInv, Vetted, config
<1>18. LockoutIsReported'
  BY <1>0, <1>3 DEF IInv, LockoutIsReported, TypeOK
<1> QED
  BY <1>9, <1>10, <1>11, <1>12, <1>13, <1>14, <1>15, <1>16, <1>17, <1>18 DEF IInv

\* A hello.
LEMMA HelloPreserves ==
    ASSUME IInv, NEW c \in Conns, NEW d \in Devices, Hello(c, d)
    PROVE  IInv'
<1>0. /\ TypeOK /\ conn[c] \in ConnRec /\ conn[c].pc = "hello" /\ conn[c].pc \in Waiting
      /\ conn[c].ip \in Addrs
      /\ UNCHANGED <<now, config, disk, signed, grants, audited>>
  BY DEF IInv, TypeOK, ConnRec, Placed, Hello, Holding, Waiting
<1>1. ASSUME NEW inner \in BOOLEAN, Reject(c, conn[c], NoDevice, inner),
             UNCHANGED <<lockAudit, chal>>, pending' \in {pending, Current(pending)}
      PROVE  IInv'
  <2>1. lockAudit' \in [LockKeys -> Nat]
    BY <1>0, <1>1 DEF TypeOK
  <2>2. Settles(c)
    BY <1>0, <1>1, <2>1, RejectSettles
  <2>3. /\ DOMAIN pending' \subseteq DOMAIN pending
        /\ \A n \in DOMAIN pending' : pending'[n] = pending[n]
    BY <1>1 DEF Current
  <2> QED
    BY <1>0, <1>1, <2>2, <2>3, SettlesPreserves
<1>2. ASSUME TurnAway(c, conn[c], "device", d), UNCHANGED <<pending, chal>>
      PROVE  IInv'
  <2>1. <<"device", d>> \in LockKeys
    BY DEF LockKeys
  <2>2. Settles(c)
    BY <1>0, <1>2, <2>1, TurnAwaySettles
  <2> QED
    BY <1>0, <1>2, <2>2, SettlesPreserves
<1>3. ASSUME Identified(c, d) = d,
             Cardinality(DOMAIN Current(pending)) < MaxPending,
             IssueChallenge(c, d),
             conn' = [conn EXCEPT ![c] =
               [@ EXCEPT !.pc = "challenge", !.dev = d,
                         !.deadline = now + ChallengeTtl + ReplySlack]],
             UNCHANGED <<active, tables, owed>>
      PROVE  IInv'
  BY <1>0, <1>3, ChallengePreserves
<1> QED
  BY <1>1, <1>2, <1>3 DEF Hello

\* check_response() accepts only a signature that the device's phone made over
\* this very nonce: neither the laptop's own nor one over another nonce will do.
LEMMA VerdictMeansConsent ==
    ASSUME IInv, NEW c \in Conns, NEW n, NEW sig \in Signatures, Verdict(c, n, sig)
    PROVE  <<n, conn[c].dev>> \in signed
<1>1. sig = <<conn[c].dev, <<"response", n, conn[c].dev>>>>
  BY DEF Verdict, VerifySig, SignedMessage
<1>2. ASSUME NEW m \in DOMAIN chal
      PROVE  sig # <<"laptop", SignedMessage("challenge", m, chal[m].dev)>>
  BY <1>1 DEF SignedMessage
<1>3. sig # <<"nobody">>
  BY <1>1
<1>4. PICK x \in signed : sig = <<x[2], <<"response", x[1], x[2]>>>>
  BY <1>2, <1>3 DEF Signatures, SignedMessage
<1>5. x \in Conns \X Devices
  BY DEF IInv, TypeOK
<1>6. x[1] = n /\ x[2] = conn[c].dev
  BY <1>1, <1>4
<1> QED
  BY <1>5, <1>6

\* A response that authorises.
LEMMA GrantPreserves ==
    ASSUME IInv, NEW c \in Conns, NEW n \in Conns, NEW sig \in Signatures,
           Response(c, n, sig), Verdict(c, n, sig)
    PROVE  IInv'
<1> DEFINE g == [conn |-> c, nonce |-> n, dev |-> conn[c].dev, at |-> now,
                 base |-> conn[c].base]
           s == IF disk THEN [conn[c] EXCEPT !.pc = "sending"] ELSE Closed
<1>0. /\ TypeOK /\ conn \in [Conns -> ConnRec] /\ conn[c] \in ConnRec
      /\ conn[c].pc = "challenge" /\ conn[c].ip \in Addrs /\ now \in Nat
  BY DEF IInv, TypeOK, ConnRec, Placed, Response, Holding
<1>1. /\ n \in DOMAIN pending /\ pending[n].dev = conn[c].dev
      /\ now - pending[n].t0 <= ChallengeTtl
  BY DEF Verdict
<1>2. <<n, conn[c].dev>> \in signed
  BY VerdictMeansConsent
<1>3. /\ grants' = grants \cup {g}
      /\ UNCHANGED <<now, lockAudit, config, disk, signed, chal, owed>>
  BY DEF Response
<1>4. DOMAIN pending' = DOMAIN pending \ {n} /\ \A m \in DOMAIN pending' : pending'[m] = pending[m]
  BY DEF Response, Used
<1>5. conn' = [conn EXCEPT ![c] = s] /\ active' = IF disk THEN active ELSE active - 1
  BY <1>0 DEF Response, LeaveByError, Leave
<1>6. /\ s \in ConnRec /\ s.pc \in {"sending", "closed"}
      /\ s.pc \in Holding => s.ip \in Addrs
      /\ s.pc = IF disk THEN "sending" ELSE "closed"
  BY <1>0, ClosedType DEF ConnRec, Holding
<1> HIDE DEF s
<1>7. /\ conn' \in [Conns -> ConnRec] /\ conn'[c] = s
      /\ \A x \in Conns \ {c} : conn'[x] = conn[x]
  BY <1>0, <1>5, <1>6
<1>8. IsTable(ipB', Addrs) /\ IsTable(devB', Devices)
  <2>1. IsTable(SuccessTable(ipB, conn[c].ip), Addrs) /\ IsTable(SuccessTable(devB, conn[c].dev), Devices)
    BY <1>0, SuccessTableShape DEF TypeOK
  <2>2. IsTable(FailTable(SuccessTable(ipB, conn[c].ip), conn[c].ip, now), Addrs)
    BY <1>0, <2>1, FailTableShape
  <2> QED
    BY <2>1, <2>2 DEF Response
<1>9. audited' \subseteq Conns
  BY <1>0 DEF Response, TypeOK
<1>10. Slots' /\ active' \in Nat
  <2>1. active' = active + (IF s.pc \in Holding THEN 1 ELSE 0)
                         - (IF conn[c].pc \in Holding THEN 1 ELSE 0)
    BY <1>0, <1>5, <1>6 DEF Holding, TypeOK
  <2> QED
    BY <1>0, <1>5, <1>6, <2>1, SlotsMove DEF IInv, Holding
<1>11. TypeOK'
  BY <1>0, <1>3, <1>4, <1>7, <1>8, <1>9, <1>10 DEF TypeOK, ConnRec, config
<1>12. Placed'
  BY <1>6, <1>7 DEF IInv, Placed
<1>13. Room'
  BY <1>4, RoomShrinks DEF IInv
<1>14. Challenges'
  BY <1>3, <1>4, <1>6, <1>7 DEF IInv, Challenges
<1>15. n \in DOMAIN chal /\ pending[n] = chal[n] /\ \A h \in grants : h.nonce # n
  BY <1>1 DEF IInv, Challenges, Spent
<1>16. GrantIsWarranted'
  <2>1. /\ g.nonce = n /\ g.dev = conn[c].dev /\ g.at = now /\ <<g.nonce, g.dev>> \in signed
    BY <1>2
  <2> HIDE DEF g
  <2> QED
    BY <1>1, <1>3, <1>15, <2>1 DEF IInv, GrantIsWarranted
<1>17. OneGrantPerChallenge'
  BY <1>3, <1>15 DEF IInv, OneGrantPerChallenge
<1>18. Spent'
  BY <1>3, <1>4, <1>6, <1>7 DEF IInv, Spent
<1>19. Vetted'
  BY <1>3, <1>6, <1>7 DEF IInv, Vetted, config
<1>20. RevocationBindsNewSessions'
  BY <1>0, <1>3 DEF IInv, RevocationBindsNewSessions, Vetted
<1>21. LockoutIsReported'
  BY <1>0, <1>3, <1>7 DEF IInv, LockoutIsReported, TypeOK
<1> QED
  BY <1>10, <1>11, <1>12, <1>13, <1>14, <1>16, <1>17, <1>18, <1>19, <1>20, <1>21 DEF IInv

\* A response.
LEMMA ResponsePreserves ==
    ASSUME IInv, NEW c \in Conns, NEW n \in Conns, NEW sig \in Signatures, Response(c, n, sig)
    PROVE  IInv'
<1>1. CASE ~Verdict(c, n, sig)
  <2>0. /\ TypeOK /\ conn[c] \in ConnRec /\ conn[c].pc = "challenge" /\ conn[c].pc \in Waiting
        /\ conn[c].ip \in Addrs /\ conn[c].dev \in Devices \cup {NoDevice}
    BY DEF IInv, TypeOK, ConnRec, Placed, Response, Holding, Waiting
  <2>1. /\ Reject(c, conn[c], conn[c].dev, TRUE)
        /\ UNCHANGED <<now, lockAudit, config, disk, signed, chal, grants, audited>>
    BY <1>1 DEF Response
  <2>2. lockAudit' \in [LockKeys -> Nat]
    BY <2>0, <2>1 DEF TypeOK
  <2>3. Settles(c)
    BY <2>0, <2>1, <2>2, RejectSettles
  <2>4. /\ DOMAIN pending' \subseteq DOMAIN pending
        /\ \A m \in DOMAIN pending' : pending'[m] = pending[m]
    BY DEF Response, Used
  <2> QED
    BY <2>0, <2>1, <2>3, <2>4, SettlesPreserves
<1>2. CASE Verdict(c, n, sig)
  BY <1>2, GrantPreserves
<1> QED
  BY <1>1, <1>2

\* A phone signs the challenge it was sent.
LEMMA SignPreserves ==
    ASSUME IInv, NEW n \in Conns, Sign(n)
    PROVE  IInv'
<1>0. /\ TypeOK /\ n \in DOMAIN chal /\ signed' = signed \cup {<<n, chal[n].dev>>}
      /\ UNCHANGED <<now, conn, active, pending, ipB, devB, lockAudit, loaded, changed,
                     enabled, missed, disk, chal, grants, audited, owed>>
  BY DEF IInv, Sign, tables, config, history
<1>1. TypeOK'
  BY <1>0 DEF IInv, TypeOK, Challenges
<1>2. Placed' /\ Slots' /\ Room'
  BY <1>0 DEF IInv, Placed, Slots, Busy, Room
<1>3. Challenges'
  BY <1>0 DEF IInv, Challenges
<1>4. (GrantIsWarranted /\ OneGrantPerChallenge /\ RevocationBindsNewSessions /\ Spent)'
  BY <1>0 DEF IInv, GrantIsWarranted, OneGrantPerChallenge, RevocationBindsNewSessions, Spent
<1>5. Vetted' /\ LockoutIsReported'
  BY <1>0 DEF IInv, Vetted, LockoutIsReported
<1> QED
  BY <1>1, <1>2, <1>3, <1>4, <1>5 DEF IInv

\* Revocation, a failing disk and the passing of time.
LEMMA EnvironmentPreserves ==
    ASSUME IInv, Tick \/ ToggleDisk \/ (\E d \in Devices : Revoke(d)) \/ UNCHANGED vars
    PROVE  IInv'
<1>0. /\ TypeOK /\ enabled' \subseteq enabled /\ now' \in Nat /\ disk' \in BOOLEAN
      /\ \/ UNCHANGED config
         \/ changed' = TRUE /\ missed' = {}
      /\ UNCHANGED <<conn, active, pending, ipB, devB, lockAudit, loaded, signed,
                     chal, grants, audited, owed>>
  <2>0. TypeOK
    BY DEF IInv
  <2>1. CASE Tick
    BY <2>0, <2>1 DEF TypeOK, Tick, tables, config, history
  <2>2. CASE ToggleDisk
    BY <2>0, <2>2 DEF TypeOK, ToggleDisk, tables, config, history
  <2>3. ASSUME NEW d \in Devices, Revoke(d)
        PROVE  /\ enabled' \subseteq enabled /\ changed' = TRUE /\ missed' = {}
               /\ UNCHANGED <<now, conn, active, pending, ipB, devB, lockAudit, loaded, disk,
                              signed, chal, grants, audited, owed>>
    BY <2>3 DEF Revoke, tables, history
  <2>4. CASE \E d \in Devices : Revoke(d)
    BY <2>0, <2>3, <2>4 DEF TypeOK
  <2>5. CASE UNCHANGED vars
    BY <2>0, <2>5 DEF TypeOK, vars, tables, config, history
  <2> QED
    BY <2>1, <2>2, <2>4, <2>5
<1>1. TypeOK'
  BY <1>0 DEF TypeOK, config
<1>2. Placed' /\ Slots' /\ Room' /\ Challenges'
  BY <1>0 DEF IInv, Placed, Slots, Busy, Room, Challenges
<1>3. (GrantIsWarranted /\ OneGrantPerChallenge /\ RevocationBindsNewSessions /\ Spent)'
  BY <1>0 DEF IInv, GrantIsWarranted, OneGrantPerChallenge, RevocationBindsNewSessions, Spent
<1>4. Vetted' /\ LockoutIsReported'
  BY <1>0 DEF IInv, Vetted, LockoutIsReported, config
<1> QED
  BY <1>1, <1>2, <1>3, <1>4 DEF IInv

\* A restart.
LEMMA CrashPreserves ==
    ASSUME IInv, Crash
    PROVE  IInv'
<1>0. /\ TypeOK /\ conn \in [Conns -> ConnRec]
      /\ pending' = NoEntries /\ ipB' = NoEntries /\ devB' = NoEntries
      /\ lockAudit' \in [LockKeys -> Nat] /\ active' = 0 /\ Reload /\ owed' = {}
      /\ UNCHANGED <<now, disk, signed, chal, grants, audited>>
  BY DEF IInv, TypeOK, ConnRec, Crash
<1>1. conn' = [c \in Conns |-> IF conn[c].pc \in Holding THEN Closed ELSE conn[c]]
  BY DEF Crash
<1>2. conn' \in [Conns -> ConnRec] /\ \A c \in Conns : conn'[c].pc \notin Holding
  BY <1>0, <1>1, ClosedType DEF Holding
<1>3. Busy' = {}
  BY <1>2 DEF Busy
<1>4. DOMAIN pending' = {}
  BY <1>0 DEF NoEntries
<1>5. Slots' /\ Room'
  BY <1>0, <1>3, <1>4, FS_EmptySet, ServiceAssumption DEF Slots, Room
<1>6. TypeOK'
  BY <1>0, <1>2, <1>4, Reloads DEF TypeOK, ConnRec, IsTable, NoEntries
<1>7. Placed'
  BY <1>2 DEF Placed
<1>8. Challenges'
  BY <1>0, <1>1, <1>4, ClosedType DEF IInv, Challenges, Holding
<1>9. (GrantIsWarranted /\ OneGrantPerChallenge /\ RevocationBindsNewSessions)'
  BY <1>0 DEF IInv, GrantIsWarranted, OneGrantPerChallenge, RevocationBindsNewSessions
<1>10. Spent'
  BY <1>0, <1>1, <1>4, ClosedType DEF IInv, Spent
<1>11. Vetted'
  BY <1>0, <1>2, Reloads DEF Vetted, Holding
<1>12. LockoutIsReported'
  BY <1>0 DEF LockoutIsReported
<1> QED
  BY <1>5, <1>6, <1>7, <1>8, <1>9, <1>10, <1>11, <1>12 DEF IInv

\* The inductive invariant of the service.
THEOREM ServiceInvariance == Spec => []IInv
<1>1. Init => IInv
  <2> SUFFICES ASSUME Init PROVE IInv
    OBVIOUS
  <2>1. Fresh0 \in ConnRec /\ Fresh0.pc = "idle"
    BY DEF Fresh0, ConnRec
  <2>2. conn \in [Conns -> ConnRec] /\ \A c \in Conns : conn[c].pc = "idle"
    BY <2>1 DEF Init
  <2>3. Busy = {} /\ DOMAIN pending = {} /\ DOMAIN chal = {}
    BY <2>2 DEF Init, Busy, Holding, NoEntries
  <2>4. Slots /\ Room
    BY <2>3, FS_EmptySet, ServiceAssumption DEF Init, Slots, Room
  <2>5. TypeOK
    BY <2>2, <2>3, ServiceAssumption DEF Init, TypeOK, ConnRec, IsTable, NoEntries
  <2>6. Placed /\ Vetted
    BY <2>2 DEF Init, Placed, Vetted, Holding
  <2>7. Challenges
    BY <2>3 DEF Init, Challenges
  <2>8. Spent /\ GrantIsWarranted /\ OneGrantPerChallenge /\ RevocationBindsNewSessions
    BY DEF Init, Spent, GrantIsWarranted, OneGrantPerChallenge, RevocationBindsNewSessions
  <2>9. LockoutIsReported
    BY DEF Init, LockoutIsReported
  <2> QED
    BY <2>4, <2>5, <2>6, <2>7, <2>8, <2>9 DEF IInv
<1>2. IInv /\ [Next]_vars => IInv'
  <2> SUFFICES ASSUME IInv, [Next]_vars PROVE IInv'
    OBVIOUS
  <2>1. CASE Tick \/ ToggleDisk \/ Stop \/ (\E d \in Devices : Revoke(d)) \/ UNCHANGED vars
    BY <2>1, EnvironmentPreserves DEF Stop
  <2>2. CASE Crash
    BY <2>2, CrashPreserves
  <2>3. ASSUME NEW c \in Conns, NEW a \in Addrs, NEW d \in Devices \cup {NoDevice}, Accept(c, a, d)
        PROVE  IInv'
    BY <2>3, AcceptPreserves
  <2>4. ASSUME NEW c \in Conns, NEW d \in Devices, Hello(c, d)
        PROVE  IInv'
    BY <2>4, HelloPreserves
  <2>5. ASSUME NEW c \in Conns, NEW malformed \in BOOLEAN,
               BadHello(c, malformed) \/ BadResponse(c, malformed)
        PROVE  IInv'
    BY <2>5, FailedWaitPreserves
  <2>6. ASSUME NEW c \in Conns, NEW n \in Conns, NEW sig \in Signatures, Response(c, n, sig)
        PROVE  IInv'
    BY <2>6, ResponsePreserves
  <2>7. ASSUME NEW c \in Conns,
               Refuse(c) \/ TimeOut(c) \/ PeerClosed(c) \/ FinishReject(c) \/ FinishClose(c) \/ Sign(c)
        PROVE  IInv'
    BY <2>7, RefusePreserves, FailedWaitPreserves, FinishClosePreserves, FinishRejectPreserves,
       SignPreserves
  <2> QED
    BY <2>1, <2>2, <2>3, <2>4, <2>5, <2>6, <2>7 DEF Next
<1> QED
  BY <1>1, <1>2, PTL DEF Spec

----------------------------------------------------------------------------
(* What follows from the inductive invariant. *)

\* Every variable of the service keeps its type; self.active never goes below 0.
THEOREM TypeCorrect == Spec => []TypeOK
<1>1. IInv => TypeOK
  BY DEF IInv
<1> QED
  BY <1>1, ServiceInvariance, PTL

\* No end of a handler loses a slot or returns one twice, and both caps hold.
THEOREM NoSlotIsLost == Spec => []ResourcesBounded
<1>1. IInv => ResourcesBounded
  BY DEF IInv, ResourcesBounded, Slots, Busy, Room
<1> QED
  BY <1>1, ServiceInvariance, PTL

\* A challenge is behind one grant at most.
THEOREM ChallengesAreSingleUse == Spec => []OneGrantPerChallenge
<1>1. IInv => OneGrantPerChallenge
  BY DEF IInv
<1> QED
  BY <1>1, ServiceInvariance, PTL

\* A grant rests on a challenge of its device, signed by its phone in time.
THEOREM GrantsAreWarranted == Spec => []GrantIsWarranted
<1>1. IInv => GrantIsWarranted
  BY DEF IInv
<1> QED
  BY <1>1, ServiceInvariance, PTL

\* A device revoked before a connection is accepted cannot be authorised on it,
\* unless the reload the listener goes by missed the revocation.
THEOREM RevocationBinds == Spec => []RevocationBindsNewSessions
<1>1. IInv => RevocationBindsNewSessions
  BY DEF IInv
<1> QED
  BY <1>1, ServiceInvariance, PTL

\* A lockout is on record when the handler that started it ends, unless the log
\* failed at that moment or the listener died before.
THEOREM LockoutsAreReported == Spec => []LockoutIsReported
<1>1. IInv => LockoutIsReported
  BY DEF IInv
<1> QED
  BY <1>1, ServiceInvariance, PTL

----------------------------------------------------------------------------
(* The sessions implement Authorisation. *)

\* What a session has authorised, as Authorisation sees it.
Given == {<<g.nonce, g.conn>> : g \in grants}

\* A step that touches neither the clock, the challenges, the signatures nor the
\* grants is a stutter of Authorisation.
LEMMA QuietStep ==
    ASSUME UNCHANGED <<now, chal, signed, grants>>
    PROVE  UNCHANGED Auth!vars
  BY DEF Auth!vars

\* The hello that is answered with a challenge is Authorisation's Challenge.
LEMMA ChallengeStep ==
    ASSUME IInv, NEW c \in Conns, NEW d \in Devices, Hello(c, d)
    PROVE  Auth!Challenge(c, d) \/ UNCHANGED Auth!vars
<1>1. conn[c].pc = "hello" /\ UNCHANGED <<now, signed, grants>>
  BY DEF Hello
<1>2. CASE UNCHANGED chal
  BY <1>1, <1>2, QuietStep
<1>3. CASE IssueChallenge(c, d)
  <2>1. c \notin DOMAIN chal
    BY <1>1 DEF IInv, Challenges
  <2>2. chal' = [m \in DOMAIN chal \cup {c} |->
                   IF m = c THEN [dev |-> d, t0 |-> now] ELSE chal[m]]
    BY <1>3 DEF IssueChallenge, Put
  <2>3. Given' = Given
    BY <1>1 DEF Given
  <2> QED
    BY <1>1, <2>1, <2>2, <2>3 DEF Auth!Challenge, Given
<1> QED
  BY <1>2, <1>3 DEF Hello

\* The response that authorises is Authorisation's Give.
LEMMA GiveStep ==
    ASSUME IInv, NEW c \in Conns, NEW n \in Conns, NEW sig \in Signatures, Response(c, n, sig)
    PROVE  Auth!Give(n, c) \/ UNCHANGED Auth!vars
<1>1. conn[c].pc = "challenge" /\ UNCHANGED <<now, chal, signed>>
  BY DEF Response
<1>2. CASE ~Verdict(c, n, sig)
  BY <1>1, <1>2, QuietStep DEF Response
<1>3. CASE Verdict(c, n, sig)
  <2> DEFINE g == [conn |-> c, nonce |-> n, dev |-> conn[c].dev, at |-> now,
                   base |-> conn[c].base]
  <2>1. /\ n \in DOMAIN pending /\ pending[n].dev = conn[c].dev
        /\ now - pending[n].t0 <= ChallengeTtl
    BY <1>3 DEF Verdict
  <2>2. n \in DOMAIN chal /\ pending[n] = chal[n]
    BY <2>1 DEF IInv, Challenges
  <2>3. <<n, chal[n].dev>> \in signed
    BY <1>3, <2>1, <2>2, VerdictMeansConsent
  <2>4. grants' = grants \cup {g}
    BY <1>3 DEF Response
  <2>5. \A h \in grants : h.nonce # n /\ h.conn # c
    BY <1>1, <2>1 DEF IInv, Spent
  <2>6. g.nonce = n /\ g.conn = c
    OBVIOUS
  <2> HIDE DEF g
  <2>7. Given' = Given \cup {<<n, c>>}
    BY <2>4, <2>6 DEF Given
  <2>8. \A x \in Given : x[1] # n /\ x[2] # c
    BY <2>5 DEF Given
  <2> QED
    BY <1>1, <2>1, <2>2, <2>3, <2>7, <2>8 DEF Auth!Give, Given
<1> QED
  BY <1>2, <1>3

\* Every step of the service is a step or a stutter of Authorisation.
LEMMA StepAuthorises ==
    ASSUME IInv, [Next]_vars
    PROVE  [Auth!Next]_Auth!vars
<1>1. CASE Tick
  <2>1. Given' = Given
    BY <1>1 DEF Tick, history, Given
  <2> QED
    BY <1>1, <2>1 DEF Tick, history, Auth!Next, Auth!Pass, Given
<1>2. CASE Crash \/ ToggleDisk \/ Stop \/ (\E d \in Devices : Revoke(d)) \/ UNCHANGED vars
  <2>1. UNCHANGED <<now, chal, signed, grants>>
    BY <1>2 DEF Crash, ToggleDisk, Stop, Revoke, vars, history
  <2> QED
    BY <2>1, QuietStep
<1>3. ASSUME NEW c \in Conns, NEW a \in Addrs, NEW d \in Devices \cup {NoDevice}, Accept(c, a, d)
      PROVE  UNCHANGED Auth!vars
  BY <1>3, QuietStep DEF Accept
<1>4. ASSUME NEW c \in Conns, NEW d \in Devices, Hello(c, d)
      PROVE  [Auth!Next]_Auth!vars
  BY <1>4, ChallengeStep DEF Auth!Next
<1>5. ASSUME NEW c \in Conns, NEW malformed \in BOOLEAN,
             BadHello(c, malformed) \/ BadResponse(c, malformed)
      PROVE  UNCHANGED Auth!vars
  BY <1>5, QuietStep DEF BadHello, BadResponse
<1>6. ASSUME NEW c \in Conns, NEW n \in Conns, NEW sig \in Signatures, Response(c, n, sig)
      PROVE  [Auth!Next]_Auth!vars
  BY <1>6, GiveStep DEF Auth!Next
<1>7. ASSUME NEW c \in Conns,
             Refuse(c) \/ TimeOut(c) \/ PeerClosed(c) \/ FinishReject(c) \/ FinishClose(c)
      PROVE  UNCHANGED Auth!vars
  <2>1. UNCHANGED <<now, chal, signed, grants>>
    BY <1>7 DEF Refuse, TimeOut, PeerClosed, FinishReject, FinishClose, history
  <2> QED
    BY <2>1, QuietStep
<1>8. ASSUME NEW c \in Conns, Sign(c)
      PROVE  [Auth!Next]_Auth!vars
  <2>1. Given' = Given
    BY <1>8 DEF Sign, history, Given
  <2>2. Auth!Consent(c)
    BY <1>8, <2>1 DEF Sign, history, Auth!Consent, Given
  <2> QED
    BY <2>2 DEF Auth!Next
<1> QED
  BY <1>1, <1>2, <1>3, <1>4, <1>5, <1>6, <1>7, <1>8 DEF Next

\* The sessions authorise exactly as Authorisation allows.
THEOREM ServiceAuthorises == Spec => Authorises
<1>1. Init => Auth!Init
  BY ServiceAssumption DEF Init, Auth!Init, NoEntries
<1>2. IInv /\ [Next]_vars => [Auth!Next]_Auth!vars
  BY StepAuthorises
<1> QED
  BY <1>1, <1>2, ServiceInvariance, PTL DEF Spec, Authorises, Auth!Spec
=============================================================================
