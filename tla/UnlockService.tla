---------------------------- MODULE UnlockService ----------------------------
(***************************************************************************)
(* The WebSocket side of the listener (listener.py, class UnlockService):  *)
(* connections that identify a device, receive a challenge, and are        *)
(* authorised or rejected, with the two backoff tables, the pending        *)
(* challenges, the connection cap and the audit records they share.  Each  *)
(* handler runs from one await to the next in one step; steps of different *)
(* connections interleave.  A connection is used once and issues at most   *)
(* one challenge, so its name also stands for the nonce it was given; a    *)
(* response may carry the nonce of any connection.                         *)
(***************************************************************************)
EXTENDS BackoffTable

CONSTANTS
    Conns, Addrs, Devices,
    NoDevice,        \* "no device", for None
    RequireMtls,     \* cfg["require_mtls"]
    MaxConnections,  \* cfg["max_connections"]
    MaxPending,      \* MAX_PENDING
    ChallengeTtl,    \* cfg["challenge_ttl"]
    MsgTimeout,      \* MSG_TIMEOUT
    ReplySlack,      \* seconds the response may take beyond challenge_ttl (2)
    AuditGap,        \* seconds between two attempt_during_lockout records (10)
    Faults,          \* subset of {"disk", "crash"}: what may go wrong
    StartTime,       \* the monotonic clock when the listener starts
    LastArrival,     \* bound: no connection is opened after this time
    MaxTime          \* bound on the clock

ASSUME ServiceAssumption ==
    /\ RequireMtls \in BOOLEAN
    /\ MaxConnections \in Nat /\ MaxPending \in Nat
    /\ ChallengeTtl \in Nat /\ MsgTimeout \in Nat /\ ReplySlack \in Nat
    /\ AuditGap \in Nat
    /\ StartTime \in Nat /\ LastArrival \in Nat /\ MaxTime \in Nat
    /\ NoDevice \notin Devices

VARIABLES
    now,       \* the monotonic clock
    conn,      \* the connections and where their handlers are
    active,    \* self.active
    pending,   \* self.pending: nonce -> [dev, t0]
    ipB,       \* self.ip_backoff.state
    devB,      \* self.dev_backoff.state
    lockAudit, \* self._last_lock_audit
    loaded,    \* enabled devices in the configuration in memory
    changed,   \* config.json's modification time is not the one noted (_mtime)
    enabled,   \* enabled devices in config.json
    disk,      \* the audit log can be written
    signed,    \* <<nonce, device>> pairs the phones have signed
    chal,      \* history: device and time of every challenge issued
    missed,    \* history: devices revoked between the read and the stat of the
               \* latest reload, until config.json changes again
    grants,    \* history: the broker.issue() calls, each with the base of its
               \* connection
    audited,   \* history: nonces with an unlock_authorized record
    owed       \* history: <<connection, kind>> of the lockouts that started, have
               \* no lockout record, and can still be expected to get one

tables == <<ipB, devB, lockAudit>>
config == <<loaded, changed, enabled, missed>>
history == <<chal, grants, audited, owed>>
vars == <<now, conn, active, pending, tables, config, disk, signed, history>>

\* ip, cert: what the connection came with; dev: the device it identified;
\* deadline: of the wait_for() it sleeps in; hits: lockouts its failure started;
\* inner: _fail() was called by _session() and not by an except clause of
\* handle(); base (history): the devices that were enabled when it was accepted,
\* or whose revocation the latest reload had missed.
Fresh0 == [pc |-> "idle", ip |-> "none", cert |-> NoDevice, dev |-> NoDevice,
           deadline |-> 0, hits |-> {}, inner |-> FALSE, base |-> {}]
Closed == [Fresh0 EXCEPT !.pc = "closed"]

Holding == {"hello", "challenge", "failing", "closing", "sending"}

LockKeys == ({"ip"} \X Addrs) \cup ({"device"} \X Devices)

Init ==
    /\ now = StartTime
    /\ conn = [c \in Conns |-> Fresh0]
    /\ active = 0
    /\ pending = NoEntries
    /\ ipB = NoEntries /\ devB = NoEntries
    /\ lockAudit = [k \in LockKeys |-> 0]
    /\ loaded = Devices /\ enabled = Devices /\ changed = FALSE /\ missed = {}
    /\ disk = TRUE
    /\ signed = {}
    /\ chal = NoEntries /\ grants = {} /\ audited = {} /\ owed = {}

----------------------------------------------------------------------------
(* Ends of a handler *)

\* The handler returns: the finally clause gives the slot back.
Leave(c) ==
    /\ conn' = [conn EXCEPT ![c] = Closed]
    /\ active' = active - 1

\* Faulty variant of LeaveByError: the slot is given back only on a return.
LeaveByErrorKeepingSlot(c) ==
    /\ conn' = [conn EXCEPT ![c] = Closed]
    /\ UNCHANGED active

\* Faulty variant of LeaveByError: the slot is given back twice.
LeaveByErrorTwice(c) ==
    /\ conn' = [conn EXCEPT ![c] = Closed]
    /\ active' = active - 2

\* An exception leaves handle(): the finally clause runs all the same.
LeaveByError(c) == Leave(c)

\* The device table after _fail(): an unidentified device is not charged.
Charged(c, dev) == IF dev = NoDevice THEN devB ELSE FailTable(devB, dev, now)

\* _fail() by connection c for address ip, up to its await.  "inner" as above:
\* when the record of an inner failure cannot be written, handle() calls _fail()
\* a second time, whose record fails too and leaves handle() as an exception.
Reject(c, r, dev, inner) ==
    LET once  == FailTable(ipB, r.ip, now)
        hits  == {k \in {"ip", "device"} :
                    IF k = "ip" THEN StartsLockout(ipB, r.ip, now)
                    ELSE dev # NoDevice /\ StartsLockout(devB, dev, now)}
    IN /\ devB' = Charged(c, dev)
       /\ \/ /\ disk
             /\ ipB' = once
             /\ conn' = [conn EXCEPT ![c] =
                  [r EXCEPT !.pc = "failing", !.dev = dev, !.hits = hits, !.inner = inner]]
             /\ owed' = owed \cup ({c} \X hits)
             /\ active' = IF conn[c].pc = "idle" THEN active + 1 ELSE active
          \/ /\ ~disk
             /\ ipB' = IF inner THEN FailTable(once, r.ip, now) ELSE once
             /\ IF conn[c].pc = "idle"
                THEN conn' = [conn EXCEPT ![c] = Closed] /\ UNCHANGED active
                ELSE LeaveByError(c)
             /\ UNCHANGED owed

\* Faulty variant of Reported: only the address's lockout is recorded.
ReportedAddressOnly(c) == {c} \X (conn[c].hits \cap {"ip"})

\* The lockouts the loop at the end of _fail() records.
Reported(c) == {c} \X conn[c].hits

\* _fail() after its await: the lockout records, then the end of the handler.
FinishReject(c) ==
    /\ conn[c].pc = "failing"
    /\ \/ /\ disk \/ conn[c].hits = {}
          /\ owed' = owed \ Reported(c)
          /\ UNCHANGED ipB
       \/ /\ ~disk /\ conn[c].hits # {}
          /\ owed' = owed \ ({c} \X conn[c].hits)
          /\ ipB' = IF conn[c].inner THEN FailTable(ipB, conn[c].ip, now) ELSE ipB
    /\ Leave(c)
    /\ UNCHANGED <<now, pending, devB, lockAudit, config, disk, signed, chal, grants,
                   audited>>

\* ws.close() or the send of the result is done.
FinishClose(c) ==
    /\ conn[c].pc \in {"closing", "sending"}
    /\ Leave(c)
    /\ UNCHANGED <<now, pending, tables, config, disk, signed, history>>

\* _locked(): the attempt is refused, and recorded at most once per AuditGap.
\* When that record cannot be written the attempt ends like an inner failure.
TurnAway(c, r, kind, key) ==
    LET record == now - lockAudit[<<kind, key>>] > AuditGap
    IN /\ lockAudit' = IF record THEN [lockAudit EXCEPT ![<<kind, key>>] = now] ELSE lockAudit
       /\ \/ /\ disk \/ ~record
             /\ conn' = [conn EXCEPT ![c] = [r EXCEPT !.pc = "closing"]]
             /\ active' = IF conn[c].pc = "idle" THEN active + 1 ELSE active
             /\ UNCHANGED <<ipB, devB, owed>>
          \/ /\ ~disk /\ record
             /\ Reject(c, r, NoDevice, FALSE)

----------------------------------------------------------------------------
(* handle() and _session() *)

\* Faulty variant of Full: one connection too many.
FullPlusOne == active > MaxConnections

\* self.active >= self.cfg["max_connections"]
Full == active >= MaxConnections

\* A connection over the cap is closed without taking a slot.
Refuse(c) ==
    /\ now <= LastArrival
    /\ conn[c].pc = "idle"
    /\ Full
    /\ conn' = [conn EXCEPT ![c] = Closed]
    /\ UNCHANGED <<now, active, pending, tables, config, disk, signed, history>>

\* Faulty variant of Reloaded: the configuration is read only at start-up.
ReloadedNever == loaded

\* What read_text() finds in config.json.
Reloaded == enabled

\* Config.reload() reads config.json and then takes its modification time.
\* pair.py is another process: devices it revokes between the two calls are
\* missed until config.json is replaced again.
Reload ==
    /\ loaded' = Reloaded
    /\ changed' = FALSE
    /\ \E late \in SUBSET enabled :
         enabled' = enabled \ late /\ missed' = late

\* self.cfg.reload_if_changed(), with the stat() that decides
ReloadIfChanged == IF changed THEN Reload ELSE UNCHANGED config

\* device_by_fp() and device_by_id(): the enabled device of that certificate or
\* that id in the configuration, if it is there.
Registered(devices, d) == IF d \in devices THEN d ELSE NoDevice

\* A connection with client certificate d (NoDevice: none, or not one of ours)
\* is accepted and its handler runs to its first await.
Accept(c, a, d) ==
    LET cert == Registered(loaded', d)
        r    == [Fresh0 EXCEPT !.ip = a, !.cert = cert, !.base = enabled' \cup missed']
    IN /\ now <= LastArrival
       /\ conn[c].pc = "idle"
       /\ ~Full
       /\ ReloadIfChanged
       /\ \/ /\ Locked(ipB, a, now)
             /\ TurnAway(c, r, "ip", a)
          \/ /\ ~Locked(ipB, a, now) /\ RequireMtls /\ cert = NoDevice
             /\ Reject(c, r, NoDevice, TRUE)
             /\ UNCHANGED lockAudit
          \/ /\ ~Locked(ipB, a, now) /\ (RequireMtls => cert # NoDevice)
             /\ active' = active + 1
             /\ conn' = [conn EXCEPT ![c] =
                  [r EXCEPT !.pc = "hello", !.deadline = now + MsgTimeout]]
             /\ UNCHANGED <<tables, owed>>
       /\ UNCHANGED <<now, pending, disk, signed, chal, grants, audited>>

\* A hello that is not a JSON object, or has the wrong type or no device id.
BadHello(c, malformed) ==
    /\ conn[c].pc = "hello"
    /\ Reject(c, conn[c], NoDevice, ~malformed)
    /\ UNCHANGED <<now, pending, lockAudit, config, disk, signed, chal, grants, audited>>

\* issue_challenge() first drops the challenges that have expired.
Current(p) == [n \in {m \in DOMAIN p : now - p[m].t0 <= ChallengeTtl} |-> p[n]]

\* issue_challenge() for device d, which is known to be within the cap.  The
\* nonce is named after the connection.
IssueChallenge(c, d) ==
    /\ pending' = Put(Current(pending), c, [dev |-> d, t0 |-> now])
    /\ chal' = Put(chal, c, [dev |-> d, t0 |-> now])

\* The device a hello for id d identifies, NoDevice if it is refused.
Identified(c, d) ==
    IF conn[c].cert # NoDevice
    THEN IF conn[c].cert = d THEN d ELSE NoDevice
    ELSE Registered(loaded, d)

\* A hello for device id d: the device is identified and challenged.
Hello(c, d) ==
    /\ conn[c].pc = "hello"
    /\ \/ /\ Identified(c, d) = NoDevice
          /\ Reject(c, conn[c], NoDevice, TRUE)
          /\ UNCHANGED <<pending, lockAudit, chal>>
       \/ /\ Identified(c, d) = d
          /\ Locked(devB, d, now)
          /\ TurnAway(c, conn[c], "device", d)
          /\ UNCHANGED <<pending, chal>>
       \/ /\ Identified(c, d) = d
          /\ ~Locked(devB, d, now)
          /\ Cardinality(DOMAIN Current(pending)) >= MaxPending
          /\ pending' = Current(pending)
          /\ Reject(c, conn[c], NoDevice, FALSE)
          /\ UNCHANGED <<lockAudit, chal>>
       \/ /\ Identified(c, d) = d
          /\ ~Locked(devB, d, now)
          /\ Cardinality(DOMAIN Current(pending)) < MaxPending
          /\ IssueChallenge(c, d)
          /\ conn' = [conn EXCEPT ![c] =
               [@ EXCEPT !.pc = "challenge", !.dev = d,
                         !.deadline = now + ChallengeTtl + ReplySlack]]
          /\ UNCHANGED <<active, tables, owed>>
    /\ UNCHANGED <<now, config, disk, signed, grants, audited>>

\* A response that is not a JSON object (the device is not charged), or has
\* another type or a malformed nonce (it is).
BadResponse(c, malformed) ==
    /\ conn[c].pc = "challenge"
    /\ Reject(c, conn[c], IF malformed THEN NoDevice ELSE conn[c].dev, ~malformed)
    /\ UNCHANGED <<now, pending, lockAudit, config, disk, signed, chal, grants, audited>>

\* Faulty variant of SignedMessage: the signed bytes leave the nonce out.
SignedMessageUnbound(role, n, d) == <<role, d>>

\* signed_message(): the bytes signed by the laptop when it challenges device d
\* with nonce n, and by the phone when it responds.  A nonce fixes its issue time.
SignedMessage(role, n, d) == <<role, n, d>>

\* The signatures anybody could have seen: the laptop's under its challenges,
\* the phones' under the responses they made; and one nobody made.
Signatures ==
    {<<"laptop", SignedMessage("challenge", n, chal[n].dev)>> : n \in DOMAIN chal}
      \cup {<<x[2], SignedMessage("response", x[1], x[2])>> : x \in signed}
      \cup {<<"nobody">>}

\* verify_sig(key, message, sig): the signature is that key's, over that message.
VerifySig(key, msg, sig) == sig = <<key, msg>>

\* Faulty variant of Verdict: the age of the challenge is not checked.
VerdictAgeless(c, n, sig) ==
    /\ n \in DOMAIN pending
    /\ pending[n].dev = conn[c].dev
    /\ VerifySig(conn[c].dev, SignedMessage("response", n, conn[c].dev), sig)

\* check_response(): the nonce is pending, was issued to this device, is young
\* enough, and its signature verifies.
Verdict(c, n, sig) ==
    /\ n \in DOMAIN pending
    /\ pending[n].dev = conn[c].dev
    /\ now - pending[n].t0 <= ChallengeTtl
    /\ VerifySig(conn[c].dev, SignedMessage("response", n, conn[c].dev), sig)

\* Faulty variant of Used: a nonce that failed to verify stays pending.
UsedKept(n) == pending

\* self.pending.pop(nonce): single use, even on failure
Used(n) == [m \in DOMAIN pending \ {n} |-> pending[m]]

\* The response carries nonce n and some signature.
Response(c, n, sig) ==
    /\ conn[c].pc = "challenge"
    /\ pending' = Used(n)
    /\ \/ /\ ~Verdict(c, n, sig)
          /\ Reject(c, conn[c], conn[c].dev, TRUE)
          /\ UNCHANGED <<grants, audited>>
       \/ /\ Verdict(c, n, sig)
          /\ devB' = SuccessTable(devB, conn[c].dev)
          /\ grants' = grants \cup {[conn |-> c, nonce |-> n, dev |-> conn[c].dev, at |-> now,
                                 base |-> conn[c].base]}
          /\ \/ /\ disk
                /\ ipB' = SuccessTable(ipB, conn[c].ip)
                /\ audited' = audited \cup {n}
                /\ conn' = [conn EXCEPT ![c].pc = "sending"]
                /\ UNCHANGED active
             \/ /\ ~disk
                /\ ipB' = FailTable(SuccessTable(ipB, conn[c].ip), conn[c].ip, now)
                /\ LeaveByError(c)
                /\ UNCHANGED audited
          /\ UNCHANGED owed
    /\ UNCHANGED <<now, lockAudit, config, disk, signed, chal>>

\* Faulty variant of Timed: the response is awaited without a timeout.
TimedHelloOnly == {"hello"}

\* Where the handler sleeps in a recv() under wait_for().
Timed == {"hello", "challenge"}

\* wait_for(ws.recv()) expires: the address is charged, the device is not.
TimeOut(c) ==
    /\ conn[c].pc \in Timed
    /\ now >= conn[c].deadline
    /\ Reject(c, conn[c], NoDevice, FALSE)
    /\ UNCHANGED <<now, pending, lockAudit, config, disk, signed, chal, grants, audited>>

\* The peer closes the connection: recv() raises ConnectionClosed, which costs
\* nothing.
PeerClosed(c) ==
    /\ conn[c].pc \in {"hello", "challenge"}
    /\ Leave(c)
    /\ UNCHANGED <<now, pending, tables, config, disk, signed, history>>

----------------------------------------------------------------------------
(* The phone, the administrator and the environment *)

\* The phone of a device checks the challenge it was sent and signs it; it need
\* not know that the listener has given up the connection.
Sign(n) ==
    /\ n \in DOMAIN chal
    /\ <<n, chal[n].dev>> \notin signed
    /\ signed' = signed \cup {<<n, chal[n].dev>>}
    /\ UNCHANGED <<now, conn, active, pending, tables, config, disk, history>>

\* pair.py revoke-device replaces config.json (see ConfigStore).
Revoke(d) ==
    /\ d \in enabled
    /\ enabled' = enabled \ {d}
    /\ changed' = TRUE /\ missed' = {}
    /\ UNCHANGED <<now, conn, active, pending, tables, loaded, disk, signed, history>>

\* The audit log becomes unwritable, or writable again.
ToggleDisk ==
    /\ "disk" \in Faults
    /\ disk' = ~disk
    /\ UNCHANGED <<now, conn, active, pending, tables, config, signed, history>>

\* The listener dies and is started again: everything it held in memory is gone,
\* lockouts and pending challenges included, and its connections with it.  The
\* next one loads config.json.
Crash ==
    /\ "crash" \in Faults
    /\ conn' = [c \in Conns |-> IF conn[c].pc \in Holding THEN Closed ELSE conn[c]]
    /\ active' = 0
    /\ pending' = NoEntries
    /\ ipB' = NoEntries /\ devB' = NoEntries
    /\ lockAudit' = [k \in LockKeys |-> 0]
    /\ Reload
    /\ owed' = {}
    /\ UNCHANGED <<now, disk, signed, chal, grants, audited>>

\* Time passes.  The event loop acts on an expired wait within the tick.
Tick ==
    /\ now < MaxTime
    /\ \A c \in Conns : conn[c].pc \in Timed => now < conn[c].deadline
    /\ now' = now + 1
    /\ UNCHANGED <<conn, active, pending, tables, config, disk, signed, history>>

\* The bound on the clock is reached.
Stop == now = MaxTime /\ UNCHANGED vars

Next ==
    \/ ToggleDisk \/ Crash \/ Tick \/ Stop
    \/ \E d \in Devices : Revoke(d)
    \/ \E c \in Conns :
         \/ \E a \in Addrs, d \in Devices \cup {NoDevice} : Accept(c, a, d)
         \/ \E d \in Devices : Hello(c, d)
         \/ \E malformed \in BOOLEAN : BadHello(c, malformed) \/ BadResponse(c, malformed)
         \/ \E n \in Conns, sig \in Signatures : Response(c, n, sig)
         \/ Refuse(c) \/ TimeOut(c) \/ PeerClosed(c) \/ FinishReject(c) \/ FinishClose(c)
         \/ Sign(c)

\* Time passes, expired waits are acted on, and sends and closes complete.
Fairness ==
    /\ WF_vars(Tick)
    /\ \A c \in Conns : WF_vars(TimeOut(c)) /\ WF_vars(FinishReject(c)) /\ WF_vars(FinishClose(c))

Spec == Init /\ [][Next]_vars /\ Fairness

----------------------------------------------------------------------------
\* Type correctness; the counter of active handlers never goes below zero.
TypeOK ==
    /\ now \in Nat /\ active \in Nat
    /\ conn \in [Conns -> [pc: {"idle", "closed"} \cup Holding,
                          ip: Addrs \cup {"none"},
                          cert: Devices \cup {NoDevice}, dev: Devices \cup {NoDevice},
                          deadline: Nat, hits: SUBSET {"ip", "device"},
                          inner: BOOLEAN, base: SUBSET Devices]]
    /\ DOMAIN pending \subseteq Conns
    /\ \A n \in DOMAIN pending : pending[n].dev \in Devices /\ pending[n].t0 \in Nat
    /\ IsTable(ipB, Addrs) /\ IsTable(devB, Devices)
    /\ lockAudit \in [LockKeys -> Nat]
    /\ loaded \subseteq Devices /\ enabled \subseteq Devices /\ missed \subseteq Devices
    /\ changed \in BOOLEAN
    /\ disk \in BOOLEAN
    /\ signed \subseteq Conns \X Devices
    /\ audited \subseteq Conns
    /\ owed \subseteq Conns \X {"ip", "device"}

\* The slots in use are those of the handlers still running, whatever ended
\* the others (return, exception in an except clause, failing audit log), so the
\* cap holds and no slot is lost; the pending challenges stay within theirs.
ResourcesBounded ==
    /\ active = Cardinality({c \in Conns : conn[c].pc \in Holding})
    /\ active <= MaxConnections
    /\ Cardinality(DOMAIN pending) <= MaxPending

\* A challenge authorises once: no nonce is behind two grants, even when it is
\* presented on several connections at the same time.
OneGrantPerChallenge ==
    \A g, h \in grants : g.nonce = h.nonce => g = h

\* Every grant rests on a challenge issued to that very device, signed by its
\* phone, and answered within challenge_ttl.
GrantIsWarranted ==
    \A g \in grants :
        /\ g.nonce \in DOMAIN chal
        /\ chal[g.nonce].dev = g.dev
        /\ <<g.nonce, g.dev>> \in signed
        /\ g.at - chal[g.nonce].t0 <= ChallengeTtl

\* The sessions together authorise as Authorisation allows: over all their
\* interleavings, failing records and restarts, each unlock rests on a challenge
\* of its own that its device signed and that was young and unused, and no
\* session authorises twice.
Auth == INSTANCE Authorisation
    WITH Nonces <- Conns, Sessions <- Conns, Ttl <- ChallengeTtl,
         issued <- chal, consents <- signed,
         given <- {<<g.nonce, g.conn>> : g \in grants}
Authorises == Auth!Spec

\* A connection accepted after a device was revoked never unlocks for it, unless
\* the revocation fell between the read and the stat of the reload the listener
\* still goes by: such a one is missed, and the next change of config.json makes
\* up for it.  Sessions accepted before a revocation are not bound by it.
RevocationBindsNewSessions ==
    \A g \in grants : g.dev \in g.base

\* A lockout is in the audit log once the handler that started it has ended,
\* although its record is written after an await, unless the log failed when its
\* turn came or the listener died before.
LockoutIsReported ==
    \A x \in owed : conn[x[1]].pc = "failing" /\ x[2] \in conn[x[1]].hits

\* Every connection that gets a slot gives it back.
ConnectionsEnd ==
    \A c \in Conns : conn[c].pc \in Holding ~> conn[c].pc = "closed"

\* "Even the legitimate phone is refused while locked": nothing is authorised
\* from an address or for a device during its lockout.
NothingWhileLocked ==
    [][\A g \in grants' \ grants :
         /\ ~Locked(ipB, conn[g.conn].ip, now)
         /\ ~Locked(devB, g.dev, now)]_vars

\* "Fail closed: every error path is a rejection", with an audit record "on every
\* outcome": a grant is issued only together with its audit record.
GrantIsAudited == \A g \in grants : g.nonce \in audited
=============================================================================
