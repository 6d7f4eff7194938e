-------------------------- MODULE WindowsLogonProofs --------------------------
(***************************************************************************)
(* The Windows build for any number of connections, any limits and time-   *)
(* outs and any skew of the phone's clock: what the listener approves, how *)
(* often it may refuse, and what the login screen's tile shows and submits *)
(* in every interleaving of its two threads.                               *)
(***************************************************************************)
EXTENDS WindowsLogon, FiniteSetTheorems, SequenceTheorems, TLAPS

Responses == Actions \X Conns \X Int

Sessions == [pc: {"idle", "waiting", "replying", "closed"}, deadline: Int,
             mail: Responses \cup {NoMail}, nonce: Conns \cup {Blank},
             action: Actions, ok: BOOLEAN]

Phones == [pc: {"none", "asked", "sent", "settled"}, action: Actions]

\* The listener's state and the phones'.
Typed ==
    /\ now \in 0 .. MaxTime
    /\ sess \in [Conns -> Sessions] /\ phone \in [Conns -> Phones]
    /\ signed \subseteq Responses
    /\ DOMAIN pending \subseteq Conns /\ used \subseteq Conns

\* A connection that was never made is as good as new, and a response on its way
\* was sent by a phone.
Posted ==
    \A c \in Conns :
        /\ sess[c].pc = "idle" => sess[c] = IdleSession
        /\ sess[c].mail # NoMail => phone[c].pc \in {"sent", "settled"}

\* A nonce is pending or has been approved only after it was issued, and never
\* both: verify() takes it out of _pending_nonces before it returns True.
Issuance ==
    /\ \A n \in DOMAIN pending : sess[n].pc # "idle"
    /\ \A a \in approvals :
         a[1][2] \in Conns \ DOMAIN pending /\ sess[a[1][2]].pc # "idle"

Approved(action, n) == \E a \in approvals : a[1][1] = action /\ a[1][2] = n

\* A handler that reports success reports an approval, and a shutdown is
\* approved only where shutdowns are enabled.
Outcomes ==
    \A c \in Conns : sess[c].ok =>
        /\ sess[c].nonce \in used
        /\ Approved(sess[c].action, sess[c].nonce)
        /\ sess[c].action = "shutdown" => shutdownEnabled

\* The deque holds the last failures, and those it has lost are too old to count.
Limited ==
    /\ tried \in Seq(0 .. now) /\ fails \in Seq(0 .. now)
    /\ Len(fails) <= Len(tried)
    /\ \A i \in 1 .. Len(fails) : fails[i] = tried[Len(tried) - Len(fails) + i]
    /\ \A i \in 1 .. Len(tried) - Len(fails) : now - tried[i] > RateWindow
    /\ FailuresAreLimited

\* The passwords an approved unlock has released.
Released == {n \in Conns : Approved("unlock", n)}

\* Whatever is on its way to the login screen was released, unless another process
\* wrote it to a pipe that is not locked down.
Traced ==
    /\ pipe \in [state: {"absent", "open", "taken"},
                 data: Released \cup Tile!Strange \cup {Blank, Refusal}]
    /\ {password, carried, due} \subseteq Released \cup Tile!Strange \cup {Blank}

\* The two threads of the tile: LogonUI joins only a worker that has let go, and
\* the worker hands over what it read without LogonUI in between.
Threads ==
    /\ Tile!TypeOK /\ TileIsCurrent /\ SelectReturns /\ Tile!SubmitsWhatIsDue
    /\ ui = "idle" /\ thread = "approved" => waiting
    /\ ui = "joining" => waiting /\ ~approved /\ status # "over"
    /\ thread \in Tile!Underway => ~approved
    /\ thread = "keeping" => carried = due
    /\ thread = "kept" \/ approved => password = due

Listening ==
    /\ Typed /\ Posted /\ Issuance /\ Outcomes /\ ApprovalIsWarranted /\ Limited

IInv == Listening /\ Traced /\ Threads

----------------------------------------------------------------------------
(* The deque of failures. *)

\* The numbers from 1 to n.
LEMMA UpTo ==
    ASSUME NEW n \in Nat
    PROVE  IsFiniteSet(1 .. n) /\ Cardinality(1 .. n) = n
<1>1. 1 \in Int /\ n \in Int
  OBVIOUS
<1>2. IsFiniteSet(1 .. n) /\ Cardinality(1 .. n) = IF 1 > n THEN 0 ELSE n - 1 + 1
  BY <1>1, FS_Interval, Zenon
<1>3. CASE n = 0
  BY <1>2, <1>3
<1>4. CASE n >= 1
  BY <1>2, <1>4
<1> QED
  BY <1>3, <1>4

\* _rate_limited() drops failures from the left, and only such as are too old.
LEMMA RecentFailures ==
    ASSUME now \in Nat, fails \in Seq(0 .. now)
    PROVE  /\ Recent \in Seq(0 .. now)
           /\ Len(Recent) <= Len(fails)
           /\ \A i \in 1 .. Len(Recent) : Recent[i] = fails[Len(fails) - Len(Recent) + i]
           /\ \A i \in 1 .. Len(fails) - Len(Recent) : now - fails[i] > RateWindow
<1> DEFINE L   == Len(fails)
           old == {i \in 1 .. L : \A j \in 1 .. i : now - fails[j] > RateWindow}
           k   == Cardinality(old)
<1>1. L \in Nat
  BY LenProperties
<1>2. IsFiniteSet(1 .. L) /\ Cardinality(1 .. L) = L
  BY <1>1, UpTo
<1>3. IsFiniteSet(old) /\ k <= L
  BY <1>2, FS_Subset
<1>4. k \in Nat
  BY <1>3, FS_CardinalityType
<1>5. \A i \in 1 .. k : i \in old
  <2> SUFFICES ASSUME NEW i \in 1 .. k, i \notin old
               PROVE  FALSE
    OBVIOUS
  <2> HIDE DEF k
  <2>1. i \in Nat /\ i >= 1 /\ i <= L
    BY <1>1, <1>3, <1>4
  <2>2. old \subseteq 1 .. i - 1
    BY <1>1, <2>1
  <2>3. IsFiniteSet(1 .. i - 1) /\ Cardinality(1 .. i - 1) = i - 1
    <3>1. i - 1 \in Nat
      BY <2>1
    <3> QED
      BY <3>1, UpTo
  <2> HIDE DEF old
  <2>4. k <= i - 1
    BY <2>2, <2>3, FS_Subset DEF k
  <2> QED
    BY <1>4, <2>1, <2>4
<1>6. \A i \in 1 .. k : now - fails[i] > RateWindow
  BY <1>4, <1>5
<1>7. Recent = SubSeq(fails, k + 1, L)
  BY DEF Recent
<1> HIDE DEF old, k
<1>8. /\ Recent \in Seq(0 .. now)
      /\ Len(Recent) = L - k
      /\ \A i \in 1 .. L - k : Recent[i] = fails[k + i]
  BY <1>1, <1>3, <1>4, <1>7, SubSeqProperties
<1> QED
  BY <1>1, <1>3, <1>4, <1>6, <1>8

\* A refused response is examined only while fewer than the limit are recent, so
\* the one RATE_LIMIT_MAX_FAILS earlier is older than the window.
LEMMA VerifyLimits ==
    ASSUME Typed, Limited, NEW m, NEW good, NEW ok \in BOOLEAN, Verify(m, good, ok), now' = now
    PROVE  Limited'
<1> DEFINE R == Len(Recent)
           L == Len(tried)
<1>1. /\ now \in Nat /\ now' = now /\ RateWindow \in Nat /\ MaxFails \in Nat
      /\ tried \in Seq(0 .. now) /\ fails \in Seq(0 .. now)
      /\ L \in Nat /\ R \in Nat /\ Len(fails) \in Nat
      /\ Recent \in Seq(0 .. now)
      /\ R <= Len(fails) /\ Len(fails) <= L
      /\ \A i \in 1 .. L : tried[i] \in 0 .. now
  BY RecentFailures, WindowsAssumption, LenProperties DEF Typed, Limited
<1>2. \A i \in 1 .. R : Recent[i] = tried[L - R + i]
  <2> SUFFICES ASSUME NEW i \in 1 .. R
               PROVE  Recent[i] = tried[L - R + i]
    OBVIOUS
  <2> DEFINE j == Len(fails) - R + i
  <2>1. j \in 1 .. Len(fails) /\ Recent[i] = fails[j]
    BY <1>1, RecentFailures
  <2>2. fails[j] = tried[L - Len(fails) + j]
    BY <2>1 DEF Limited
  <2>3. L - Len(fails) + j = L - R + i
    BY <1>1
  <2> QED
    BY <2>1, <2>2, <2>3
<1>3. \A i \in 1 .. L - R : now - tried[i] > RateWindow
  <2> SUFFICES ASSUME NEW i \in 1 .. L - R
               PROVE  now - tried[i] > RateWindow
    OBVIOUS
  <2>1. CASE i <= L - Len(fails)
    BY <1>1, <2>1 DEF Limited
  <2>2. CASE i > L - Len(fails)
    <3> DEFINE j == i - (L - Len(fails))
    <3>1. j \in 1 .. Len(fails) - R
      BY <1>1, <2>2
    <3>2. j \in 1 .. Len(fails) /\ L - Len(fails) + j = i
      BY <1>1, <3>1
    <3>3. now - fails[j] > RateWindow
      BY <1>1, <3>1, RecentFailures
    <3>4. fails[j] = tried[L - Len(fails) + j]
      BY <3>2 DEF Limited
    <3> QED
      BY <3>2, <3>3, <3>4
  <2> QED
    BY <1>1, <2>1, <2>2
<1>4. CASE fails' = Recent /\ tried' = tried
  BY <1>1, <1>2, <1>3, <1>4 DEF Limited, FailuresAreLimited
<1>5. CASE fails' = Append(Recent, now) /\ tried' = Append(tried, now) /\ R < MaxFails
  <2> DEFINE F == Append(Recent, now)
             T == Append(tried, now)
  <2>1. /\ F \in Seq(0 .. now) /\ Len(F) = R + 1
        /\ F[R + 1] = now /\ \A i \in 1 .. R : F[i] = Recent[i]
    BY <1>1, AppendProperties
  <2>2. /\ T \in Seq(0 .. now) /\ Len(T) = L + 1
        /\ T[L + 1] = now /\ \A i \in 1 .. L : T[i] = tried[i]
    BY <1>1, AppendProperties
  <2> HIDE DEF F, T
  <2>3. \A i \in 1 .. Len(F) : F[i] = T[Len(T) - Len(F) + i]
    <3>0. Len(T) - Len(F) = L - R /\ 1 .. Len(F) = 1 .. R + 1
      BY <1>1, <2>1, <2>2
    <3> HIDE DEF R, L
    <3> SUFFICES ASSUME NEW i \in 1 .. R + 1
                 PROVE  F[i] = T[L - R + i]
      BY <3>0
    <3> USE DEF R, L
    <3>1. CASE i = R + 1
      BY <1>1, <2>1, <2>2, <3>1
    <3>2. CASE i \in 1 .. R
      <4>1. L - R + i \in 1 .. L
        BY <1>1, <3>2
      <4> QED
        BY <1>2, <2>1, <2>2, <3>2, <4>1
    <3> QED
      BY <1>1, <3>1, <3>2
  <2>4. \A i \in 1 .. Len(T) - Len(F) : now - T[i] > RateWindow
    <3> SUFFICES ASSUME NEW i \in 1 .. L - R
                 PROVE  now - T[i] > RateWindow
      BY <1>1, <2>1, <2>2
    <3>1. i \in 1 .. L
      BY <1>1
    <3> QED
      BY <1>3, <2>2, <3>1
  <2>5. \A i \in 1 .. Len(T) - MaxFails : T[i + MaxFails] - T[i] > RateWindow
    <3> SUFFICES ASSUME NEW i \in 1 .. L + 1 - MaxFails
                 PROVE  T[i + MaxFails] - T[i] > RateWindow
      BY <1>1, <2>2
    <3>0. MaxFails >= 1 /\ i \in 1 .. L
      BY <1>1, WindowsAssumption
    <3>1. CASE i = L + 1 - MaxFails
      <4>1. i \in 1 .. L - R /\ i + MaxFails = L + 1
        BY <1>1, <1>5, <3>1
      <4> QED
        BY <1>3, <2>2, <3>0, <4>1
    <3>2. CASE i \in 1 .. L - MaxFails
      <4>1. i + MaxFails \in 1 .. L
        BY <1>1, <3>2
      <4>2. tried[i + MaxFails] - tried[i] > RateWindow
        BY <3>2 DEF Limited, FailuresAreLimited
      <4> QED
        BY <2>2, <3>0, <4>1, <4>2
    <3> QED
      BY <1>1, <3>1, <3>2
  <2>6. fails' = F /\ tried' = T
    BY <1>5 DEF F, T
  <2>7. Len(F) <= Len(T)
    BY <1>1, <2>1, <2>2
  <2> QED
    BY <1>1, <2>1, <2>2, <2>3, <2>4, <2>5, <2>6, <2>7 DEF Limited, FailuresAreLimited
<1> QED
  BY <1>1, <1>4, <1>5 DEF Verify, RateLimited

\* The failures that have become too old stay so as time goes by.
LEMMA TimeLimits ==
    ASSUME Typed, Limited, now' \in {now, now + 1}, fails' = fails, tried' = tried
    PROVE  Limited'
<1>1. /\ now \in Nat /\ now' \in Nat /\ now <= now' /\ RateWindow \in Nat
      /\ tried \in Seq(0 .. now) /\ fails \in Seq(0 .. now)
      /\ Len(tried) \in Nat /\ Len(fails) \in Nat
      /\ \A i \in 1 .. Len(tried) : tried[i] \in 0 .. now
  BY WindowsAssumption, LenProperties DEF Typed, Limited
<1>2. tried' \in Seq(0 .. now') /\ fails' \in Seq(0 .. now')
  <2>1. 0 .. now \subseteq 0 .. now'
    BY <1>1
  <2> QED
    BY <1>1, <2>1, SeqMonotonic
<1>3. \A i \in 1 .. Len(tried) - Len(fails) : now' - tried[i] > RateWindow
  <2> SUFFICES ASSUME NEW i \in 1 .. Len(tried) - Len(fails)
               PROVE  now' - tried[i] > RateWindow
    OBVIOUS
  <2>1. i \in 1 .. Len(tried) /\ now - tried[i] > RateWindow
    BY <1>1 DEF Limited
  <2> QED
    BY <1>1, <2>1
<1> QED
  BY <1>2, <1>3 DEF Limited, FailuresAreLimited

\* A new run of the listener has refused nothing.
LEMMA ForgottenLimits ==
    ASSUME now' \in Nat, fails' = <<>>, tried' = <<>>
    PROVE  Limited'
<1>1. /\ <<>> \in Seq(0 .. now') /\ Len(<<>>) = 0
      /\ 1 .. 0 = {} /\ 1 .. 0 - MaxFails = {}
  BY EmptySeq, WindowsAssumption
<1> QED
  BY <1>1, WindowsAssumption DEF Limited, FailuresAreLimited

----------------------------------------------------------------------------
(* The listener: one lemma per kind of step. *)

LEMMA ClosedType ==
    LET r == [IdleSession EXCEPT !.pc = "closed"]
    IN /\ IdleSession \in Sessions /\ r \in Sessions
       /\ r.pc = "closed" /\ r.mail = NoMail /\ r.ok = FALSE
<1> DEFINE r == [IdleSession EXCEPT !.pc = "closed"]
<1>1. "unlock" \in Actions /\ 0 \in Int /\ FALSE \in BOOLEAN
  BY DEF Actions
<1>2. IdleSession \in Sessions
  BY <1>1 DEF IdleSession, Sessions
<1>3. r \in Sessions
  BY <1>2 DEF Sessions
<1>4. r.pc = "closed" /\ r.mail = IdleSession.mail /\ r.ok = IdleSession.ok
  BY <1>2 DEF Sessions
<1>5. IdleSession.mail = NoMail
  BY DEF IdleSession
<1>6. IdleSession.ok = FALSE
  BY Zenon DEF IdleSession
<1> HIDE DEF r
<1>7. r.mail = NoMail /\ r.ok = FALSE
  BY <1>4, <1>5, <1>6, Zenon
<1> QED
  BY <1>2, <1>3, <1>4, <1>7 DEF r

\* The handler of c returns, whatever it has done before.
LEMMA ClosePreserves ==
    ASSUME Listening, NEW c \in Conns, sess[c].pc # "idle", Close(c),
           UNCHANGED <<now, serviceVars, shutdownEnabled, phone, signed>>
    PROVE  Listening'
<1> DEFINE r == [IdleSession EXCEPT !.pc = "closed"]
<1>1. r \in Sessions /\ r.pc = "closed" /\ r.mail = NoMail /\ r.ok = FALSE
  BY ClosedType
<1>2. /\ sess \in [Conns -> Sessions] /\ sess' = [sess EXCEPT ![c] = r]
      /\ UNCHANGED <<pending, used, fails, approvals, tried>>
  BY DEF Listening, Typed, Close, serviceVars
<1> HIDE DEF r
<1>3. /\ sess' \in [Conns -> Sessions] /\ sess'[c] = r
      /\ \A x \in Conns \ {c} : sess'[x] = sess[x]
  BY <1>1, <1>2
<1>4. Typed'
  BY <1>2, <1>3 DEF Listening, Typed
<1>5. Posted'
  BY <1>1, <1>3 DEF Listening, Posted
<1>6. Issuance'
  BY <1>1, <1>2, <1>3 DEF Listening, Typed, Issuance
<1>7. Outcomes'
  <2>1. \A action, n : Approved(action, n)' <=> Approved(action, n)
    BY <1>2 DEF Approved
  <2>2. ASSUME NEW x \in Conns, sess'[x].ok
        PROVE  /\ sess'[x].nonce \in used'
               /\ Approved(sess'[x].action, sess'[x].nonce)
               /\ sess'[x].action = "shutdown" => shutdownEnabled'
    BY <1>1, <1>2, <1>3, <2>2 DEF Listening, Outcomes
  <2> QED
    BY <1>2, <2>1, <2>2 DEF Outcomes
<1>8. ApprovalIsWarranted'
  BY <1>2 DEF Listening, ApprovalIsWarranted
<1>9. Limited'
  BY <1>2, TimeLimits DEF Listening
<1> QED
  BY <1>4, <1>5, <1>6, <1>7, <1>8, <1>9 DEF Listening

\* A new connection and its nonce.
LEMMA ConnectPreserves ==
    ASSUME Listening, NEW c \in Conns, NEW peer, Connect(c, peer)
    PROVE  Listening'
<1> DEFINE t == now + NonceTtl + RecvSlack
           r == [sess[c] EXCEPT !.pc = "waiting", !.deadline = t]
           q == IF peer \in Actions THEN [pc |-> "asked", action |-> peer] ELSE NoPhone
<1>1. /\ sess[c].pc = "idle" /\ sess[c] \in Sessions
      /\ sess \in [Conns -> Sessions] /\ phone \in [Conns -> Phones]
      /\ sess[c] = IdleSession
      /\ UNCHANGED <<now, used, fails, approvals, tried, shutdownEnabled, signed>>
  BY DEF Listening, Typed, Posted, Connect
<1>2. t \in Int
  BY WindowsAssumption DEF Listening, Typed
<1> HIDE DEF t
<1>3. /\ r \in Sessions /\ r.pc = "waiting" /\ r.ok = FALSE /\ r.mail = NoMail
  <2>1. r \in Sessions /\ r.pc = "waiting" /\ r.ok = sess[c].ok /\ r.mail = sess[c].mail
    BY <1>1, <1>2 DEF Sessions
  <2>2. IdleSession.mail = NoMail
    BY DEF IdleSession
  <2>3. IdleSession.ok = FALSE
    BY Zenon DEF IdleSession
  <2> HIDE DEF r
  <2> QED
    BY <1>1, <2>1, <2>2, <2>3
<1>4. q \in Phones
  BY DEF Phones, NoPhone, Actions
<1>5. sess' = [sess EXCEPT ![c] = r] /\ phone' = [phone EXCEPT ![c] = q]
  BY <1>1 DEF Connect, t
<1> HIDE DEF r, q
<1>6. /\ sess' \in [Conns -> Sessions] /\ phone' \in [Conns -> Phones] /\ sess'[c] = r
      /\ \A x \in Conns \ {c} : sess'[x] = sess[x] /\ phone'[x] = phone[x]
  BY <1>1, <1>3, <1>4, <1>5
<1>7. DOMAIN pending' \subseteq DOMAIN pending \cup {c}
  BY DEF Connect, Issued
<1>8. Typed'
  BY <1>1, <1>6, <1>7 DEF Listening, Typed
<1>9. Posted'
  BY <1>3, <1>6 DEF Listening, Posted
<1>10. Issuance'
  BY <1>1, <1>3, <1>6, <1>7 DEF Listening, Typed, Issuance
<1>11. Outcomes'
  <2>1. \A action, n : Approved(action, n)' <=> Approved(action, n)
    BY <1>1 DEF Approved
  <2> QED
    BY <1>1, <1>3, <1>6, <2>1 DEF Listening, Outcomes
<1>12. ApprovalIsWarranted'
  BY <1>1 DEF Listening, ApprovalIsWarranted
<1>13. Limited'
  BY <1>1, TimeLimits DEF Listening
<1> QED
  BY <1>8, <1>9, <1>10, <1>11, <1>12, <1>13 DEF Listening

\* verify() on a response that arrives on c: a nonce is approved at most once,
\* for what the phone signed.
LEMMA RespondPreserves ==
    ASSUME Listening, NEW c \in Conns, NEW m \in Responses, NEW good \in BOOLEAN,
           good => m \in signed, Respond(c, m, good)
    PROVE  Listening' /\ approvals \subseteq approvals'
<1>0. /\ sess[c].pc = "waiting" /\ sess[c] \in Sessions /\ sess \in [Conns -> Sessions]
      /\ UNCHANGED <<now, shutdownEnabled, phone, signed>>
  BY DEF Listening, Typed, Respond
<1>1. CASE Close(c) /\ UNCHANGED serviceVars
  BY <1>0, <1>1, ClosePreserves DEF serviceVars
<1>2. ASSUME NEW ok \in BOOLEAN, Verify(m, good, ok), m[1] = "shutdown" => shutdownEnabled,
             sess' = [sess EXCEPT ![c].pc = "replying", ![c].mail = NoMail,
                            ![c].nonce = IF ok THEN m[2] ELSE Blank,
                            ![c].action = m[1], ![c].ok = ok]
      PROVE  Listening' /\ approvals \subseteq approvals'
  <2> DEFINE n == IF ok THEN m[2] ELSE Blank
             r == [sess[c] EXCEPT !.pc = "replying", !.mail = NoMail, !.nonce = n,
                                  !.action = m[1], !.ok = ok]
             a == <<m, now - pending[m[2]], Apart(now, m[3])>>
  <2>1. m[1] \in Actions /\ m[2] \in Conns /\ n \in Conns \cup {Blank}
    BY DEF Responses
  <2>2. sess' = [sess EXCEPT ![c] = r]
    BY <1>0, <1>2
  <2> HIDE DEF n
  <2>3. /\ r \in Sessions /\ r.pc = "replying" /\ r.mail = NoMail
        /\ r.nonce = n /\ r.action = m[1] /\ r.ok = ok
    BY <1>0, <2>1 DEF Sessions
  <2> HIDE DEF r
  <2>4. /\ sess' \in [Conns -> Sessions] /\ sess'[c] = r
        /\ \A x \in Conns \ {c} : sess'[x] = sess[x]
    BY <1>0, <2>2, <2>3
  <2>5. /\ DOMAIN pending' \subseteq DOMAIN pending
        /\ ok => m[2] \in DOMAIN pending /\ m[2] \notin DOMAIN pending' /\ good
        /\ used' = IF ok THEN used \cup {m[2]} ELSE used
        /\ approvals' = IF ok THEN approvals \cup {a} ELSE approvals
    BY <1>2 DEF Verify, UsedAfter, Verdict
  <2>6. ok => m \in signed /\ a[2] <= NonceTtl /\ a[3] <= MaxClockSkew + NonceTtl
    BY <1>2, <2>5 DEF Verify, Verdict
  <2>7. a[1] = m
    OBVIOUS
  <2> HIDE DEF a
  <2>8. Typed'
    BY <1>0, <2>1, <2>4, <2>5 DEF Listening, Typed
  <2>9. Posted'
    BY <1>0, <2>3, <2>4 DEF Listening, Posted
  <2>10. Issuance'
    <3>1. \A x \in Conns : sess[x].pc # "idle" => sess'[x].pc # "idle"
      BY <2>3, <2>4
    <3>2. \A x \in DOMAIN pending : x \in Conns
      BY DEF Listening, Typed
    <3> QED
      BY <2>1, <2>5, <2>7, <3>1, <3>2 DEF Listening, Issuance
  <2> DEFINE Granted(action, x) == \E b \in approvals' : b[1][1] = action /\ b[1][2] = x
  <2>11. \A action, x : Approved(action, x) => Granted(action, x)
    BY <2>5 DEF Approved
  <2>12. ok => Granted(m[1], m[2])
    BY <2>5, <2>7
  <2> HIDE DEF Granted
  <2>13. Outcomes'
    <3>1. ASSUME NEW x \in Conns, sess'[x].ok
          PROVE  /\ sess'[x].nonce \in used'
                 /\ Granted(sess'[x].action, sess'[x].nonce)
                 /\ sess'[x].action = "shutdown" => shutdownEnabled'
      <4>1. CASE x = c
        BY <1>0, <1>2, <2>3, <2>4, <2>5, <2>12, <3>1, <4>1 DEF n
      <4>2. CASE x # c
        BY <1>0, <2>4, <2>5, <2>11, <3>1, <4>2 DEF Listening, Outcomes
      <4> QED
        BY <4>1, <4>2
    <3> QED
      BY <3>1 DEF Outcomes, Approved, Granted
  <2>14. ApprovalIsWarranted'
    <3>1. \A x \in approvals' :
            x[1] \in signed' /\ x[2] <= NonceTtl /\ x[3] <= MaxClockSkew + NonceTtl
      BY <1>0, <2>5, <2>6, <2>7 DEF Listening, ApprovalIsWarranted
    <3>2. ok => \A x \in approvals : x[1][2] # m[2]
      BY <2>5 DEF Listening, Issuance
    <3>3. \A x, y \in approvals' : x[1][2] = y[1][2] => x = y
      BY <2>5, <2>7, <3>2 DEF Listening, ApprovalIsWarranted
    <3> QED
      BY <3>1, <3>3 DEF ApprovalIsWarranted
  <2>15. Limited'
    BY <1>0, <1>2, VerifyLimits DEF Listening
  <2> QED
    BY <2>5, <2>8, <2>9, <2>10, <2>13, <2>14, <2>15 DEF Listening
<1> QED
  BY <1>1, <1>2 DEF Respond, serviceVars

\* The phone signs.
LEMMA SignPreserves ==
    ASSUME Listening, NEW c \in Conns, Sign(c)
    PROVE  Listening'
<1>0. /\ sess[c] \in Sessions /\ sess \in [Conns -> Sessions]
      /\ phone[c] \in Phones /\ phone \in [Conns -> Phones]
      /\ UNCHANGED <<now, pending, used, fails, approvals, tried, shutdownEnabled>>
  BY DEF Listening, Typed, Sign, serviceVars
<1>1. PICK m \in Responses :
        /\ signed' \in {signed, signed \cup {m}}
        /\ sess' = [sess EXCEPT ![c].mail = IF sess[c].pc = "waiting" THEN m ELSE @]
  <2>1. PICK k \in Skews, wholeSecond \in BOOLEAN :
          LET m == <<phone[c].action, c, now + k>>
          IN /\ signed' = IF wholeSecond THEN signed ELSE signed \cup {m}
             /\ sess' = [sess EXCEPT ![c].mail = IF sess[c].pc = "waiting" THEN m ELSE @]
    BY DEF Sign
  <2> DEFINE t == now + k
             m == <<phone[c].action, c, t>>
  <2>2. t \in Int
    BY WindowsAssumption DEF Listening, Typed
  <2> HIDE DEF t
  <2>3. m \in Responses
    BY <1>0, <2>2 DEF Responses, Phones
  <2>4. /\ signed' \in {signed, signed \cup {m}}
        /\ sess' = [sess EXCEPT ![c].mail = IF sess[c].pc = "waiting" THEN m ELSE @]
    BY <2>1 DEF t
  <2> HIDE DEF m
  <2> QED
    BY <2>3, <2>4
<1> DEFINE v == IF sess[c].pc = "waiting" THEN m ELSE sess[c].mail
           r == [sess[c] EXCEPT !.mail = v]
           q == [phone[c] EXCEPT !.pc = "sent"]
<1>2. sess' = [sess EXCEPT ![c] = r] /\ phone' = [phone EXCEPT ![c] = q]
  BY <1>0, <1>1 DEF Sign
<1>3. v \in Responses \cup {NoMail}
  BY <1>0 DEF Sessions
<1>4. sess[c].pc # "waiting" => r = sess[c]
  BY <1>0 DEF Sessions
<1> HIDE DEF v
<1>5. /\ r \in Sessions /\ r.pc = sess[c].pc /\ r.ok = sess[c].ok
      /\ r.nonce = sess[c].nonce /\ r.action = sess[c].action
      /\ q \in Phones /\ q.pc = "sent"
  BY <1>0, <1>3 DEF Sessions, Phones
<1> HIDE DEF r, q
<1>6. /\ sess' \in [Conns -> Sessions] /\ sess'[c] = r
      /\ phone' \in [Conns -> Phones] /\ phone'[c] = q
      /\ \A x \in Conns \ {c} : sess'[x] = sess[x] /\ phone'[x] = phone[x]
  BY <1>0, <1>2, <1>5
<1>7. Typed'
  BY <1>0, <1>1, <1>6 DEF Listening, Typed
<1>8. Posted'
  BY <1>4, <1>5, <1>6 DEF Listening, Posted
<1>9. Issuance'
  BY <1>0, <1>5, <1>6 DEF Listening, Typed, Issuance
<1>10. Outcomes'
  <2>1. \A action, n : Approved(action, n)' <=> Approved(action, n)
    BY <1>0 DEF Approved
  <2>2. \A x \in Conns :
          /\ sess'[x].ok = sess[x].ok /\ sess'[x].nonce = sess[x].nonce
          /\ sess'[x].action = sess[x].action
    BY <1>5, <1>6
  <2> QED
    BY <1>0, <2>1, <2>2 DEF Listening, Outcomes
<1>11. ApprovalIsWarranted'
  BY <1>0, <1>1 DEF Listening, ApprovalIsWarranted
<1>12. Limited'
  BY <1>0, TimeLimits DEF Listening
<1> QED
  BY <1>7, <1>8, <1>9, <1>10, <1>11, <1>12 DEF Listening

\* The phone gives up or is answered.
LEMMA SettlePreserves ==
    ASSUME Listening, NEW c \in Conns, Settle(c)
    PROVE  Listening'
<1> DEFINE q == [phone[c] EXCEPT !.pc = "settled"]
<1>0. /\ phone \in [Conns -> Phones] /\ phone' = [phone EXCEPT ![c] = q]
      /\ UNCHANGED <<now, sess, pending, used, fails, approvals, tried, shutdownEnabled,
                     signed>>
  BY DEF Listening, Typed, Settle, serviceVars
<1>1. q \in Phones /\ q.pc = "settled"
  BY <1>0 DEF Phones
<1> HIDE DEF q
<1>2. /\ phone' \in [Conns -> Phones] /\ phone'[c] = q
      /\ \A x \in Conns \ {c} : phone'[x] = phone[x]
  BY <1>0, <1>1
<1>3. Typed' /\ Posted' /\ Issuance' /\ ApprovalIsWarranted'
  BY <1>0, <1>1, <1>2 DEF Listening, Typed, Posted, Issuance, ApprovalIsWarranted
<1>4. Outcomes'
  BY <1>0 DEF Listening, Outcomes, Approved
<1>5. Limited'
  BY <1>0, TimeLimits DEF Listening
<1> QED
  BY <1>3, <1>4, <1>5 DEF Listening

\* A new run of the listener knows no nonce, and gives none twice.
LEMMA RestartPreserves ==
    ASSUME Listening, Restart
    PROVE  Listening'
<1>0. /\ sess' = [c \in Conns |-> IF sess[c].pc = "idle" THEN IdleSession
                                   ELSE [IdleSession EXCEPT !.pc = "closed"]]
      /\ DOMAIN pending' = {} /\ used' = {} /\ fails' = <<>> /\ tried' = <<>>
      /\ UNCHANGED <<now, approvals, shutdownEnabled, phone, signed>>
  BY DEF Restart
<1>1. /\ sess' \in [Conns -> Sessions]
      /\ \A c \in Conns :
           /\ sess'[c].ok = FALSE /\ sess'[c].mail = NoMail
           /\ sess[c].pc # "idle" => sess'[c].pc # "idle"
           /\ sess'[c].pc = "idle" => sess'[c] = IdleSession
  BY <1>0, ClosedType DEF IdleSession
<1>2. Typed'
  <2> HIDE DEF Sessions
  <2> QED
    BY <1>0, <1>1 DEF Listening, Typed
<1>3. Posted' /\ ApprovalIsWarranted'
  BY <1>0, <1>1 DEF Listening, Posted, ApprovalIsWarranted
<1>4. Issuance'
  BY <1>0, <1>1 DEF Listening, Issuance
<1>5. Outcomes'
  <2>1. \A c \in Conns : ~sess'[c].ok
    BY <1>1, Zenon
  <2> QED
    BY <1>0, <2>1 DEF Listening, Outcomes, Approved
<1>6. Limited'
  BY <1>0, ForgottenLimits DEF Listening, Typed
<1> QED
  BY <1>2, <1>3, <1>4, <1>5, <1>6 DEF Listening

\* Time passes.
LEMMA TickPreserves ==
    ASSUME Listening, Tick
    PROVE  Listening'
<1>0. /\ now < MaxTime /\ now' = now + 1
      /\ UNCHANGED <<sess, pending, used, fails, approvals, tried, shutdownEnabled, phone,
                     signed>>
  BY DEF Tick, serviceVars
<1>1. Typed'
  BY <1>0, WindowsAssumption DEF Listening, Typed
<1>2. Posted' /\ Issuance' /\ ApprovalIsWarranted'
  BY <1>0 DEF Listening, Posted, Issuance, ApprovalIsWarranted
<1>3. Outcomes'
  BY <1>0 DEF Listening, Outcomes, Approved
<1>4. Limited'
  BY <1>0, TimeLimits DEF Listening
<1> QED
  BY <1>1, <1>2, <1>3, <1>4 DEF Listening

----------------------------------------------------------------------------
(* The pipe and the tile. *)

\* What the listener writes to the pipe disturbs nothing on the tile, nor does what
\* another process writes.
LEMMA SignalPreserves ==
    ASSUME Traced, Threads, UNCHANGED tileState, approvals \subseteq approvals',
           pipe' = pipe \/ \E v \in Released \cup Tile!Strange \cup {Refusal} : Signal(v)
    PROVE  Traced' /\ Threads'
<1>1. UNCHANGED <<ui, thread, waiting, approved, password, status, carried, due>>
  BY DEF tileState
<1>2. Released \subseteq Released'
  BY DEF Released, Approved
<1>3. Released' \subseteq Conns
  BY DEF Released
<1> DEFINE P(N) == [state: {"absent", "open", "taken"}, data: N \cup Tile!Strange \cup {Blank, Refusal}]
<1>4. pipe' \in P(Released')
  <2>1. pipe \in P(Released')
    BY <1>2 DEF Traced
  <2>2. ASSUME NEW v \in Released \cup Tile!Strange \cup {Refusal}, Signal(v)
        PROVE  pipe' \in P(Released')
    BY <1>2, <2>1, <2>2 DEF Signal
  <2> QED
    BY <2>1, <2>2
<1>5. Traced'
  BY <1>1, <1>2, <1>4 DEF Traced
<1>6. pipe' \in P(Conns)
  BY <1>3, <1>4
<1>7. Threads'
  BY <1>1, <1>6 DEF Threads, Tile!TypeOK, Tile!Underway, TileIsCurrent, Tile!TileIsCurrent,
     SelectReturns, Tile!SelectReturns, Tile!SubmitsWhatIsDue, Tile!Submittable
<1> QED
  BY <1>5, <1>7

\* The passwords on the tile come from the pipe.
LEMMA TileTraces ==
    ASSUME Traced, Tile!Next, UNCHANGED approvals
    PROVE  Traced'
<1>1. Released' = Released
  BY DEF Released, Approved
<1> DEFINE P == [state: {"absent", "open", "taken"},
                 data: Released \cup Tile!Strange \cup {Blank, Refusal}]
<1>2. [state |-> "open", data |-> Blank] \in P /\ [state |-> "absent", data |-> Blank] \in P
  OBVIOUS
<1>3. pipe.data \in Released \cup Tile!Strange \cup {Blank, Refusal}
  BY DEF Traced
<1>4. CASE Tile!LogonUI
  BY <1>1, <1>4 DEF Traced, Tile!LogonUI, Tile!SetSelected, Tile!StartThread,
     Tile!GetSerialization, Tile!ReportResult, Tile!Release, Tile!Renewed, Tile!Destroyed
<1>5. CASE Tile!Worker
  <2>1. CASE Tile!ReadPassword
    BY <1>1, <1>2, <1>3, <2>1 DEF Traced, Tile!ReadPassword, Tile!NoPipe
  <2>2. CASE Tile!CreatePipe \/ Tile!WaitTimesOut \/ Tile!ReadRefusal
    BY <1>1, <1>2, <2>2 DEF Traced, Tile!CreatePipe, Tile!WaitTimesOut, Tile!ReadRefusal,
       Tile!NoPipe
  <2>3. CASE \/ Tile!CreatePipeFails \/ Tile!ConnectPipe \/ Tile!Keep \/ Tile!Approve
             \/ Tile!LetGo \/ Tile!ShowSubmit
    BY <1>1, <2>3 DEF Traced, Tile!CreatePipeFails, Tile!ConnectPipe, Tile!Keep, Tile!Approve,
       Tile!LetGo, Tile!ShowSubmit
  <2> QED
    BY <1>5, <2>1, <2>2, <2>3 DEF Tile!Worker
<1> QED
  BY <1>4, <1>5 DEF Tile!Next

\* LogonUI's thread keeps the agreement of the two threads.
LEMMA LogonUIKeepsThreads ==
    ASSUME Threads, Tile!LogonUI
    PROVE  Threads'
<1> USE DEF Threads, Tile!TypeOK, Tile!Underway, TileIsCurrent, Tile!TileIsCurrent,
        SelectReturns, Tile!SelectReturns, Tile!SubmitsWhatIsDue, Tile!Submittable, Tile!NoWorker
<1>1. CASE Tile!SetSelected
  BY <1>1 DEF Tile!SetSelected
<1>2. CASE Tile!StartThread
  BY <1>2 DEF Tile!StartThread
<1>3. CASE Tile!GetSerialization
  BY <1>3 DEF Tile!GetSerialization
<1>4. CASE Tile!Release
  <2>1. CASE Tile!NoWorker /\ Tile!Renewed
    BY <2>1 DEF Tile!Renewed
  <2>2. CASE ~Tile!NoWorker
    <3>1. /\ ui = "idle" /\ ui' = "leaving" /\ waiting' = FALSE
          /\ UNCHANGED <<pipe, thread, approved, password, status, carried, due>>
      BY <1>4, <2>2 DEF Tile!Release
    <3>2. thread \notin {"none", "ended"}
      BY <2>2
    <3>3. waiting' \in BOOLEAN
      BY <3>1
    <3> QED
      BY <3>1, <3>2, <3>3
  <2> QED
    BY <1>4, <2>1, <2>2 DEF Tile!Release
<1>5. CASE Tile!Destroyed
  BY <1>5 DEF Tile!Destroyed, Tile!Renewed
<1>6. CASE Tile!ReportResult
  BY <1>6 DEF Tile!ReportResult
<1> QED
  BY <1>1, <1>2, <1>3, <1>4, <1>5, <1>6 DEF Tile!LogonUI

\* So does the worker.
LEMMA WorkerKeepsThreads ==
    ASSUME Threads, Tile!Worker
    PROVE  Threads'
<1> USE DEF Threads, Tile!TypeOK, Tile!Underway, TileIsCurrent, Tile!TileIsCurrent,
        SelectReturns, Tile!SelectReturns, Tile!SubmitsWhatIsDue, Tile!Submittable
<1> DEFINE P == [state: {"absent", "open", "taken"},
                 data: Conns \cup Tile!Strange \cup {Blank, Refusal}]
<1>0. [state |-> "open", data |-> Blank] \in P /\ [state |-> "absent", data |-> Blank] \in P
  OBVIOUS
<1>1. CASE Tile!CreatePipe
  BY <1>0, <1>1 DEF Tile!CreatePipe
<1>2. CASE Tile!CreatePipeFails
  BY <1>2 DEF Tile!CreatePipeFails, Tile!GiveUp
<1>3. CASE Tile!ConnectPipe
  BY <1>3 DEF Tile!ConnectPipe
<1>4. CASE Tile!WaitTimesOut
  BY <1>0, <1>4 DEF Tile!WaitTimesOut, Tile!GiveUp, Tile!NoPipe
<1>5. CASE Tile!ReadRefusal
  BY <1>0, <1>5 DEF Tile!ReadRefusal, Tile!GiveUp, Tile!NoPipe
<1>6. CASE Tile!ReadPassword
  <2>1. pipe.data \in Conns \cup Tile!Strange \cup {Blank}
    BY <1>6 DEF Tile!ReadPassword
  <2> QED
    BY <1>0, <1>6, <2>1 DEF Tile!ReadPassword, Tile!NoPipe
<1>7. CASE Tile!Keep
  BY <1>7 DEF Tile!Keep
<1>8. CASE Tile!Approve
  BY <1>8 DEF Tile!Approve
<1>9. CASE Tile!LetGo
  BY <1>9 DEF Tile!LetGo
<1>10. CASE Tile!ShowSubmit
  BY <1>10 DEF Tile!ShowSubmit
<1> QED
  BY <1>1, <1>2, <1>3, <1>4, <1>5, <1>6, <1>7, <1>8, <1>9, <1>10 DEF Tile!Worker

----------------------------------------------------------------------------
(* The system. *)

LEMMA InitEstablishes ==
    LogonInit => IInv
<1> SUFFICES ASSUME LogonInit PROVE IInv
  OBVIOUS
<1>0. Init /\ Tile!Init
  BY DEF LogonInit
<1>1. Typed
  <2>1. NoPhone \in Phones
    BY DEF NoPhone, Phones, Actions
  <2> QED
    BY <1>0, <2>1, ClosedType, WindowsAssumption DEF Init, Typed
<1>2. Posted
  <2>1. IdleSession.mail = NoMail
    BY DEF IdleSession
  <2> QED
    BY <1>0, <2>1 DEF Init, Posted
<1>3. Issuance /\ ApprovalIsWarranted
  BY <1>0 DEF Init, Issuance, ApprovalIsWarranted
<1>4. Outcomes
  <2>1. IdleSession.ok = FALSE
    BY Zenon DEF IdleSession
  <2> QED
    BY <1>0, <2>1 DEF Init, Outcomes
<1>5. Limited
  <2>1. /\ <<>> \in Seq(0 .. now) /\ Len(<<>>) = 0
        /\ 1 .. 0 = {} /\ 1 .. 0 - MaxFails = {}
    BY EmptySeq, WindowsAssumption
  <2> QED
    BY <1>0, <2>1 DEF Init, Limited, FailuresAreLimited
<1>6. Traced /\ Threads
  <2>1. /\ pipe = [state |-> "absent", data |-> Blank]
        /\ ui = "idle" /\ thread = "none" /\ waiting = FALSE /\ approved = FALSE
        /\ password = Blank /\ carried = Blank /\ due = Blank
        /\ status = "over"
    BY <1>0 DEF Tile!Init, Tile!NoPipe
  <2> QED
    BY <2>1 DEF Traced, Threads, Tile!TypeOK, Tile!Underway, TileIsCurrent,
       Tile!TileIsCurrent, SelectReturns, Tile!SelectReturns, Tile!SubmitsWhatIsDue,
       Tile!Submittable
<1> QED
  BY <1>1, <1>2, <1>3, <1>4, <1>5, <1>6 DEF IInv, Listening

LEMMA ListenerPreserves ==
    ASSUME IInv, ListenerStep
    PROVE  IInv'
<1>0. Listening /\ Traced /\ Threads /\ Next /\ UNCHANGED tileState
  BY DEF IInv, ListenerStep
<1> SUFFICES /\ Listening' /\ approvals \subseteq approvals'
             /\ pipe' = pipe \/ \E v \in Released \cup {Refusal} : Signal(v)
  BY <1>0, SignalPreserves DEF IInv
<1>1. ASSUME NEW c \in Conns, NEW peer, Connect(c, peer)
      PROVE  Listening' /\ approvals \subseteq approvals' /\ pipe' = pipe
  BY <1>0, <1>1, ConnectPreserves DEF Connect
<1>2. ASSUME NEW c \in Conns, Receive(c)
      PROVE  Listening' /\ approvals \subseteq approvals' /\ pipe' = pipe
  <2>1. PICK m \in Responses, good \in BOOLEAN : (good => m \in signed) /\ Respond(c, m, good)
    <3>1. CASE sess[c].mail # NoMail /\ Respond(c, sess[c].mail, sess[c].mail \in signed)
      <4>1. sess[c].mail \in Responses /\ (sess[c].mail \in signed) \in BOOLEAN
        BY <1>0, <3>1 DEF Listening, Typed, Sessions
      <4> QED
        BY <3>1, <4>1
    <3>2. CASE \E m \in signed : Respond(c, m, TRUE)
      BY <1>0, <3>2 DEF Listening, Typed
    <3>3. CASE \E a \in Actions, n \in Conns : Respond(c, <<a, n, now>>, FALSE)
      <4>1. now \in Int
        BY <1>0 DEF Listening, Typed
      <4>2. \A a \in Actions, n \in Conns : <<a, n, now>> \in Responses
        BY <4>1 DEF Responses
      <4> QED
        BY <3>3, <4>2
    <3> QED
      BY <1>2, <3>1, <3>2, <3>3 DEF Receive
  <2>2. pipe' = pipe
    BY <2>1 DEF Respond
  <2> QED
    BY <1>0, <2>1, <2>2, RespondPreserves
<1>3. ASSUME NEW c \in Conns, Misfit(c) \/ Drop(c)
      PROVE  Listening' /\ approvals \subseteq approvals' /\ pipe' = pipe
  <2>1. /\ sess[c].pc # "idle" /\ Close(c)
        /\ UNCHANGED <<now, serviceVars, shutdownEnabled, pipe, phone, signed>>
    BY <1>3 DEF Misfit, Drop
  <2> QED
    BY <1>0, <2>1, ClosePreserves DEF serviceVars
<1>4. ASSUME NEW c \in Conns, Malformed(c)
      PROVE  Listening' /\ approvals \subseteq approvals' /\ Signal(Refusal)
  <2>1. /\ sess[c].pc # "idle" /\ Close(c) /\ Signal(Refusal)
        /\ UNCHANGED <<now, serviceVars, shutdownEnabled, phone, signed>>
    BY <1>4 DEF Malformed
  <2> QED
    BY <1>0, <2>1, ClosePreserves DEF serviceVars
<1>5. ASSUME NEW c \in Conns, Reply(c)
      PROVE  /\ Listening' /\ approvals \subseteq approvals'
             /\ pipe' = pipe \/ \E v \in Released \cup {Refusal} : Signal(v)
  <2>1. /\ sess[c].pc # "idle" /\ Close(c) /\ SignalResult(c)
        /\ UNCHANGED <<now, serviceVars, shutdownEnabled, phone, signed>>
    BY <1>5 DEF Reply
  <2>2. sess[c].ok /\ sess[c].action = "unlock" => sess[c].nonce \in Released
    BY <1>0 DEF Listening, Outcomes, Issuance, Released, Approved
  <2>3. pipe' = pipe \/ \E v \in Released \cup {Refusal} : Signal(v)
    BY <2>1, <2>2 DEF SignalResult
  <2> QED
    BY <1>0, <2>1, <2>3, ClosePreserves DEF serviceVars
<1>6. ASSUME NEW c \in Conns, Sign(c) \/ Settle(c)
      PROVE  Listening' /\ approvals \subseteq approvals' /\ pipe' = pipe
  BY <1>0, <1>6, SignPreserves, SettlePreserves DEF Sign, Settle, serviceVars
<1>7. CASE Restart
  BY <1>0, <1>7, RestartPreserves DEF Restart
<1>8. CASE Tick
  BY <1>0, <1>8, TickPreserves DEF Tick, serviceVars
<1> QED
  BY <1>0, <1>1, <1>2, <1>3, <1>4, <1>5, <1>6, <1>7, <1>8 DEF Next, Handle

LEMMA TilePreserves ==
    ASSUME IInv, TileStep
    PROVE  IInv'
<1>0. Tile!Next /\ UNCHANGED <<now, sess, pending, used, fails, approvals, tried,
                              shutdownEnabled, phone, signed>>
  BY DEF TileStep, listenerVars, serviceVars
<1>1. Typed' /\ Posted' /\ Issuance' /\ ApprovalIsWarranted'
  BY <1>0 DEF IInv, Listening, Typed, Posted, Issuance, ApprovalIsWarranted
<1>2. Outcomes'
  BY <1>0 DEF IInv, Listening, Outcomes, Approved
<1>3. Limited'
  BY <1>0, TimeLimits DEF IInv, Listening
<1>4. Traced'
  BY <1>0, TileTraces DEF IInv
<1>5. Threads'
  BY <1>0, LogonUIKeepsThreads, WorkerKeepsThreads DEF IInv, Tile!Next
<1> QED
  BY <1>1, <1>2, <1>3, <1>4, <1>5 DEF IInv, Listening

\* Another local process writes the pipe.
LEMMA IntrusionPreserves ==
    ASSUME IInv, Intrusion
    PROVE  IInv'
<1>0. /\ Tile!OtherProcess
      /\ UNCHANGED <<now, sess, pending, used, fails, approvals, tried, shutdownEnabled,
                     phone, signed>>
  BY DEF Intrusion, listenerVars, serviceVars
<1>1. UNCHANGED tileState /\ \E v \in Released \cup Tile!Strange \cup {Refusal} : Signal(v)
  BY <1>0 DEF Tile!OtherProcess, tileState, Signal
<1>2. Typed' /\ Posted' /\ Issuance' /\ ApprovalIsWarranted'
  BY <1>0 DEF IInv, Listening, Typed, Posted, Issuance, ApprovalIsWarranted
<1>3. Outcomes'
  BY <1>0 DEF IInv, Listening, Outcomes, Approved
<1>4. Limited'
  BY <1>0, TimeLimits DEF IInv, Listening
<1>5. Traced' /\ Threads'
  BY <1>0, <1>1, SignalPreserves DEF IInv
<1> QED
  BY <1>2, <1>3, <1>4, <1>5 DEF IInv, Listening

\* Every step of the listener, of the phones, of the tile's two threads and of the
\* other processes keeps the inductive invariant.
THEOREM LogonInvariance == LogonSpec => []IInv
<1>1. IInv /\ UNCHANGED logonVars => IInv'
  <2> SUFFICES ASSUME IInv, UNCHANGED logonVars
               PROVE  IInv'
    OBVIOUS
  <2>1. /\ UNCHANGED tileState /\ pipe' = pipe
        /\ UNCHANGED <<now, sess, pending, used, fails, approvals, tried,
                       shutdownEnabled, phone, signed>>
    BY DEF logonVars, listenerVars, serviceVars
  <2>2. Typed' /\ Posted' /\ Issuance' /\ ApprovalIsWarranted'
    BY <2>1 DEF IInv, Listening, Typed, Posted, Issuance, ApprovalIsWarranted
  <2>3. Outcomes'
    BY <2>1 DEF IInv, Listening, Outcomes, Approved
  <2>4. Limited'
    BY <2>1, TimeLimits DEF IInv, Listening
  <2>5. Traced' /\ Threads'
    BY <2>1, SignalPreserves DEF IInv
  <2> QED
    BY <2>2, <2>3, <2>4, <2>5 DEF IInv, Listening
<1>2. IInv /\ [ListenerStep \/ TileStep \/ Intrusion]_logonVars => IInv'
  BY <1>1, ListenerPreserves, TilePreserves, IntrusionPreserves
<1> QED
  BY <1>2, InitEstablishes, PTL DEF LogonSpec

\* The listener's, the phones' and the tile's variables keep their types, and a
\* success is reported only for a nonce in _used_nonces.
THEOREM TypeCorrect == LogonSpec => []TypeOK
<1>1. IInv => TypeOK
  <2> SUFFICES ASSUME IInv PROVE TypeOK
    OBVIOUS
  <2>1. now \in 0 .. MaxTime /\ DOMAIN pending \subseteq Conns /\ used \subseteq Conns
    BY DEF IInv, Listening, Typed
  <2>2. fails \in Seq(0 .. MaxTime)
    <3>1. 0 .. now \subseteq 0 .. MaxTime
      BY <2>1, WindowsAssumption
    <3> QED
      BY <3>1, SeqMonotonic DEF IInv, Listening, Limited
  <2>3. ASSUME NEW c \in Conns
        PROVE  /\ sess[c].pc \in {"idle", "waiting", "replying", "closed"}
               /\ sess[c].mail # NoMail => phone[c].pc \in {"sent", "settled"}
               /\ sess[c].ok => sess[c].nonce \in used
               /\ phone[c].pc \in {"none", "asked", "sent", "settled"}
    BY DEF IInv, Listening, Typed, Posted, Outcomes, Sessions, Phones
  <2> QED
    BY <2>1, <2>2, <2>3 DEF IInv, Threads, TypeOK
<1> QED
  BY <1>1, LogonInvariance, PTL

\* verify() approves only what the phone signed, in time, and no nonce twice,
\* however many connections, restarts and replayed responses there are.
THEOREM ApprovalsAreWarranted == LogonSpec => []ApprovalIsWarranted
<1>1. IInv => ApprovalIsWarranted
  BY DEF IInv, Listening
<1> QED
  BY <1>1, LogonInvariance, PTL

\* The sliding window of _rate_limited() admits at most RATE_LIMIT_MAX_FAILS
\* refusals in any RATE_LIMIT_WINDOW seconds, wherever the window is laid.
THEOREM FailuresStayLimited == LogonSpec => []FailuresAreLimited
<1>1. IInv => FailuresAreLimited
  BY DEF IInv, Listening, Limited
<1> QED
  BY <1>1, LogonInvariance, PTL

\* From the phone's signature over the listener, the pipe and the worker to
\* GetSerialization: nothing is submitted that was not approved, unless another
\* process wrote it to a pipe that is not locked down, and nothing is shut down
\* that was not approved.
THEOREM EffectsStayWarranted == LogonSpec => []EffectsAreWarranted
<1>1. IInv => EffectsAreWarranted
  <2> SUFFICES ASSUME IInv PROVE EffectsAreWarranted
    OBVIOUS
  <2>1. Tile!SubmitsWhatIsDue
    BY DEF IInv, Threads
  <2>2. \/ password = Blank
        \/ password = Foreign /\ ~LockedDown
        \/ \E a \in approvals : a[1][1] = "unlock" /\ a[1][2] = password
    BY DEF IInv, Traced, Released, Approved, Tile!Strange
  <2>3. \A c \in Conns : \A n \in TriggerShutdown(c) :
          shutdownEnabled /\ \E a \in approvals : a[1][1] = "shutdown" /\ a[1][2] = n
    BY DEF IInv, Listening, Outcomes, Approved, TriggerShutdown
  <2> QED
    BY <2>1, <2>2, <2>3 DEF EffectsAreWarranted
<1> QED
  BY <1>1, LogonInvariance, PTL

\* LogonUI neither submits nor reads a password while a worker writes it.
THEOREM TileStaysCurrent == LogonSpec => []TileIsCurrent
<1>1. IInv => TileIsCurrent
  BY DEF IInv, Threads
<1> QED
  BY <1>1, LogonInvariance, PTL

\* SetSelected does not wait for a phone.
THEOREM SelectDoesNotBlock == LogonSpec => []SelectReturns
<1>1. IInv => SelectReturns
  BY DEF IInv, Threads
<1> QED
  BY <1>1, LogonInvariance, PTL
=============================================================================
