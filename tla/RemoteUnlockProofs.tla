-------------------------- MODULE RemoteUnlockProofs --------------------------
(***************************************************************************)
(* The Linux side as a whole, for any number of logins, challenges,        *)
(* devices and restarts: the broker keeps its promises inside the process  *)
(* that holds it, and every login goes back to a consent of its own.       *)
(***************************************************************************)
EXTENDS RemoteUnlock, GrantBrokerProofs

\* Challenges have a device and a time, and the process has been started a number
\* of times.
Records ==
    /\ \A n \in DOMAIN issued : issued[n].t0 \in Nat
    /\ starts \in Nat /\ issuedIn \in Nat

\* Every grant was issued for one consented challenge, every challenge was spent
\* on at most one grant, and the latest grant was issued in time.
Giving ==
    /\ \A g \in given :
         /\ g = <<g[1], g[2]>>
         /\ g[1] \in DOMAIN issued
         /\ <<g[1], issued[g[1]].dev>> \in consents
         /\ g[2] \in 1 .. issues
         /\ g[2] = issues => issuedAt <= issued[g[1]].t0 + ChallengeTtl
    /\ \A g, k \in given : g[1] = k[1] \/ g[2] = k[2] => g = k
    /\ \A i \in 1 .. issues : \E g \in given : g[2] = i

\* A grant in memory is in the memory of the process that issued it.
Held == expires # 0 => life \notin {"down", "binding"} /\ starts = issuedIn

SystemInv == IndInv /\ Records /\ Giving /\ Held

----------------------------------------------------------------------------
\* Every step of the system is a step of the broker, or the end of the process.
LEMMA SystemSteps ==
    ASSUME [SystemNext]_systemVars
    PROVE  [Next]_vars \/ \E reply \in {"eof", "0"} : Abort(reply)
<1>1. CASE \E h \in Helpers : Reach(h) \/ Login(h)
  BY <1>1 DEF Reach, Login, Next, Steps
<1>2. CASE \E n \in Nonces : Unlock(n) \/ Consent(n) \/ \E d \in Devices : Challenge(n, d)
  BY <1>2 DEF Unlock, Consent, Challenge, Next, Steps
<1>3. CASE Proceed \/ SystemStop \/ UNCHANGED systemVars
  BY <1>3 DEF Proceed, SystemStop, systemVars
<1>4. CASE SystemTick \/ SystemToggleDisk
  BY <1>4 DEF SystemTick, SystemToggleDisk, Next, Steps
<1>5. CASE End
  BY <1>5 DEF End
<1> QED
  BY <1>1, <1>2, <1>3, <1>4, <1>5 DEF SystemNext

\* The inductive invariant of the broker holds inside the system.
LEMMA BrokerPreserved ==
    ASSUME IndInv, [SystemNext]_systemVars
    PROVE  IndInv'
BY SystemSteps, IndInvPreserved, AbortPreserves

\* What issues nothing and gives nothing changes only what the clock, the
\* consents and the requests are.
LEMMA QuietGiving ==
    ASSUME SystemInv, UNCHANGED <<issues, issuedAt, issued, given>>, consents \subseteq consents'
    PROVE  Giving'
BY DEF SystemInv, Giving

\* A response is accepted: its challenge and the new grant belong together.
LEMMA UnlockPreserves ==
    ASSUME SystemInv, NEW n \in Nonces, Unlock(n)
    PROVE  Records' /\ Giving' /\ Held'
<1> DEFINE x == <<n, issues + 1>>
<1>0. /\ life \in {"serving", "closing"}
      /\ n \in DOMAIN issued /\ <<n, issued[n].dev>> \in consents
      /\ now - issued[n].t0 <= ChallengeTtl
      /\ \A g \in given : g[1] # n /\ g[2] # issues + 1
      /\ given' = given \cup {x}
      /\ issues' = issues + 1 /\ issuedAt' = now
      /\ issuedIn' = starts
      /\ UNCHANGED <<issued, consents, life, starts>>
  BY DEF Unlock, Auth!Give, Issue, process
<1>1. issues \in Nat /\ now \in Nat /\ issued[n].t0 \in Nat /\ ChallengeTtl \in Nat
  BY <1>0, SystemAssumption DEF SystemInv, IndInv, TypeOK, Records
<1>2. x[1] = n /\ x[2] = issues + 1 /\ x = <<x[1], x[2]>>
  OBVIOUS
<1> HIDE DEF x
<1>3. Records'
  BY <1>0 DEF SystemInv, Records
<1>4. Giving'
  <2>1. ASSUME NEW g \in given'
        PROVE  /\ g = <<g[1], g[2]>>
               /\ g[1] \in DOMAIN issued'
               /\ <<g[1], issued'[g[1]].dev>> \in consents'
               /\ g[2] \in 1 .. issues'
               /\ g[2] = issues' => issuedAt' <= issued'[g[1]].t0 + ChallengeTtl
    <3>1. CASE g \in given
      <4>1. /\ g = <<g[1], g[2]>> /\ g[1] \in DOMAIN issued
            /\ <<g[1], issued[g[1]].dev>> \in consents /\ g[2] \in 1 .. issues
        BY <3>1 DEF SystemInv, Giving
      <4>2. g[2] # issues' /\ g[2] \in 1 .. issues'
        BY <1>0, <1>1, <4>1
      <4> QED
        BY <1>0, <4>1, <4>2
    <3>2. CASE g = x
      BY <1>0, <1>1, <1>2, <3>2
    <3> QED
      BY <1>0, <3>1, <3>2
  <2>2. \A g, k \in given' : g[1] = k[1] \/ g[2] = k[2] => g = k
    BY <1>0, <1>2 DEF SystemInv, Giving
  <2>3. ASSUME NEW i \in 1 .. issues' PROVE \E g \in given' : g[2] = i
    <3>1. i \in 1 .. issues \/ i = issues + 1
      BY <1>0, <1>1
    <3> QED
      BY <1>0, <1>2, <3>1 DEF SystemInv, Giving
  <2> QED
    BY <2>1, <2>2, <2>3 DEF Giving
<1>5. Held'
  BY <1>0 DEF Held
<1> QED
  BY <1>3, <1>4, <1>5

\* A challenge, or the owner's consent to one.
LEMMA PhonePreserves ==
    ASSUME SystemInv, NEW n \in Nonces,
           Consent(n) \/ \E d \in Devices : Challenge(n, d)
    PROVE  Records' /\ Giving' /\ Held'
<1>0. UNCHANGED <<now, expires, issues, issuedAt, given, life, starts, issuedIn>>
  BY DEF Consent, Challenge, Auth!Consent, Auth!Challenge, vars, broker, process
<1>1. Held'
  BY <1>0 DEF SystemInv, Held
<1>2. CASE Consent(n)
  <2>1. issued' = issued /\ consents \subseteq consents'
    BY <1>2 DEF Consent, Auth!Consent
  <2> QED
    BY <1>0, <1>1, <2>1, QuietGiving DEF SystemInv, Records
<1>3. ASSUME NEW d \in Devices, Challenge(n, d)
      PROVE  Records' /\ Giving'
  <2>1. /\ n \notin DOMAIN issued /\ consents' = consents
        /\ DOMAIN issued' = DOMAIN issued \cup {n}
        /\ issued'[n] = [dev |-> d, t0 |-> now]
        /\ \A m \in DOMAIN issued : issued'[m] = issued[m]
    BY <1>3 DEF Challenge, Auth!Challenge
  <2>2. now \in Nat /\ issued'[n].t0 = now
    BY <2>1 DEF SystemInv, IndInv, TypeOK
  <2>3. Records'
    BY <1>0, <2>1, <2>2 DEF SystemInv, Records
  <2>4. Giving'
    BY <1>0, <2>1 DEF SystemInv, Giving
  <2> QED
    BY <2>3, <2>4
<1> QED
  BY <1>1, <1>2, <1>3

\* A request that consumes or sleeps, a login that comes or goes: nothing new is
\* granted.
LEMMA LoginPreserves ==
    ASSUME SystemInv, NEW h \in Helpers, Reach(h) \/ Login(h)
    PROVE  Records' /\ Giving' /\ Held'
<1>0. UNCHANGED <<issued, consents, given, life, starts, issuedIn>>
  BY DEF Reach, Login, phone, process
<1>1. issues' = issues /\ issuedAt' = issuedAt /\ (expires' = expires \/ expires' = 0)
  <2>1. CASE Serve(h)
    <3>1. Deny(h) => UNCHANGED <<expires, issues, issuedAt>>
      BY DEF Deny, broker
    <3>2. Take(h) => expires' = 0 /\ UNCHANGED <<issues, issuedAt>>
      BY DEF Take, Remainder
    <3>3. ASSUME NEW u, Sleep(h, u) PROVE UNCHANGED <<expires, issues, issuedAt>>
      BY <3>3 DEF Sleep
    <3> QED
      BY <2>1, <3>1, <3>2, <3>3
         DEF Serve, ReadLine, ReadEof, ReadTimeout, Resume, WaitTimeout, Consume
  <2>2. CASE Send(h) \/ RefusePeer(h) \/ Return(h) \/ Kill(h)
    BY <2>2 DEF Send, RefusePeer, Return, Exit, GiveUp, Kill, broker
  <2>3. CASE Reach(h)
    BY <2>3 DEF Reach, Connect, Unreachable, broker
  <2> QED
    BY <2>1, <2>2, <2>3 DEF Login
<1> QED
  BY <1>0, <1>1, QuietGiving DEF SystemInv, Records, Held

\* The process binds, serves, stops, loses its socket or ends.
LEMMA ProcessPreserves ==
    ASSUME SystemInv, Proceed \/ End
    PROVE  Records' /\ Giving' /\ Held'
<1>0. UNCHANGED <<issues, issuedAt, issued, consents, given, issuedIn>>
  BY DEF Proceed, End, Abort, vars, broker, phone
<1>1. Giving'
  BY <1>0, QuietGiving
<1>2. CASE End
  <2>1. expires' = 0 /\ starts' = starts
    BY <1>2 DEF End, Abort, Forgotten, Run!StartFails, Run!StopFails, Run!Close, Run!Die
  <2> QED
    BY <1>0, <1>1, <2>1 DEF SystemInv, Records, Held
<1>3. CASE Run!Bind /\ UNCHANGED vars
  BY <1>0, <1>1, <1>3 DEF SystemInv, Records, Held, Run!Bind, vars, broker
<1>4. CASE (Run!Listen \/ Run!Stop \/ Run!ClosePam \/ Run!Rob) /\ UNCHANGED vars
  <2>1. /\ starts' = starts /\ expires' = expires
        /\ life \in {"down", "binding"} \/ life' \notin {"down", "binding"}
    BY <1>4 DEF Run!Listen, Run!Stop, Run!ClosePam, Run!Rob, vars, broker
  <2> QED
    BY <1>0, <1>1, <2>1 DEF SystemInv, Records, Held
<1> QED
  BY <1>2, <1>3, <1>4 DEF Proceed

\* The clock and the disk.
LEMMA WorldPreserves ==
    ASSUME SystemInv, SystemTick \/ SystemToggleDisk \/ SystemStop \/ UNCHANGED systemVars
    PROVE  Records' /\ Giving' /\ Held'
<1>0. UNCHANGED <<expires, issues, issuedAt, issued, consents, given, life, starts, issuedIn>>
  BY DEF SystemTick, SystemToggleDisk, SystemStop, systemVars, Tick, ToggleDisk, vars, broker,
     phone, process
<1> QED
  BY <1>0, QuietGiving DEF SystemInv, Records, Held

\* Every step of the system preserves the inductive invariant.
LEMMA SystemPreserves ==
    SystemInv /\ [SystemNext]_systemVars => SystemInv'
<1> SUFFICES ASSUME SystemInv, [SystemNext]_systemVars
             PROVE  Records' /\ Giving' /\ Held'
  BY BrokerPreserved DEF SystemInv
<1> QED
  BY UnlockPreserves, PhonePreserves, LoginPreserves, ProcessPreserves, WorldPreserves
     DEF SystemNext

LEMMA SystemInitially == SystemInit => SystemInv
<1> SUFFICES ASSUME SystemInit PROVE SystemInv
  OBVIOUS
<1>1. IndInv
  BY IndInvInitially DEF SystemInit
<1>2. Records /\ Giving /\ Held
  BY DEF SystemInit, Init, Auth!Init, Run!Init, Records, Giving, Held
<1> QED
  BY <1>1, <1>2 DEF SystemInv

\* The inductive invariant of the sessions, the broker, the logins and the
\* process that holds them.
THEOREM SystemInvariance == SystemSpec => []SystemInv
BY SystemInitially, SystemPreserves, PTL DEF SystemSpec

----------------------------------------------------------------------------
\* Whoever is let in was let in by a consent nobody else was let in by.
THEOREM LoginsAreConsented == SystemSpec => []LoginIsConsented
<1>1. SystemInv => LoginIsConsented
  <2> SUFFICES ASSUME SystemInv, NEW h \in Helpers, helper[h] = "granted"
               PROVE  \E n \in Behind(taken[h]) :
                        /\ <<n, issued[n].dev>> \in consents
                        /\ \A g \in Helpers \ {h} : n \notin Behind(taken[g])
    BY DEF LoginIsConsented
  <2>1. taken[h] # 0 /\ taken[h] \in Nat /\ taken[h] <= issues /\ issues \in Nat
    BY DEF SystemInv, IndInv, TypeOK, Backing, Numbering
  <2>2. PICK x \in given : x[2] = taken[h]
    BY <2>1 DEF SystemInv, Giving
  <2>3. x[1] \in Behind(taken[h]) /\ <<x[1], issued[x[1]].dev>> \in consents
    BY <2>2 DEF SystemInv, Giving, Behind
  <2>4. ASSUME NEW g \in Helpers \ {h}, x[1] \in Behind(taken[g])
        PROVE  FALSE
    <3>1. PICK k \in given : k[1] = x[1] /\ k[2] = taken[g]
      BY <2>4 DEF Behind
    <3>2. taken[g] = taken[h]
      BY <2>2, <3>1 DEF SystemInv, Giving
    <3> QED
      BY <2>1, <3>2 DEF SystemInv, IndInv, Numbering
  <2> QED
    BY <2>3, <2>4
<1> QED
  BY <1>1, SystemInvariance, PTL

\* A grant is consumed by the process that issued it, challenge_ttl + grant_ttl
\* seconds after the challenge at the latest.
THEOREM ConsentsAreFresh == SystemSpec => ConsentIsFresh
<1>1. ASSUME SystemInv, [SystemNext]_systemVars
      PROVE  [\A h \in Helpers : taken'[h] # taken[h] =>
               /\ life # "down" /\ starts = issuedIn
               /\ \E n \in Behind(taken'[h]) :
                    now < issued[n].t0 + ChallengeTtl + GrantTtl]_systemVars
  <2> SUFFICES ASSUME NEW h \in Helpers, taken'[h] # taken[h]
               PROVE  /\ life # "down" /\ starts = issuedIn
                      /\ \E n \in Behind(taken'[h]) :
                           now < issued[n].t0 + ChallengeTtl + GrantTtl
    OBVIOUS
  <2>1. [Next]_vars
    BY <1>1, SystemSteps DEF Abort
  <2>2. Take(h) /\ issues # 0 /\ now < issuedAt + GrantTtl
    BY <1>1, <2>1, ConsumingStep DEF SystemInv
  <2>3. /\ now \in Nat /\ issues \in Nat /\ issuedAt \in Nat /\ expires \in Nat
        /\ taken \in [Helpers -> Nat] /\ ChallengeTtl \in Nat /\ GrantTtl \in Nat
    BY <1>1, SystemAssumption, BrokerAssumption DEF SystemInv, IndInv, TypeOK
  <2>4. taken'[h] = issues /\ expires # 0
    BY <2>2, <2>3 DEF Take, Live
  <2>5. life # "down" /\ starts = issuedIn
    BY <1>1, <2>4 DEF SystemInv, Held
  <2>6. PICK g \in given : g[2] = issues
    BY <1>1, <2>2, <2>3 DEF SystemInv, Giving
  <2>7. /\ g[1] \in Behind(taken'[h])
        /\ issued[g[1]].t0 \in Nat /\ issuedAt <= issued[g[1]].t0 + ChallengeTtl
    BY <1>1, <2>4, <2>6 DEF SystemInv, Giving, Records, Behind
  <2> QED
    BY <2>2, <2>3, <2>5, <2>7
<1> QED
  BY <1>1, SystemInvariance, PTL DEF SystemSpec, ConsentIsFresh

\* Inside the system, too, no request sleeps next to a grant it could take.
THEOREM SystemWakeups == SystemSpec => []NoLostWakeup
<1>1. SystemInv => NoLostWakeup
  BY DEF SystemInv, IndInv
<1> QED
  BY <1>1, SystemInvariance, PTL

\* Inside the system, too, exit code 0 is backed by a grant, the unlock user and
\* an audit record.
THEOREM SystemLogins == SystemSpec => []ExitZeroIsAccounted
<1>1. SystemInv => ExitZeroIsAccounted
  BY DEF SystemInv, IndInv, Backing, ExitZeroIsAccounted
<1> QED
  BY <1>1, SystemInvariance, PTL

\* Inside the system, too, no grant is consumed grant_ttl seconds after its issue.
THEOREM SystemGrantsAreFresh == SystemSpec => GrantIsFresh
<1>1. ASSUME SystemInv, [SystemNext]_systemVars
      PROVE  [\A h \in Helpers : taken'[h] # taken[h] => now < issuedAt + GrantTtl]_vars
  BY <1>1, SystemSteps, ConsumingStep DEF Abort, SystemInv
<1> QED
  BY <1>1, SystemInvariance, PTL DEF SystemSpec, GrantIsFresh

\* The whole system implements the one-shot grant: neither restarts nor a stolen
\* socket let a grant be claimed twice.
THEOREM SystemRefinement == SystemSpec => OneShot
<1>1. SystemInit => Grant!Init
  BY InitRefines DEF SystemInit
<1>2. SystemInv /\ [SystemNext]_systemVars => [Grant!Next]_Grant!vars
  BY SystemSteps, StepRefines, AbortLapses DEF SystemInv
<1> QED
  BY <1>1, <1>2, SystemInvariance, PTL DEF SystemSpec, OneShot, Grant!Spec
=============================================================================
