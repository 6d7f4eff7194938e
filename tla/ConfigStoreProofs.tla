-------------------------- MODULE ConfigStoreProofs --------------------------
(***************************************************************************)
(* The configuration directory for any set of devices and any number of    *)
(* commands that may die between two writes: what holds however many       *)
(* pair.py processes run at the same time, and what holds when they run    *)
(* one after the other.                                                    *)
(***************************************************************************)
EXTENDS ConfigStore, TLAPS

\* What is left of each command before one of its steps.
Left(op, step) ==
    CASE op = "init" /\ step = "caKey"   -> <<"caKey", "caCert", "srvKey", "srvCert", "sigKey", "config">>
      [] op = "init" /\ step = "caCert"  -> <<"caCert", "srvKey", "srvCert", "sigKey", "config">>
      [] op = "init" /\ step = "srvKey"  -> <<"srvKey", "srvCert", "sigKey", "config">>
      [] op = "init" /\ step = "srvCert" -> <<"srvCert", "sigKey", "config">>
      [] op = "init" /\ step = "sigKey"  -> <<"sigKey", "config">>
      [] op = "add" /\ step = "sign"     -> <<"sign", "config", "bundle">>
      [] op = "add" /\ step = "config"   -> <<"config", "bundle">>
      [] op = "add" /\ step = "bundle"   -> <<"bundle">>
      [] op = "renew" /\ step = "sign"   -> <<"sign", "srvKey", "srvCert", "config">>
      [] op = "renew" /\ step = "srvKey" -> <<"srvKey", "srvCert", "config">>
      [] op = "renew" /\ step = "srvCert" -> <<"srvCert", "config">>
      [] OTHER -> <<"config">>

Steps(op) ==
    CASE op = "init"   -> {"caKey", "caCert", "srvKey", "srvCert", "sigKey", "config"}
      [] op = "add"    -> {"sign", "config", "bundle"}
      [] op = "revoke" -> {"config"}
      [] op = "renew"  -> {"sign", "srvKey", "srvCert", "config"}

\* The step after one, "none" after the last.
Following(op, step) ==
    CASE step = "caKey"                      -> "caCert"
      [] step = "caCert"                     -> "srvKey"
      [] step = "srvKey"                     -> "srvCert"
      [] step = "srvCert" /\ op = "init"     -> "sigKey"
      [] step = "sigKey"                     -> "config"
      [] step = "sign" /\ op = "renew"       -> "srvKey"
      [] step = "srvCert" /\ op = "renew"    -> "config"
      [] step = "sign" /\ op = "add"         -> "config"
      [] step = "config" /\ op = "add"       -> "bundle"
      [] OTHER                               -> "none"

Ops == {"init", "add", "revoke", "renew"}
Plans == UNION {{Left(op, step) : step \in Steps(op)} : op \in Ops}
KeyFiles == {"caKey", "caCert", "srvKey", "srvCert", "sigKey"}

CertsTo(n) == [key: 0 .. n, ca: 0 .. n]
DevsTo(n)  == [Devices -> [state: {"none", "on", "off"}, cert: CertsTo(n)]]
ConfsTo(n) == [devs: DevsTo(n), signer: 0 .. n]

\* The next step of the command of process a.
At(a) == Head(admin[a].todo)

\* A running command is somewhere in its plan, and made or read what it holds.
Running(m, n) ==
    /\ m \in [op: Ops, dev: Devices, todo: Plans, id: 1 .. n, copy: ConfsTo(n), ca: 0 .. n]
    /\ Head(m.todo) \in Steps(m.op)
    /\ m.todo = Left(m.op, Head(m.todo))

\* Types, the listener's reload: for any number of processes.
Typed ==
    /\ commands \in Nat
    /\ conf \in ConfsTo(commands) /\ data \in ConfsTo(commands)
    /\ mtime \in Nat /\ seen \in 0 .. mtime
    /\ reload \in {"idle", "read", "stat"}
    /\ keys \in [caKey: 0 .. commands, caCert: CertsTo(commands), srvKey: 0 .. commands,
                 srvCert: CertsTo(commands), sigKey: 0 .. commands]
    /\ bundles \in [Devices -> CertsTo(commands)]
    /\ revoked \subseteq Devices
    /\ admin = [a \in Admins |-> admin[a]]
    /\ \A a \in Admins : admin[a] = Idle \/ Running(admin[a], commands)

\* What the listener read is still on disk unless a save came after it.
Reloading ==
    /\ reload = "stat" /\ ~stamped => data = conf
    /\ reload = "idle" /\ seen = mtime /\ ~stamped => data = conf

\* Commands that do not overlap: the copy a command will save is the
\* configuration on disk, all that is older than the command; an add-device adds
\* what is not there, a revoke-device revokes what is.
Current ==
    \A a \in Admins : admin[a] # Idle =>
        /\ At(a) # "bundle" =>
             /\ admin[a].copy = conf
             /\ conf.signer < admin[a].id
             /\ \A d \in Devices : bundles[d].key < admin[a].id
        /\ admin[a].op = "revoke" => conf.devs[admin[a].dev].state # "none"
        /\ admin[a].op = "add" /\ At(a) # "bundle" => conf.devs[admin[a].dev].state = "none"
        /\ At(a) = "bundle" =>
             /\ conf.devs[admin[a].dev].state # "none"
             /\ conf.devs[admin[a].dev].cert = BuildCert(admin[a].id, admin[a].ca)

\* What config.json pins was made since the last init, and a device that is not
\* there has no bundle made since then.
Dated ==
    \A d \in Devices :
        IF conf.devs[d].state = "none" THEN bundles[d].key <= conf.signer
                                       ELSE conf.signer < conf.devs[d].cert.key

\* The keys and certificates on disk belong together.
Matches ==
    /\ keys.caCert = BuildCert(keys.caKey, keys.caKey)
    /\ keys.srvCert = BuildCert(keys.srvKey, keys.caKey)
    /\ keys.sigKey = conf.signer
    /\ \A d \in Devices : conf.devs[d].state = "on" => conf.devs[d].cert.ca = keys.caKey

\* How far a command has come in replacing them.
Stage(a) ==
    LET m  == admin[a]
        in(S) == At(a) \in S
    IN CASE m.op = "init" ->
              /\ m.ca = m.id
              /\ in({"caKey"}) => Matches
              /\ in({"caCert", "srvKey", "srvCert", "sigKey", "config"}) => keys.caKey = m.id
              /\ in({"srvKey", "srvCert", "sigKey", "config"}) => keys.caCert = BuildCert(m.id, m.id)
              /\ in({"srvCert", "sigKey", "config"}) => keys.srvKey = m.id
              /\ in({"sigKey", "config"}) => keys.srvCert = BuildCert(m.id, m.id)
              /\ in({"config"}) => keys.sigKey = m.id
         [] m.op = "renew" ->
              /\ ~in({"sign"}) => m.ca = keys.caKey
              /\ ~in({"srvCert"}) => Matches
              /\ in({"srvCert"}) =>
                   /\ keys.caCert = BuildCert(keys.caKey, keys.caKey)
                   /\ keys.srvKey = m.id
                   /\ keys.sigKey = conf.signer
                   /\ \A d \in Devices : conf.devs[d].state = "on" => conf.devs[d].cert.ca = keys.caKey
         [] OTHER ->
              /\ Matches
              /\ m.op = "add" /\ in({"config"}) => m.ca = keys.caKey

Identity ==
    ~cut => /\ (\A a \in Admins : admin[a] = Idle) => Matches
            /\ \A a \in Admins : admin[a] # Idle => Stage(a)

\* Holds for any number of processes.
SharedInv == Typed /\ Reloading

\* Holds when commands run one after the other.
AloneInv ==
    /\ Typed /\ Current /\ Dated /\ Identity
    /\ RevokedStaysRevoked /\ BundleIsPinned

----------------------------------------------------------------------------
(* Plans. *)

\* A plan is followed step by step, from its first step to its last.
LEMMA PlanSteps ==
    ASSUME NEW op \in Ops, NEW step \in Steps(op)
    PROVE  LET f == Following(op, step)
           IN /\ Left(op, step) \in Plans /\ Left(op, step) # <<>>
              /\ Head(Left(op, step)) = step
              /\ f = "none" => Tail(Left(op, step)) = <<>>
              /\ f # "none" => f \in Steps(op) /\ Tail(Left(op, step)) = Left(op, f)
<1>0. Left(op, step) \in Plans
  BY DEF Plans
<1>1. CASE op = "init"
  <2>1. CASE step = "caKey"
    <3>1. /\ Left(op, step) = <<"caKey", "caCert", "srvKey", "srvCert", "sigKey", "config">>
          /\ Following(op, step) = "caCert"
          /\ Left(op, "caCert") = <<"caCert", "srvKey", "srvCert", "sigKey", "config">>
          /\ "caCert" \in Steps(op)
      BY <1>1, <2>1 DEF Left, Following, Steps
    <3>2. /\ Head(<<"caKey", "caCert", "srvKey", "srvCert", "sigKey", "config">>) = "caKey"
          /\ Tail(<<"caKey", "caCert", "srvKey", "srvCert", "sigKey", "config">>) = <<"caCert", "srvKey", "srvCert", "sigKey", "config">>
          /\ <<"caKey", "caCert", "srvKey", "srvCert", "sigKey", "config">> # <<>>
      OBVIOUS
    <3> QED
      BY <1>0, <2>1, <3>1, <3>2, Zenon
  <2>2. CASE step = "caCert"
    <3>1. /\ Left(op, step) = <<"caCert", "srvKey", "srvCert", "sigKey", "config">>
          /\ Following(op, step) = "srvKey"
          /\ Left(op, "srvKey") = <<"srvKey", "srvCert", "sigKey", "config">>
          /\ "srvKey" \in Steps(op)
      BY <1>1, <2>2 DEF Left, Following, Steps
    <3>2. /\ Head(<<"caCert", "srvKey", "srvCert", "sigKey", "config">>) = "caCert"
          /\ Tail(<<"caCert", "srvKey", "srvCert", "sigKey", "config">>) = <<"srvKey", "srvCert", "sigKey", "config">>
          /\ <<"caCert", "srvKey", "srvCert", "sigKey", "config">> # <<>>
      OBVIOUS
    <3> QED
      BY <1>0, <2>2, <3>1, <3>2, Zenon
  <2>3. CASE step = "srvKey"
    <3>1. /\ Left(op, step) = <<"srvKey", "srvCert", "sigKey", "config">>
          /\ Following(op, step) = "srvCert"
          /\ Left(op, "srvCert") = <<"srvCert", "sigKey", "config">>
          /\ "srvCert" \in Steps(op)
      BY <1>1, <2>3 DEF Left, Following, Steps
    <3>2. /\ Head(<<"srvKey", "srvCert", "sigKey", "config">>) = "srvKey"
          /\ Tail(<<"srvKey", "srvCert", "sigKey", "config">>) = <<"srvCert", "sigKey", "config">>
          /\ <<"srvKey", "srvCert", "sigKey", "config">> # <<>>
      OBVIOUS
    <3> QED
      BY <1>0, <2>3, <3>1, <3>2, Zenon
  <2>4. CASE step = "srvCert"
    <3>1. /\ Left(op, step) = <<"srvCert", "sigKey", "config">>
          /\ Following(op, step) = "sigKey"
          /\ Left(op, "sigKey") = <<"sigKey", "config">>
          /\ "sigKey" \in Steps(op)
      BY <1>1, <2>4 DEF Left, Following, Steps
    <3>2. /\ Head(<<"srvCert", "sigKey", "config">>) = "srvCert"
          /\ Tail(<<"srvCert", "sigKey", "config">>) = <<"sigKey", "config">>
          /\ <<"srvCert", "sigKey", "config">> # <<>>
      OBVIOUS
    <3> QED
      BY <1>0, <2>4, <3>1, <3>2, Zenon
  <2>5. CASE step = "sigKey"
    <3>1. /\ Left(op, step) = <<"sigKey", "config">>
          /\ Following(op, step) = "config"
          /\ Left(op, "config") = <<"config">>
          /\ "config" \in Steps(op)
      BY <1>1, <2>5 DEF Left, Following, Steps
    <3>2. /\ Head(<<"sigKey", "config">>) = "sigKey"
          /\ Tail(<<"sigKey", "config">>) = <<"config">>
          /\ <<"sigKey", "config">> # <<>>
      OBVIOUS
    <3> QED
      BY <1>0, <2>5, <3>1, <3>2, Zenon
  <2>6. CASE step = "config"
    <3>1. Left(op, step) = <<"config">> /\ Following(op, step) = "none"
      BY <1>1, <2>6 DEF Left, Following
    <3>2. /\ Head(<<"config">>) = "config"
          /\ Tail(<<"config">>) = <<>>
          /\ <<"config">> # <<>>
      OBVIOUS
    <3> QED
      BY <1>0, <2>6, <3>1, <3>2, Zenon
  <2> QED
    BY <1>1, <2>1, <2>2, <2>3, <2>4, <2>5, <2>6 DEF Steps
<1>2. CASE op = "add"
  <2>1. CASE step = "sign"
    <3>1. /\ Left(op, step) = <<"sign", "config", "bundle">>
          /\ Following(op, step) = "config"
          /\ Left(op, "config") = <<"config", "bundle">>
          /\ "config" \in Steps(op)
      BY <1>2, <2>1 DEF Left, Following, Steps
    <3>2. /\ Head(<<"sign", "config", "bundle">>) = "sign"
          /\ Tail(<<"sign", "config", "bundle">>) = <<"config", "bundle">>
          /\ <<"sign", "config", "bundle">> # <<>>
      OBVIOUS
    <3> QED
      BY <1>0, <2>1, <3>1, <3>2, Zenon
  <2>2. CASE step = "config"
    <3>1. /\ Left(op, step) = <<"config", "bundle">>
          /\ Following(op, step) = "bundle"
          /\ Left(op, "bundle") = <<"bundle">>
          /\ "bundle" \in Steps(op)
      BY <1>2, <2>2 DEF Left, Following, Steps
    <3>2. /\ Head(<<"config", "bundle">>) = "config"
          /\ Tail(<<"config", "bundle">>) = <<"bundle">>
          /\ <<"config", "bundle">> # <<>>
      OBVIOUS
    <3> QED
      BY <1>0, <2>2, <3>1, <3>2, Zenon
  <2>3. CASE step = "bundle"
    <3>1. Left(op, step) = <<"bundle">> /\ Following(op, step) = "none"
      BY <1>2, <2>3 DEF Left, Following
    <3>2. /\ Head(<<"bundle">>) = "bundle"
          /\ Tail(<<"bundle">>) = <<>>
          /\ <<"bundle">> # <<>>
      OBVIOUS
    <3> QED
      BY <1>0, <2>3, <3>1, <3>2, Zenon
  <2> QED
    BY <1>2, <2>1, <2>2, <2>3 DEF Steps
<1>3. CASE op = "revoke"
  <2>1. CASE step = "config"
    <3>1. Left(op, step) = <<"config">> /\ Following(op, step) = "none"
      BY <1>3, <2>1 DEF Left, Following
    <3>2. /\ Head(<<"config">>) = "config"
          /\ Tail(<<"config">>) = <<>>
          /\ <<"config">> # <<>>
      OBVIOUS
    <3> QED
      BY <1>0, <2>1, <3>1, <3>2, Zenon
  <2> QED
    BY <1>3, <2>1 DEF Steps
<1>4. CASE op = "renew"
  <2>1. CASE step = "sign"
    <3>1. /\ Left(op, step) = <<"sign", "srvKey", "srvCert", "config">>
          /\ Following(op, step) = "srvKey"
          /\ Left(op, "srvKey") = <<"srvKey", "srvCert", "config">>
          /\ "srvKey" \in Steps(op)
      BY <1>4, <2>1 DEF Left, Following, Steps
    <3>2. /\ Head(<<"sign", "srvKey", "srvCert", "config">>) = "sign"
          /\ Tail(<<"sign", "srvKey", "srvCert", "config">>) = <<"srvKey", "srvCert", "config">>
          /\ <<"sign", "srvKey", "srvCert", "config">> # <<>>
      OBVIOUS
    <3> QED
      BY <1>0, <2>1, <3>1, <3>2, Zenon
  <2>2. CASE step = "srvKey"
    <3>1. /\ Left(op, step) = <<"srvKey", "srvCert", "config">>
          /\ Following(op, step) = "srvCert"
          /\ Left(op, "srvCert") = <<"srvCert", "config">>
          /\ "srvCert" \in Steps(op)
      BY <1>4, <2>2 DEF Left, Following, Steps
    <3>2. /\ Head(<<"srvKey", "srvCert", "config">>) = "srvKey"
          /\ Tail(<<"srvKey", "srvCert", "config">>) = <<"srvCert", "config">>
          /\ <<"srvKey", "srvCert", "config">> # <<>>
      OBVIOUS
    <3> QED
      BY <1>0, <2>2, <3>1, <3>2, Zenon
  <2>3. CASE step = "srvCert"
    <3>1. /\ Left(op, step) = <<"srvCert", "config">>
          /\ Following(op, step) = "config"
          /\ Left(op, "config") = <<"config">>
          /\ "config" \in Steps(op)
      BY <1>4, <2>3 DEF Left, Following, Steps
    <3>2. /\ Head(<<"srvCert", "config">>) = "srvCert"
          /\ Tail(<<"srvCert", "config">>) = <<"config">>
          /\ <<"srvCert", "config">> # <<>>
      OBVIOUS
    <3> QED
      BY <1>0, <2>3, <3>1, <3>2, Zenon
  <2>4. CASE step = "config"
    <3>1. Left(op, step) = <<"config">> /\ Following(op, step) = "none"
      BY <1>4, <2>4 DEF Left, Following
    <3>2. /\ Head(<<"config">>) = "config"
          /\ Tail(<<"config">>) = <<>>
          /\ <<"config">> # <<>>
      OBVIOUS
    <3> QED
      BY <1>0, <2>4, <3>1, <3>2, Zenon
  <2> QED
    BY <1>4, <2>1, <2>2, <2>3, <2>4 DEF Steps
<1> QED
  BY <1>1, <1>2, <1>3, <1>4 DEF Ops

\* The first step of each command.
LEMMA FirstSteps ==
    ASSUME NEW op \in Ops
    PROVE  /\ Head(Plan(op)) \in Steps(op)
           /\ Plan(op) = Left(op, Head(Plan(op)))
           /\ Plan(op) \in Plans
           /\ op = "init" => Head(Plan(op)) = "caKey"
           /\ op \in {"add", "renew"} => Head(Plan(op)) = "sign"
           /\ op = "revoke" => Head(Plan(op)) = "config"
<1>1. CASE op = "init"
  <2>1. Plan(op) = Left(op, "caKey") /\ "caKey" \in Steps(op)
    BY <1>1 DEF Plan, Left, Steps
  <2> QED
    BY <1>1, <2>1, PlanSteps
<1>2. CASE op = "add"
  <2>1. Plan(op) = Left(op, "sign") /\ "sign" \in Steps(op)
    BY <1>2 DEF Plan, Left, Steps
  <2> QED
    BY <1>2, <2>1, PlanSteps
<1>3. CASE op = "revoke"
  <2>1. Plan(op) = Left(op, "config") /\ "config" \in Steps(op)
    BY <1>3 DEF Plan, Left, Steps
  <2> QED
    BY <1>3, <2>1, PlanSteps
<1>4. CASE op = "renew"
  <2>1. Plan(op) = Left(op, "sign") /\ "sign" \in Steps(op)
    BY <1>4 DEF Plan, Left, Steps
  <2> QED
    BY <1>4, <2>1, PlanSteps
<1> QED
  BY <1>1, <1>2, <1>3, <1>4 DEF Ops

\* A process with a step to do is running a command, and is at that step.
LEMMA DoingRuns ==
    ASSUME Typed, NEW a \in Admins, NEW step, Doing(a, step)
    PROVE  admin[a] # Idle /\ Running(admin[a], commands) /\ At(a) = step
  BY DEF Typed, Doing, Idle, At

\* A process that goes on is at the step that follows, or has ended.
LEMMA Advances ==
    ASSUME Typed, NEW a \in Admins, admin[a] # Idle, Advance(a)
    PROVE  LET m == admin[a]
               p == admin'[a]
               f == Following(m.op, At(a))
           IN /\ \A b \in Admins \ {a} : admin'[b] = admin[b]
              /\ admin' = [b \in Admins |-> admin'[b]]
              /\ f = "none" => p = Idle
              /\ f # "none" =>
                   /\ p # Idle /\ Running(p, commands) /\ Head(p.todo) = f
                   /\ p.op = m.op /\ p.dev = m.dev /\ p.id = m.id
                   /\ p.copy = m.copy /\ p.ca = m.ca
<1> DEFINE m    == admin[a]
           step == At(a)
           f    == Following(m.op, step)
           rest == Tail(m.todo)
<1>1. Running(m, commands) /\ m.op \in Ops /\ step \in Steps(m.op) /\ m.todo = Left(m.op, step)
  BY DEF Typed, Running, At
<1>2. admin' = [admin EXCEPT ![a] = IF rest = <<>> THEN Idle ELSE [m EXCEPT !.todo = rest]]
  BY DEF Advance, Typed
<1>3. /\ \A b \in Admins \ {a} : admin'[b] = admin[b]
      /\ admin' = [b \in Admins |-> admin'[b]]
      /\ admin'[a] = IF rest = <<>> THEN Idle ELSE [m EXCEPT !.todo = rest]
  BY <1>2 DEF Typed
<1>4. CASE f = "none"
  <2>1. rest = <<>>
    BY <1>1, <1>4, PlanSteps
  <2> QED
    BY <1>3, <1>4, <2>1
<1>5. CASE f # "none"
  <2>1. f \in Steps(m.op) /\ rest = Left(m.op, f)
    BY <1>1, <1>5, PlanSteps
  <2> HIDE DEF f, rest, m
  <2>2. rest # <<>> /\ Head(rest) = f /\ rest \in Plans
    BY <1>1, <2>1, PlanSteps, Zenon
  <2>3. admin'[a] = [m EXCEPT !.todo = rest]
    BY <1>3, <2>2
  <2> DEFINE p == [m EXCEPT !.todo = rest]
  <2>4. /\ p.todo = rest /\ p.op = m.op /\ p.dev = m.dev /\ p.id = m.id
        /\ p.copy = m.copy /\ p.ca = m.ca
        /\ p \in [op: Ops, dev: Devices, todo: Plans, id: 1 .. commands,
                  copy: ConfsTo(commands), ca: 0 .. commands]
    BY <1>1, <2>2 DEF Running
  <2> HIDE DEF p
  <2>5. Running(p, commands)
    BY <2>1, <2>2, <2>4 DEF Running
  <2>6. p # Idle
    BY <2>4, <1>1 DEF Ops, Idle
  <2> QED
    BY <1>3, <2>2, <2>3, <2>4, <2>5, <2>6, <1>5 DEF p, m, f
<1> QED
  BY <1>4, <1>5

----------------------------------------------------------------------------
(* Types, and the listener's reload. *)

\* What a command numbered up to n may hold, the next one may hold.
LEMMA Wider ==
    ASSUME NEW n \in Nat
    PROVE  /\ 0 .. n \subseteq 0 .. n + 1 /\ 1 .. n \subseteq 1 .. n + 1
           /\ CertsTo(n) \subseteq CertsTo(n + 1)
           /\ ConfsTo(n) \subseteq ConfsTo(n + 1)
           /\ \A m : Running(m, n) => Running(m, n + 1)
<1>1. 0 .. n \subseteq 0 .. n + 1 /\ 1 .. n \subseteq 1 .. n + 1
  OBVIOUS
<1>2. CertsTo(n) \subseteq CertsTo(n + 1)
  BY <1>1 DEF CertsTo
<1>3. DevsTo(n) \subseteq DevsTo(n + 1)
  BY <1>2 DEF DevsTo
<1>4. ConfsTo(n) \subseteq ConfsTo(n + 1)
  BY <1>1, <1>3 DEF ConfsTo
<1>5. ASSUME NEW m, Running(m, n) PROVE Running(m, n + 1)
  BY <1>1, <1>4, <1>5 DEF Running
<1> QED
  BY <1>1, <1>2, <1>4, <1>5

\* What a command saves is a configuration.
LEMMA EditedType ==
    ASSUME NEW n \in Nat, NEW m, Running(m, n)
    PROVE  Edited(m) \in ConfsTo(n)
<1>1. /\ m.op \in Ops /\ m.dev \in Devices /\ m.id \in 0 .. n /\ m.ca \in 0 .. n
      /\ m.copy \in ConfsTo(n)
  BY DEF Running
<1>2. NoDevices \in DevsTo(n)
  BY DEF NoDevices, NoDevice, NoCert, BuildCert, DevsTo, CertsTo
<1>3. [state |-> "on", cert |-> BuildCert(m.id, m.ca)] \in [state: {"none", "on", "off"}, cert: CertsTo(n)]
  BY <1>1 DEF BuildCert, CertsTo
<1>4. CASE m.op = "init"
  BY <1>1, <1>2, <1>4 DEF Edited, ConfsTo
<1>5. CASE m.op = "add"
  <2> DEFINE e == [state |-> "on", cert |-> BuildCert(m.id, m.ca)]
  <2>1. Edited(m) = [m.copy EXCEPT !.devs[m.dev] = e]
    BY <1>5 DEF Edited
  <2> HIDE DEF e
  <2> QED
    BY <1>1, <1>3, <2>1 DEF ConfsTo, DevsTo, e
<1>6. CASE m.op = "revoke"
  <2>1. Edited(m) = [m.copy EXCEPT !.devs[m.dev].state = "off"]
    BY <1>6 DEF Edited
  <2> QED
    BY <1>1, <2>1 DEF ConfsTo, DevsTo
<1>7. CASE m.op = "renew"
  BY <1>1, <1>7 DEF Edited
<1> QED
  BY <1>1, <1>4, <1>5, <1>6, <1>7 DEF Ops

\* A command that starts holds what it loaded and is at its first step.
LEMMA BeginRuns ==
    ASSUME Typed, NEW a \in Admins, NEW op \in Ops, NEW d \in Devices, Begin(a, op, d)
    PROVE  LET p == admin'[a]
           IN /\ p # Idle /\ Running(p, commands') /\ commands' = commands + 1
              /\ p.op = op /\ p.dev = d /\ p.todo = Plan(op) /\ p.id = commands + 1
              /\ p.copy = conf /\ p.ca = commands + 1
              /\ \A b \in Admins \ {a} : admin'[b] = admin[b]
              /\ admin' = [b \in Admins |-> admin'[b]]
<1> DEFINE p == [op |-> op, dev |-> d, todo |-> Plan(op), id |-> commands + 1,
                 copy |-> conf, ca |-> commands + 1]
<1>1. commands \in Nat /\ conf \in ConfsTo(commands + 1)
  BY Wider DEF Typed
<1>2. p \in [op: Ops, dev: Devices, todo: Plans, id: 1 .. commands + 1,
             copy: ConfsTo(commands + 1), ca: 0 .. commands + 1]
  BY <1>1, FirstSteps
<1>3. Running(p, commands + 1)
  BY <1>2, FirstSteps DEF Running
<1>4. p # Idle
  BY DEF Ops, Idle
<1>5. admin' = [admin EXCEPT ![a] = p] /\ commands' = commands + 1
  BY DEF Begin
<1>6. /\ admin'[a] = p /\ \A b \in Admins \ {a} : admin'[b] = admin[b]
      /\ admin' = [b \in Admins |-> admin'[b]]
  BY <1>5 DEF Typed
<1> QED
  BY <1>3, <1>4, <1>5, <1>6

\* Begin and Refuse take a number, and write nothing.
LEMMA StartsTyped ==
    ASSUME Typed, NEW a \in Admins, NEW op \in Ops, NEW d \in Devices,
           Begin(a, op, d) \/ Refuse(a, op, d)
    PROVE  Typed'
<1>1. commands \in Nat /\ commands' = commands + 1 /\ UNCHANGED <<files, data, seen, reload, revoked>>
  BY DEF Typed, Begin, Refuse, listener
<1>2. ASSUME NEW b \in Admins PROVE admin'[b] = Idle \/ Running(admin'[b], commands')
  BY <1>1, <1>2, Wider, BeginRuns DEF Typed, Refuse
<1>3. admin' = [b \in Admins |-> admin'[b]]
  BY BeginRuns DEF Typed, Refuse
<1>4. /\ ConfsTo(commands) \subseteq ConfsTo(commands')
      /\ CertsTo(commands) \subseteq CertsTo(commands')
      /\ 0 .. commands \subseteq 0 .. commands'
  BY <1>1, Wider
<1> QED
  BY <1>1, <1>2, <1>3, <1>4 DEF Typed, files

\* A command that ends, in whatever way, leaves the others alone.
LEMMA EndsTyped ==
    ASSUME Typed, NEW a \in Admins, admin' = [admin EXCEPT ![a] = Idle],
           UNCHANGED <<files, commands, data, seen, reload, revoked>>
    PROVE  Typed'
<1>1. admin' = [b \in Admins |-> admin'[b]]
  BY DEF Typed
<1>2. \A b \in Admins : admin'[b] = Idle \/ Running(admin'[b], commands)
  BY DEF Typed
<1> QED
  BY <1>1, <1>2 DEF Typed, files

\* The CA a command has read.
LEMMA ReadCARuns ==
    ASSUME Typed, NEW a \in Admins, ReadCA(a)
    PROVE  LET m == admin[a]
               p == admin'[a]
           IN /\ m # Idle /\ Running(m, commands) /\ At(a) = "sign"
              /\ p # Idle /\ Running(p, commands)
              /\ Head(p.todo) = Following(m.op, "sign") /\ m.op \in {"add", "renew"}
              /\ p.op = m.op /\ p.dev = m.dev /\ p.id = m.id
              /\ p.copy = m.copy /\ p.ca = keys.caKey
              /\ \A b \in Admins \ {a} : admin'[b] = admin[b]
              /\ admin' = [b \in Admins |-> admin'[b]]
<1> DEFINE m    == admin[a]
           rest == Tail(m.todo)
           p    == [m EXCEPT !.ca = keys.caKey, !.todo = rest]
           f    == Following(m.op, "sign")
<1>1. m # Idle /\ Running(m, commands) /\ At(a) = "sign"
  BY DoingRuns DEF ReadCA
<1>2. m.op \in {"add", "renew"} /\ m.todo = Left(m.op, "sign") /\ "sign" \in Steps(m.op)
  BY <1>1 DEF Running, At, Steps, Ops
<1>3. f # "none"
  BY <1>2 DEF Following
<1>4. f \in Steps(m.op) /\ rest = Left(m.op, f)
  BY <1>2, <1>3, PlanSteps DEF Ops
<1>5. m.op \in Ops /\ keys.caKey \in 0 .. commands
  BY <1>1 DEF Running, Typed
<1>6. admin' = [admin EXCEPT ![a] = p]
  BY DEF ReadCA, Typed
<1>7. /\ admin'[a] = p /\ \A b \in Admins \ {a} : admin'[b] = admin[b]
      /\ admin' = [b \in Admins |-> admin'[b]]
  BY <1>6 DEF Typed
<1> HIDE DEF f, rest, m
<1>8. Head(rest) = f /\ rest \in Plans
  BY <1>4, <1>5, PlanSteps, Zenon
<1>9. /\ p.todo = rest /\ p.op = m.op /\ p.dev = m.dev /\ p.id = m.id
      /\ p.copy = m.copy /\ p.ca = keys.caKey
      /\ p \in [op: Ops, dev: Devices, todo: Plans, id: 1 .. commands,
                copy: ConfsTo(commands), ca: 0 .. commands]
  BY <1>1, <1>5, <1>8 DEF Running
<1> HIDE DEF p
<1>10. Running(p, commands)
  BY <1>4, <1>8, <1>9 DEF Running
<1>11. p # Idle
  BY <1>5, <1>9 DEF Ops, Idle
<1> QED
  BY <1>1, <1>2, <1>7, <1>8, <1>9, <1>10, <1>11 DEF m, f

\* What a command writes over a key or a certificate.
LEMMA WriteKeyTyped ==
    ASSUME Typed, NEW a \in Admins, WriteKey(a)
    PROVE  keys' \in [caKey: 0 .. commands, caCert: CertsTo(commands), srvKey: 0 .. commands,
                      srvCert: CertsTo(commands), sigKey: 0 .. commands]
<1>1. PICK f \in KeyFiles : Doing(a, f) /\ keys' = [keys EXCEPT ![f] = Written(admin[a], f)]
  BY DEF WriteKey, KeyFiles
<1>2. /\ Running(admin[a], commands) /\ admin[a].id \in 0 .. commands
      /\ BuildCert(admin[a].id, admin[a].ca) \in CertsTo(commands)
  BY <1>1, DoingRuns DEF Running, BuildCert, CertsTo
<1>3. /\ f \in {"caCert", "srvCert"} => Written(admin[a], f) \in CertsTo(commands)
      /\ f \notin {"caCert", "srvCert"} => Written(admin[a], f) \in 0 .. commands
  BY <1>2 DEF Written
<1> DEFINE w == Written(admin[a], f)
<1>4. keys' = [keys EXCEPT ![f] = w]
  BY <1>1
<1> HIDE DEF w
<1>5. CASE f = "caKey"
  BY <1>3, <1>4, <1>5 DEF Typed, w
<1>6. CASE f = "caCert"
  BY <1>3, <1>4, <1>6 DEF Typed, w
<1>7. CASE f = "srvKey"
  BY <1>3, <1>4, <1>7 DEF Typed, w
<1>8. CASE f = "srvCert"
  BY <1>3, <1>4, <1>8 DEF Typed, w
<1>9. CASE f = "sigKey"
  BY <1>3, <1>4, <1>9 DEF Typed, w
<1> QED
  BY <1>5, <1>6, <1>7, <1>8, <1>9 DEF KeyFiles

\* Every step of a command keeps the types.
LEMMA CommandTyped ==
    ASSUME Typed, NEW a \in Admins,
           ReadCA(a) \/ CannotSign(a) \/ WriteKey(a) \/ Save(a) \/ WriteBundle(a) \/ Die(a)
    PROVE  Typed'
<1>0. NoCert \in CertsTo(commands)
  BY DEF Typed, NoCert, BuildCert, CertsTo
<1>1. CASE ReadCA(a)
  <2>1. \A b \in Admins : admin'[b] = Idle \/ Running(admin'[b], commands)
    BY <1>1, ReadCARuns DEF Typed
  <2>2. admin' = [b \in Admins |-> admin'[b]]
    BY <1>1, ReadCARuns
  <2> QED
    BY <1>1, <2>1, <2>2 DEF Typed, ReadCA, files, listener
<1>2. CASE CannotSign(a) \/ Die(a)
  BY <1>2, EndsTyped DEF CannotSign, Die, listener
<1>3. ASSUME admin[a] # Idle, Advance(a), commands' = commands
      PROVE  /\ admin' = [b \in Admins |-> admin'[b]]
             /\ \A b \in Admins : admin'[b] = Idle \/ Running(admin'[b], commands')
  BY <1>3, Advances DEF Typed
<1>4. CASE WriteKey(a)
  <2>1. admin[a] # Idle
    BY <1>4, DoingRuns DEF WriteKey
  <2> QED
    BY <1>3, <1>4, <2>1, WriteKeyTyped DEF WriteKey, listener, Typed
<1>5. CASE Save(a)
  <2>1. admin[a] # Idle /\ Running(admin[a], commands)
    BY <1>5, DoingRuns DEF Save
  <2>2. conf' \in ConfsTo(commands)
    BY <1>5, <2>1, EditedType DEF Save, Typed
  <2>3. revoked' \subseteq Devices
    BY <1>5, <2>1 DEF Save, Typed, Running, Ops
  <2>4. bundles' \in [Devices -> CertsTo(commands)]
    BY <1>0, <1>5 DEF Save, Typed
  <2>5. mtime' \in Nat /\ seen' \in 0 .. mtime'
    BY <1>5 DEF Save, Typed
  <2> QED
    BY <1>3, <1>5, <2>1, <2>2, <2>3, <2>4, <2>5 DEF Save, Typed
<1>6. CASE WriteBundle(a)
  <2>1. admin[a] # Idle /\ Running(admin[a], commands)
    BY <1>6, DoingRuns DEF WriteBundle
  <2>2. BuildCert(admin[a].id, admin[a].ca) \in CertsTo(commands)
    BY <2>1 DEF Running, BuildCert, CertsTo, Typed
  <2>3. bundles' \in [Devices -> CertsTo(commands)]
    BY <1>6, <2>2 DEF WriteBundle, Typed
  <2> QED
    BY <1>3, <1>6, <2>1, <2>3 DEF WriteBundle, listener, Typed
<1> QED
  BY <1>1, <1>2, <1>4, <1>5, <1>6

\* The listener's steps keep the types.
LEMMA ListenerTyped ==
    ASSUME Typed, Stat \/ Read \/ Stamp \/ UNCHANGED vars
    PROVE  Typed'
<1>1. /\ UNCHANGED <<files, admin, commands, revoked>> /\ data' \in {data, conf}
      /\ seen' \in {seen, mtime} /\ reload' \in {"idle", "read", "stat"}
  BY DEF Typed, Stat, Read, Loaded, Stamp, vars, listener
<1> QED
  BY <1>1 DEF Typed, files

\* A save between the read and the second stat of a reload is remembered; any
\* other save changes the modification time.
LEMMA ReloadingKept ==
    ASSUME Typed, Reloading, [Next]_vars
    PROVE  Reloading'
<1>1. CASE Stat \/ Read \/ Stamp
  BY <1>1 DEF Typed, Reloading, Stat, Read, Loaded, Stamp, files
<1>2. ASSUME NEW a \in Admins, Save(a) PROVE Reloading'
  <2>1. /\ mtime' = mtime + 1 /\ UNCHANGED <<data, seen, reload>>
        /\ stamped' = (stamped \/ reload = "stat")
    BY <1>2 DEF Save
  <2>2. reload = "stat" => stamped'
    BY <2>1, Zenon
  <2>3. seen' # mtime'
    BY <2>1 DEF Typed
  <2> QED
    BY <2>1, <2>2, <2>3 DEF Reloading
<1>3. CASE UNCHANGED <<conf, mtime, listener>>
  BY <1>3 DEF Reloading, listener
<1>4. ASSUME NEW a \in Admins, NEW op \in Ops, NEW d \in Devices,
             Begin(a, op, d) \/ Refuse(a, op, d)
      PROVE  UNCHANGED <<conf, mtime, listener>>
  BY <1>4 DEF Begin, Refuse, files
<1>5. ASSUME NEW a \in Admins,
             ReadCA(a) \/ CannotSign(a) \/ WriteKey(a) \/ WriteBundle(a) \/ Die(a)
      PROVE  UNCHANGED <<conf, mtime, listener>>
  BY <1>5 DEF ReadCA, CannotSign, WriteKey, WriteBundle, Die, files
<1>6. CASE Stop \/ UNCHANGED vars
  BY <1>3, <1>6 DEF Stop, vars, files
<1> QED
  BY <1>1, <1>2, <1>3, <1>4, <1>5, <1>6 DEF Next, Ops

\* Every step keeps the types.
LEMMA NextTyped ==
    ASSUME Typed, [Next]_vars
    PROVE  Typed'
<1>1. CASE Stat \/ Read \/ Stamp \/ Stop \/ UNCHANGED vars
  BY <1>1, ListenerTyped DEF Stop
<1>2. ASSUME NEW a \in Admins, NEW op \in Ops, NEW d \in Devices,
             Begin(a, op, d) \/ Refuse(a, op, d)
      PROVE  Typed'
  BY <1>2, StartsTyped
<1>3. ASSUME NEW a \in Admins,
             ReadCA(a) \/ CannotSign(a) \/ WriteKey(a) \/ Save(a) \/ WriteBundle(a) \/ Die(a)
      PROVE  Typed'
  BY <1>3, CommandTyped
<1> QED
  BY <1>1, <1>2, <1>3 DEF Next, Ops

\* What holds in the initial state.
LEMMA InitTyped ==
    ASSUME Init
    PROVE  Typed /\ Reloading
<1>1. 0 \in 0 .. commands /\ commands \in Nat /\ commands = 0
  BY DEF Init
<1>2. NoCert \in CertsTo(commands) /\ BuildCert(0, 0) \in CertsTo(commands)
  BY <1>1 DEF NoCert, BuildCert, CertsTo
<1>3. NoDevices \in DevsTo(commands)
  BY <1>2 DEF NoDevices, NoDevice, DevsTo
<1>4. conf \in ConfsTo(commands) /\ data \in ConfsTo(commands)
  BY <1>1, <1>3 DEF Init, ConfsTo
<1>5. keys \in [caKey: 0 .. commands, caCert: CertsTo(commands), srvKey: 0 .. commands,
                srvCert: CertsTo(commands), sigKey: 0 .. commands]
  BY <1>1, <1>2 DEF Init
<1>6. admin = [a \in Admins |-> admin[a]] /\ \A a \in Admins : admin[a] = Idle
  BY DEF Init
<1> QED
  BY <1>1, <1>2, <1>4, <1>5, <1>6 DEF Init, Typed, Reloading

\* Types and reloads, for any number of pair.py processes at the same time.
THEOREM SharedInvariance == Spec => []SharedInv
<1>1. Init => SharedInv
  BY InitTyped DEF SharedInv
<1>2. SharedInv /\ [Next]_vars => SharedInv'
  BY NextTyped, ReloadingKept DEF SharedInv
<1> QED
  BY <1>1, <1>2, PTL DEF Spec

\* Every file and variable keeps its type, whatever commands run side by side.
THEOREM TypeCorrect == Spec => []TypeOK
<1>1. SharedInv => TypeOK
  BY DEF SharedInv, Typed, TypeOK, ConfsTo, DevsTo, CertsTo, Certs
<1> QED
  BY <1>1, SharedInvariance, PTL

\* A reload that no save overlapped leaves the listener up to date, whatever
\* commands run side by side.
THEOREM ReloadsCatchUp == Spec => []ReloadCatchesUp
<1>1. SharedInv => ReloadCatchesUp
  BY DEF SharedInv, Reloading, ReloadCatchesUp
<1> QED
  BY <1>1, SharedInvariance, PTL

----------------------------------------------------------------------------
(* Commands that run one after the other. *)

\* At most one pair.py process: what an administrator who waits for a command to
\* end before typing the next one gives.
Alone == \A a, b \in Admins : a = b

\* A step at which the lone process runs a command: what the invariant says of it.
LEMMA AloneRuns ==
    ASSUME Alone, NEW a \in Admins
    PROVE  (\A b \in Admins : admin[b] = Idle) <=> admin[a] = Idle
  BY DEF Alone

\* A bundle from before the last init is pinned for nobody.
LEMMA OldBundles ==
    ASSUME NEW n \in Nat, NEW c \in ConfsTo(n), NEW b \in [Devices -> CertsTo(n)],
           \A d \in Devices : IF c.devs[d].state = "none" THEN b[d].key <= c.signer
                                                          ELSE c.signer < c.devs[d].cert.key
    PROVE  \A d \in Devices : b[d].key < c.signer =>
             \A e \in Devices : c.devs[e].state # "none" => c.devs[e].cert # b[d]
<1> SUFFICES ASSUME NEW d \in Devices, NEW e \in Devices,
                    b[d].key < c.signer, c.devs[e].state # "none"
             PROVE  c.devs[e].cert # b[d]
  OBVIOUS
<1>1. c.signer < c.devs[e].cert.key
  OBVIOUS
<1>2. c.signer \in Nat /\ b[d].key \in Nat /\ c.devs[e].cert.key \in Nat
  BY DEF ConfsTo, DevsTo, CertsTo
<1> QED
  BY <1>1, <1>2

\* Steps that write no file keep the parts of the invariant about files.
LEMMA NoWrite ==
    ASSUME AloneInv, UNCHANGED <<files, revoked>>
    PROVE  Dated' /\ RevokedStaysRevoked' /\ BundleIsPinned' /\ (Matches <=> Matches')
  BY DEF AloneInv, files, Dated, RevokedStaysRevoked, BundleIsPinned, Matches

\* A command starts.
LEMMA BeginAlone ==
    ASSUME Alone, AloneInv, NEW a \in Admins, NEW op \in Ops, NEW d \in Devices, Begin(a, op, d)
    PROVE  AloneInv'
<1> DEFINE p == admin'[a]
<1>1. /\ Typed /\ admin[a] = Idle /\ Accepts(op, d, conf) /\ UNCHANGED <<files, cut, revoked>>
  BY DEF AloneInv, Begin
<1>2. /\ p # Idle /\ p.op = op /\ p.dev = d /\ p.todo = Plan(op) /\ p.id = commands + 1
      /\ p.copy = conf /\ p.ca = commands + 1
  BY <1>1, BeginRuns
<1>3. Head(p.todo) = IF op = "init" THEN "caKey" ELSE IF op = "revoke" THEN "config" ELSE "sign"
  BY <1>2, FirstSteps DEF Ops
<1>4. Typed'
  BY <1>1, StartsTyped
<1>5. Current'
  <2>1. /\ conf.signer < commands + 1
        /\ \A e \in Devices : bundles[e].key < commands + 1
    BY <1>1 DEF Typed, ConfsTo, CertsTo
  <2>2. /\ op = "revoke" => conf.devs[d].state # "none"
        /\ op = "add" => conf.devs[d].state = "none"
    BY <1>1 DEF Accepts
  <2>3. conf' = conf /\ bundles' = bundles
    BY <1>1 DEF files
  <2> QED
    BY <1>2, <1>3, <2>1, <2>2, <2>3 DEF Current, At, Alone
<1>6. Identity'
  <2> SUFFICES ASSUME ~cut' PROVE Stage(a)'
    BY <1>2 DEF Identity, Alone
  <2>1. Matches'
    BY <1>1, AloneRuns, NoWrite DEF AloneInv, Identity
  <2> QED
    BY <1>2, <1>3, <2>1 DEF Stage, At, Ops
<1> QED
  BY <1>1, <1>4, <1>5, <1>6, NoWrite DEF AloneInv

\* A command reads the CA.
LEMMA ReadCAAlone ==
    ASSUME Alone, AloneInv, NEW a \in Admins, ReadCA(a)
    PROVE  AloneInv'
<1> DEFINE m == admin[a]
           p == admin'[a]
<1>1. Typed /\ UNCHANGED <<files, cut, revoked>>
  BY DEF AloneInv, ReadCA
<1>2. /\ m # Idle /\ At(a) = "sign" /\ m.op \in {"add", "renew"}
      /\ p # Idle /\ Head(p.todo) = Following(m.op, "sign") /\ p.op = m.op /\ p.dev = m.dev
      /\ p.id = m.id /\ p.copy = m.copy /\ p.ca = keys.caKey
  BY <1>1, ReadCARuns
<1>3. Head(p.todo) = IF m.op = "add" THEN "config" ELSE "srvKey"
  BY <1>2 DEF Following
<1>4. Typed'
  BY <1>1, CommandTyped
<1>5. Current'
  BY <1>1, <1>2, <1>3 DEF AloneInv, Current, At, Alone, files
<1>6. Identity'
  <2> SUFFICES ASSUME ~cut' PROVE Stage(a)'
    BY <1>2 DEF Identity, Alone
  <2>1. Matches
    BY <1>1, <1>2 DEF AloneInv, Identity, Stage
  <2>2. Matches'
    BY <1>1, <2>1, NoWrite
  <2>3. keys' = keys
    BY <1>1 DEF files
  <2> QED
    BY <1>2, <1>3, <2>2, <2>3 DEF Stage, At
<1> QED
  BY <1>1, <1>4, <1>5, <1>6, NoWrite DEF AloneInv

\* A command ends before it has written anything, or dies.
LEMMA EndsAlone ==
    ASSUME Alone, AloneInv, NEW a \in Admins, CannotSign(a) \/ Die(a)
    PROVE  AloneInv'
<1>1. Typed /\ UNCHANGED <<files, revoked>> /\ admin' = [admin EXCEPT ![a] = Idle]
  BY DEF AloneInv, CannotSign, Die
<1>2. admin'[a] = Idle
  BY <1>1 DEF Typed
<1>3. Typed'
  BY <1>1, CommandTyped
<1>4. Current'
  BY <1>2 DEF Current, Alone
<1>5. Identity'
  <2> SUFFICES ASSUME ~cut' PROVE Matches'
    BY <1>2 DEF Identity, Alone
  <2>1. CannotSign(a) /\ ~cut
    BY DEF CannotSign, Die
  <2>2. admin[a] # Idle /\ Running(admin[a], commands) /\ At(a) = "sign"
    BY <1>1, <2>1, DoingRuns DEF CannotSign
  <2>3. admin[a].op \in {"add", "renew"}
    BY <2>2 DEF Running, At, Steps, Ops
  <2>4. Matches
    BY <2>1, <2>2, <2>3 DEF AloneInv, Identity, Stage
  <2> QED
    BY <1>1, <2>4, NoWrite
<1> QED
  BY <1>1, <1>3, <1>4, <1>5, NoWrite DEF AloneInv

\* A command replaces a key or certificate: nothing but init and renew-server do.
LEMMA WriteKeyAlone ==
    ASSUME Alone, AloneInv, NEW a \in Admins, WriteKey(a)
    PROVE  AloneInv'
<1> DEFINE m == admin[a]
           p == admin'[a]
           f == At(a)
<1>1. Typed /\ UNCHANGED <<conf, mtime, bundles, commands, cut, revoked>> /\ Advance(a)
  BY DEF AloneInv, WriteKey
<1>2. f \in KeyFiles /\ Doing(a, f) /\ keys' = [keys EXCEPT ![f] = Written(m, f)]
  BY <1>1, DoingRuns DEF WriteKey, KeyFiles
<1>3. m # Idle /\ Running(m, commands) /\ m.op \in {"init", "renew"} /\ f \in Steps(m.op)
  BY <1>1, <1>2, DoingRuns DEF Running, Steps, Ops, KeyFiles, At
<1>4. Following(m.op, f) = IF f = "caKey" THEN "caCert"
                           ELSE IF f = "caCert" THEN "srvKey"
                           ELSE IF f = "srvKey" THEN "srvCert"
                           ELSE IF f = "srvCert" /\ m.op = "init" THEN "sigKey" ELSE "config"
  BY <1>2, <1>3 DEF Following, Steps, KeyFiles
<1>5. /\ p # Idle /\ Head(p.todo) = Following(m.op, f)
      /\ p.op = m.op /\ p.dev = m.dev /\ p.id = m.id /\ p.copy = m.copy /\ p.ca = m.ca
  BY <1>1, <1>3, <1>4, Advances
<1>6. Typed'
  BY <1>1, CommandTyped
<1>7. Current'
  BY <1>1, <1>2, <1>3, <1>4, <1>5 DEF AloneInv, Current, At, Alone, KeyFiles
<1>8. Dated' /\ RevokedStaysRevoked' /\ BundleIsPinned'
  BY <1>1 DEF AloneInv, Dated, RevokedStaysRevoked, BundleIsPinned
<1>9. Identity'
  <2> SUFFICES ASSUME ~cut' PROVE Stage(a)'
    BY <1>5 DEF Identity, Alone
  <2>1. Stage(a)
    BY <1>1, <1>3 DEF AloneInv, Identity
  <2>2. At(a)' = Following(m.op, f)
    BY <1>5 DEF At
  <2>3. /\ keys'.caKey  = IF f = "caKey" THEN m.id ELSE keys.caKey
        /\ keys'.caCert = IF f = "caCert" THEN BuildCert(m.id, m.ca) ELSE keys.caCert
        /\ keys'.srvKey = IF f = "srvKey" THEN m.id ELSE keys.srvKey
        /\ keys'.srvCert = IF f = "srvCert" THEN BuildCert(m.id, m.ca) ELSE keys.srvCert
        /\ keys'.sigKey = IF f = "sigKey" THEN m.id ELSE keys.sigKey
    BY <1>1, <1>2 DEF Typed, Written, KeyFiles
  <2>4. CASE m.op = "init"
    <3>1. f \in KeyFiles /\ m.ca = m.id
      BY <1>2, <2>1, <2>4 DEF Stage
    <3> HIDE DEF f, m, p
    <3> QED
      BY <1>4, <1>5, <2>1, <2>2, <2>3, <2>4, <3>1 DEF Stage, KeyFiles, m, p, f
  <2>5. CASE m.op = "renew"
    <3>1. f \in {"srvKey", "srvCert"}
      BY <1>2, <1>3, <2>5 DEF Steps, KeyFiles
    <3>2. CASE f = "srvKey"
      BY <1>1, <1>4, <1>5, <2>1, <2>2, <2>3, <2>5, <3>2 DEF Stage, Matches
    <3>3. CASE f = "srvCert"
      BY <1>1, <1>4, <1>5, <2>1, <2>2, <2>3, <2>5, <3>3 DEF Stage, Matches
    <3> QED
      BY <3>1, <3>2, <3>3
  <2> QED
    BY <1>3, <2>4, <2>5
<1> QED
  BY <1>6, <1>7, <1>8, <1>9 DEF AloneInv

\* What a lone command saves: its own edit of the configuration on disk.
LEMMA SavedAlone ==
    ASSUME AloneInv, NEW a \in Admins, Save(a)
    PROVE  LET m == admin[a] IN
           /\ m # Idle /\ Running(m, commands) /\ At(a) = "config" /\ m.copy = conf
           /\ m.op = "init" => /\ conf' = [devs |-> NoDevices, signer |-> m.id]
                               /\ bundles' = bundles /\ revoked' = {}
           /\ m.op = "add" => /\ \A d \in Devices \ {m.dev} : conf'.devs[d] = conf.devs[d]
                              /\ conf'.devs[m.dev].state = "on"
                              /\ conf'.devs[m.dev].cert = BuildCert(m.id, m.ca)
                              /\ conf'.signer = conf.signer
                              /\ bundles' = bundles /\ revoked' = revoked
           /\ m.op = "revoke" => /\ \A d \in Devices \ {m.dev} : conf'.devs[d] = conf.devs[d]
                                 /\ conf'.devs[m.dev].state = "off"
                                 /\ conf'.devs[m.dev].cert = conf.devs[m.dev].cert
                                 /\ conf'.signer = conf.signer
                                 /\ bundles' = bundles /\ revoked' = revoked \cup {m.dev}
           /\ m.op = "renew" => conf' = conf /\ bundles' = bundles /\ revoked' = revoked
<1> DEFINE m == admin[a]
<1>1. m # Idle /\ Running(m, commands) /\ At(a) = "config"
  BY DoingRuns DEF AloneInv, Save
<1>2. m.copy = conf /\ m.dev \in Devices /\ conf \in ConfsTo(commands)
  BY <1>1 DEF AloneInv, Current, Typed, Running
<1>3. conf' = Edited(m)
  BY DEF Save
<1>4. CASE m.op = "init"
  BY <1>1, <1>2, <1>3, <1>4 DEF Edited, Save
<1>5. CASE m.op = "add"
  <2> DEFINE e == [state |-> "on", cert |-> BuildCert(m.id, m.ca)]
  <2>1. conf' = [conf EXCEPT !.devs[m.dev] = e]
    BY <1>2, <1>3, <1>5 DEF Edited
  <2>2. e.state = "on" /\ e.cert = BuildCert(m.id, m.ca)
    OBVIOUS
  <2> HIDE DEF e
  <2>3. /\ \A d \in Devices \ {m.dev} : conf'.devs[d] = conf.devs[d]
        /\ conf'.devs[m.dev] = e /\ conf'.signer = conf.signer
    BY <1>2, <2>1 DEF ConfsTo, DevsTo
  <2>4. bundles' = bundles /\ revoked' = revoked
    BY <1>5 DEF Save
  <2> QED
    BY <1>1, <1>2, <1>5, <2>2, <2>3, <2>4
<1>6. CASE m.op = "revoke"
  <2>1. conf' = [conf EXCEPT !.devs[m.dev].state = "off"]
    BY <1>2, <1>3, <1>6 DEF Edited
  <2>2. /\ \A d \in Devices \ {m.dev} : conf'.devs[d] = conf.devs[d]
        /\ conf'.devs[m.dev].state = "off" /\ conf'.devs[m.dev].cert = conf.devs[m.dev].cert
        /\ conf'.signer = conf.signer
    BY <1>2, <2>1 DEF ConfsTo, DevsTo
  <2>3. bundles' = bundles /\ revoked' = revoked \cup {m.dev}
    BY <1>6 DEF Save
  <2> QED
    BY <1>1, <1>2, <1>6, <2>2, <2>3
<1>7. CASE m.op = "renew"
  BY <1>1, <1>2, <1>3, <1>7 DEF Edited, Save
<1> QED
  BY <1>1, <1>4, <1>5, <1>6, <1>7 DEF Running, Ops

\* A lone command saves config.json.
LEMMA SaveAlone ==
    ASSUME Alone, AloneInv, NEW a \in Admins, Save(a)
    PROVE  AloneInv'
<1> DEFINE m == admin[a]
           p == admin'[a]
<1>1. Typed /\ UNCHANGED <<keys, cut>> /\ Advance(a)
  BY DEF AloneInv, Save
<1>2. /\ m # Idle /\ Running(m, commands) /\ At(a) = "config" /\ m.copy = conf
      /\ m.op \in Ops /\ m.dev \in Devices
  BY SavedAlone DEF Running
<1>3. Following(m.op, "config") = IF m.op = "add" THEN "bundle" ELSE "none"
  BY <1>2 DEF Following
<1>4. /\ m.op # "add" => p = Idle
      /\ m.op = "add" => /\ p # Idle /\ Head(p.todo) = "bundle"
                         /\ p.op = m.op /\ p.dev = m.dev /\ p.id = m.id /\ p.ca = m.ca
  BY <1>1, <1>2, <1>3, Advances
<1>5. Typed'
  BY <1>1, CommandTyped
<1>6. Current'
  <2>1. CASE m.op = "add"
    <3>1. conf'.devs[m.dev].state # "none" /\ conf'.devs[m.dev].cert = BuildCert(m.id, m.ca)
      BY <2>1, SavedAlone
    <3> QED
      BY <1>4, <2>1, <3>1 DEF Current, At, Alone
  <2>2. CASE m.op # "add"
    BY <1>4, <2>2 DEF Current, Alone
  <2> QED
    BY <2>1, <2>2
<1>7. m.op = "add" => conf.devs[m.dev].state = "none" /\ bundles[m.dev].key <= conf.signer /\ m.dev \notin revoked
  BY <1>2 DEF AloneInv, Current, Dated, RevokedStaysRevoked
<1>8. Dated' /\ RevokedStaysRevoked' /\ BundleIsPinned'
  <2> DEFINE Pinned == \A d \in Devices : bundles'[d].key > conf'.signer =>
                          conf'.devs[d].cert = bundles'[d]
  <2>0. /\ conf.signer < m.id /\ \A d \in Devices : bundles[d].key < m.id
        /\ m.op = "revoke" => conf.devs[m.dev].state # "none"
        /\ m.id \in Nat /\ conf.signer \in Nat /\ \A d \in Devices : bundles[d].key \in Nat
        /\ Dated /\ RevokedStaysRevoked
        /\ \A d \in Devices : bundles[d].key > conf.signer => conf.devs[d].cert = bundles[d]
    BY <1>1, <1>2 DEF AloneInv, Current, BundleIsPinned, Typed, Running, ConfsTo, CertsTo
  <2>1. ASSUME m.op = "init"
        PROVE  Dated' /\ RevokedStaysRevoked' /\ Pinned
    <3>1. /\ conf'.signer = m.id /\ bundles' = bundles /\ revoked' = {}
          /\ \A d \in Devices : conf'.devs[d].state = "none"
      BY <2>1, SavedAlone DEF NoDevices, NoDevice
    <3> QED
      BY <2>0, <3>1 DEF Dated, RevokedStaysRevoked
  <2>2. ASSUME m.op = "add"
        PROVE  Dated' /\ RevokedStaysRevoked' /\ Pinned
    <3>1. BuildCert(m.id, m.ca).key = m.id
      BY DEF BuildCert
    <3>2. /\ \A d \in Devices \ {m.dev} : conf'.devs[d] = conf.devs[d]
          /\ conf'.devs[m.dev].state = "on"
          /\ conf'.devs[m.dev].cert.key = m.id
          /\ conf'.signer = conf.signer /\ bundles' = bundles /\ revoked' = revoked
      BY <2>2, <3>1, SavedAlone
    <3>3. Dated'
      BY <1>7, <2>0, <2>2, <3>2 DEF Dated
    <3>4. RevokedStaysRevoked'
      BY <1>7, <1>1, <2>0, <2>2, <3>2 DEF RevokedStaysRevoked, Typed
    <3>5. Pinned
      BY <1>7, <2>0, <2>2, <3>2
    <3> QED
      BY <3>3, <3>4, <3>5
  <2>3. ASSUME m.op = "revoke"
        PROVE  Dated' /\ RevokedStaysRevoked' /\ Pinned
    <3>1. /\ \A d \in Devices \ {m.dev} : conf'.devs[d] = conf.devs[d]
          /\ conf'.devs[m.dev].state = "off"
          /\ conf'.devs[m.dev].cert = conf.devs[m.dev].cert
          /\ conf'.signer = conf.signer /\ bundles' = bundles
          /\ revoked' = revoked \cup {m.dev}
      BY <2>3, SavedAlone
    <3>2. Dated'
      BY <2>0, <2>3, <3>1 DEF Dated
    <3>3. RevokedStaysRevoked'
      BY <1>1, <2>0, <3>1 DEF RevokedStaysRevoked, Typed
    <3>4. Pinned
      BY <2>0, <3>1
    <3> QED
      BY <3>2, <3>3, <3>4
  <2>4. ASSUME m.op = "renew"
        PROVE  Dated' /\ RevokedStaysRevoked' /\ Pinned
    BY <2>0, <2>4, SavedAlone DEF Dated, RevokedStaysRevoked
  <2>5. Dated' /\ RevokedStaysRevoked' /\ Pinned
    BY <1>2, <2>1, <2>2, <2>3, <2>4 DEF Ops
  <2>6. /\ commands' \in Nat /\ conf' \in ConfsTo(commands')
        /\ bundles' \in [Devices -> CertsTo(commands')]
    BY <1>5 DEF Typed, ConfsTo, DevsTo, CertsTo
  <2>7. \A d \in Devices : IF conf'.devs[d].state = "none"
                           THEN bundles'[d].key <= conf'.signer
                           ELSE conf'.signer < conf'.devs[d].cert.key
    BY <2>5 DEF Dated
  <2> QED
    BY <2>5, <2>6, <2>7, OldBundles DEF BundleIsPinned
<1>9. Identity'
  <2> SUFFICES ASSUME ~cut' PROVE Matches' /\ (admin'[a] # Idle => Stage(a)')
    BY DEF Identity, Alone
  <2>1. Stage(a) /\ keys' = keys
    BY <1>1, <1>2 DEF AloneInv, Identity
  <2>2. CASE m.op = "init"
    <3>1. conf'.signer = m.id /\ \A d \in Devices : conf'.devs[d].state # "on"
      BY <2>2, SavedAlone DEF NoDevices, NoDevice
    <3> QED
      BY <1>2, <1>4, <2>1, <2>2, <3>1 DEF Stage, Matches
  <2>3. CASE m.op = "add"
    <3>1. BuildCert(m.id, m.ca).ca = m.ca
      BY DEF BuildCert
    <3>2. Matches /\ m.ca = keys.caKey
      BY <1>2, <2>1, <2>3 DEF Stage
    <3>3. Matches'
      BY <2>1, <2>3, <3>1, <3>2, SavedAlone DEF Matches
    <3> QED
      BY <1>4, <2>3, <3>3 DEF Stage, At
  <2>4. CASE m.op = "revoke"
    <3>1. Matches
      BY <2>1, <2>4 DEF Stage
    <3>2. Matches'
      BY <2>1, <2>4, <3>1, SavedAlone DEF Matches
    <3> QED
      BY <1>4, <2>4, <3>2
  <2>5. CASE m.op = "renew"
    <3>1. Matches
      BY <1>2, <2>1, <2>5 DEF Stage
    <3>2. Matches'
      BY <2>1, <2>5, <3>1, SavedAlone DEF Matches
    <3> QED
      BY <1>4, <2>5, <3>2
  <2> QED
    BY <1>2, <2>2, <2>3, <2>4, <2>5 DEF Ops
<1> QED
  BY <1>5, <1>6, <1>8, <1>9 DEF AloneInv

\* The bundle of a device that add-device has just pinned.
LEMMA WriteBundleAlone ==
    ASSUME Alone, AloneInv, NEW a \in Admins, WriteBundle(a)
    PROVE  AloneInv'
<1> DEFINE m == admin[a]
<1>1. Typed /\ UNCHANGED <<conf, keys, cut, revoked>> /\ Advance(a)
  BY DEF AloneInv, WriteBundle
<1>2. m # Idle /\ Running(m, commands) /\ At(a) = "bundle" /\ m.dev \in Devices
  BY <1>1, DoingRuns DEF WriteBundle, Running
<1>3. m.op = "add" /\ Following(m.op, "bundle") = "none"
  BY <1>2 DEF Running, At, Steps, Ops, Following
<1>4. admin'[a] = Idle
  BY <1>1, <1>2, <1>3, Advances
<1>5. Typed'
  BY <1>1, CommandTyped
<1>6. Current'
  BY <1>4 DEF Current, Alone
<1>7. Dated' /\ BundleIsPinned'
  <2> DEFINE Pinned == \A d \in Devices : bundles'[d].key > conf'.signer =>
                          conf'.devs[d].cert = bundles'[d]
  <2>1. /\ \A d \in Devices \ {m.dev} : bundles'[d] = bundles[d]
        /\ bundles'[m.dev] = BuildCert(m.id, m.ca)
    BY <1>1, <1>2 DEF WriteBundle, Typed
  <2>2. conf.devs[m.dev].state # "none" /\ conf.devs[m.dev].cert = BuildCert(m.id, m.ca)
    BY <1>2 DEF AloneInv, Current
  <2>3. Dated'
    BY <1>1, <2>1, <2>2 DEF AloneInv, Dated
  <2>4. Pinned
    BY <1>1, <2>1, <2>2 DEF AloneInv, BundleIsPinned
  <2>5. /\ commands' \in Nat /\ conf' \in ConfsTo(commands')
        /\ bundles' \in [Devices -> CertsTo(commands')]
    BY <1>5 DEF Typed, ConfsTo, DevsTo, CertsTo
  <2>6. \A d \in Devices : IF conf'.devs[d].state = "none"
                           THEN bundles'[d].key <= conf'.signer
                           ELSE conf'.signer < conf'.devs[d].cert.key
    BY <2>3 DEF Dated
  <2>7. BundleIsPinned'
    BY <2>4, <2>5, <2>6, OldBundles DEF BundleIsPinned
  <2> QED
    BY <2>3, <2>7
<1>8. RevokedStaysRevoked'
  BY <1>1 DEF AloneInv, RevokedStaysRevoked
<1>9. Identity'
  <2> SUFFICES ASSUME ~cut' PROVE Matches'
    BY <1>4 DEF Identity, Alone
  <2>1. Matches
    BY <1>1, <1>2, <1>3 DEF AloneInv, Identity, Stage
  <2> QED
    BY <1>1, <2>1 DEF Matches
<1> QED
  BY <1>5, <1>6, <1>7, <1>8, <1>9 DEF AloneInv

\* The listener writes none of the files, and a refused command neither.
LEMMA OthersAlone ==
    ASSUME AloneInv, UNCHANGED <<files, admin, cut, revoked>>, Typed'
    PROVE  AloneInv'
<1>1. Current' /\ Identity'
  BY DEF AloneInv, Current, Identity, Stage, Matches, At, files
<1> QED
  BY <1>1, NoWrite DEF AloneInv

\* The inductive invariant of commands that do not overlap.
THEOREM AloneInvariance ==
    ASSUME Alone
    PROVE  Spec => []AloneInv
<1>1. Init => AloneInv
  <2> SUFFICES ASSUME Init PROVE AloneInv
    OBVIOUS
  <2>1. Typed /\ \A a \in Admins : admin[a] = Idle
    BY InitTyped DEF Init
  <2>2. Current /\ Dated /\ RevokedStaysRevoked /\ BundleIsPinned
    BY <2>1 DEF Init, Current, Dated, RevokedStaysRevoked, BundleIsPinned,
                    NoDevices, NoDevice, NoCert, BuildCert
  <2>3. Matches
    BY DEF Init, Matches, NoDevices, NoDevice
  <2> QED
    BY <2>1, <2>2, <2>3 DEF AloneInv, Identity
<1>2. AloneInv /\ [Next]_vars => AloneInv'
  <2> SUFFICES ASSUME AloneInv, [Next]_vars PROVE AloneInv'
    OBVIOUS
  <2>0. Typed'
    BY NextTyped DEF AloneInv
  <2>1. CASE Stat \/ Read \/ Stamp \/ Stop \/ UNCHANGED vars
    BY <2>0, <2>1, OthersAlone DEF Stat, Read, Stamp, Stop, vars
  <2>2. ASSUME NEW a \in Admins, NEW op \in Ops, NEW d \in Devices, Begin(a, op, d)
        PROVE  AloneInv'
    BY <2>2, BeginAlone
  <2>3. ASSUME NEW a \in Admins, NEW op \in Ops, NEW d \in Devices, Refuse(a, op, d)
        PROVE  AloneInv'
    BY <2>0, <2>3, OthersAlone DEF Refuse
  <2>4. ASSUME NEW a \in Admins,
               ReadCA(a) \/ CannotSign(a) \/ WriteKey(a) \/ Save(a) \/ WriteBundle(a) \/ Die(a)
        PROVE  AloneInv'
    BY <2>4, ReadCAAlone, EndsAlone, WriteKeyAlone, SaveAlone, WriteBundleAlone
  <2> QED
    BY <2>1, <2>2, <2>3, <2>4 DEF Next, Ops
<1> QED
  BY <1>1, <1>2, PTL DEF Spec

\* With one command at a time, dying or not, a revoked device stays revoked.
THEOREM RevocationsStand ==
    ASSUME Alone
    PROVE  Spec => []RevokedStaysRevoked
<1>1. AloneInv => RevokedStaysRevoked
  BY DEF AloneInv
<1> QED
  BY <1>1, AloneInvariance, PTL

\* With one command at a time, dying or not, a bundle handed out since the last
\* init holds the pinned certificate, and one from before it is pinned nowhere.
THEOREM BundlesArePinned ==
    ASSUME Alone
    PROVE  Spec => []BundleIsPinned
<1>1. AloneInv => BundleIsPinned
  BY DEF AloneInv
<1> QED
  BY <1>1, AloneInvariance, PTL

\* With one command at a time and none cut short, keys and certificates on disk
\* belong together whenever no command runs.
THEOREM IdentityMatches ==
    ASSUME Alone
    PROVE  Spec => []ServerIdentityMatches
<1>1. AloneInv => ServerIdentityMatches
  BY DEF AloneInv, Identity, Matches, ServerIdentityMatches
<1> QED
  BY <1>1, AloneInvariance, PTL
=============================================================================
