----------------------------- MODULE ConfigStore -----------------------------
(***************************************************************************)
(* The configuration directory: config.json and the key and certificate    *)
(* files, written by the pair.py commands (init, add-device,               *)
(* revoke-device, renew-server) and re-read by the running listener        *)
(* (common.py, class Config).  Every file is replaced atomically           *)
(* (write_private); a command that writes several takes one step for each  *)
(* and may die in between; the listener's reload takes one step per system *)
(* call.  Keys are known by the number of the command that made them, a    *)
(* certificate by its own key and the CA key it is signed with.            *)
(***************************************************************************)
EXTENDS Integers, Sequences

CONSTANTS
    Devices,
    Admins,       \* pair.py processes that may run at the same time
    Crashes,      \* TRUE: a command may die between two writes
    MaxCommands   \* bound on the commands run

ASSUME ConfigAssumption == MaxCommands \in Nat

VARIABLES
    conf,      \* config.json: [devs, signer]
    mtime,     \* its modification time
    keys,      \* the other files: caKey, caCert, srvKey, srvCert, sigKey
    bundles,   \* certificate in the .p12 bundle written for each device
    admin,     \* the command each pair.py process is running
    commands,  \* commands started; numbers what they make
    data,      \* the listener's Config.data
    seen,      \* the listener's Config._mtime
    reload,    \* where reload_if_changed() is: "idle", "read" or "stat"
    revoked,   \* history: devices whose revoke-device has finished
    stamped,   \* history: config.json was replaced between read and stat
    cut        \* history: some command died

files == <<conf, mtime, keys, bundles>>
listener == <<data, seen, reload, stamped>>
vars == <<files, admin, commands, listener, revoked, cut>>

\* _build_cert(): a certificate for a key, signed with a CA key.
BuildCert(key, issuer) == [key |-> key, ca |-> issuer]

NoCert == BuildCert(0, 0)

\* A device entry: state and pinned certificate.
NoDevice == [state |-> "none", cert |-> NoCert]
NoDevices == [d \in Devices |-> NoDevice]

Idle == [op |-> "idle", dev |-> "none", todo |-> <<>>, id |-> 0,
         copy |-> [devs |-> NoDevices, signer |-> 0], ca |-> 0]

\* The steps of each command after it has loaded config.json.
Plan(op) ==
    CASE op = "init"   -> <<"caKey", "caCert", "srvKey", "srvCert", "sigKey", "config">>
      [] op = "add"    -> <<"sign", "config", "bundle">>
      [] op = "revoke" -> <<"config">>
      [] op = "renew"  -> <<"sign", "srvKey", "srvCert", "config">>

\* The directory after a first init, with the listener started on it.
Init ==
    /\ conf = [devs |-> NoDevices, signer |-> 0]
    /\ mtime = 0
    /\ keys = [caKey |-> 0, caCert |-> BuildCert(0, 0), srvKey |-> 0,
               srvCert |-> BuildCert(0, 0), sigKey |-> 0]
    /\ bundles = [d \in Devices |-> NoCert]
    /\ admin = [a \in Admins |-> Idle]
    /\ commands = 0
    /\ data = conf /\ seen = 0 /\ reload = "idle"
    /\ revoked = {} /\ stamped = FALSE /\ cut = FALSE

----------------------------------------------------------------------------
(* pair.py *)

\* The checks a command makes on the configuration it has loaded.
Accepts(op, d, c) ==
    CASE op = "add"    -> c.devs[d].state = "none"
      [] op = "revoke" -> c.devs[d].state # "none"
      [] OTHER         -> TRUE

\* A command starts: init --force makes a new CA, the others load config.json.
Begin(a, op, d) ==
    /\ commands < MaxCommands
    /\ admin[a] = Idle
    /\ Accepts(op, d, conf)
    /\ commands' = commands + 1
    /\ admin' = [admin EXCEPT ![a] =
         [op |-> op, dev |-> d, todo |-> Plan(op), id |-> commands + 1,
          copy |-> conf, ca |-> commands + 1]]
    /\ UNCHANGED <<files, listener, revoked, cut>>

\* A command is refused: "already exists", "no such device".
Refuse(a, op, d) ==
    /\ commands < MaxCommands
    /\ admin[a] = Idle
    /\ ~Accepts(op, d, conf)
    /\ commands' = commands + 1
    /\ UNCHANGED <<files, admin, listener, revoked, cut>>

\* Faulty variant of Edited: adding a device drops the entries it has no
\* certificate for.
EditedDropping(m) ==
    [devs |-> [NoDevices EXCEPT ![m.dev] = [state |-> "on", cert |-> BuildCert(m.id, m.ca)]],
     signer |-> m.copy.signer]

\* Faulty variant of Edited: the certificate pinned is not the one issued.
EditedMispinned(m) ==
    [m.copy EXCEPT !.devs[m.dev] = [state |-> "on", cert |-> BuildCert(m.id + 1, m.ca)]]

\* The configuration a command saves, from the copy it loaded.
Edited(m) ==
    CASE m.op = "init"   -> [devs |-> NoDevices, signer |-> m.id]
      [] m.op = "add"    -> [m.copy EXCEPT !.devs[m.dev] =
                               [state |-> "on", cert |-> BuildCert(m.id, m.ca)]]
      [] m.op = "revoke" -> [m.copy EXCEPT !.devs[m.dev].state = "off"]
      [] m.op = "renew"  -> m.copy

Doing(a, step) == admin[a].todo # <<>> /\ Head(admin[a].todo) = step

\* The command goes on to its next step, or ends.
Advance(a) ==
    LET rest == Tail(admin[a].todo)
    IN admin' = [admin EXCEPT ![a] = IF rest = <<>> THEN Idle ELSE [@ EXCEPT !.todo = rest]]

\* add_device and renew_server read the CA they will sign with.
ReadCA(a) ==
    /\ Doing(a, "sign")
    /\ admin' = [admin EXCEPT ![a].ca = keys.caKey, ![a].todo = Tail(@)]
    /\ UNCHANGED <<files, commands, listener, revoked, cut>>

\* _load_key() fails, the passphrase being another one: nothing was written yet.
CannotSign(a) ==
    /\ Doing(a, "sign")
    /\ admin' = [admin EXCEPT ![a] = Idle]
    /\ UNCHANGED <<files, commands, listener, revoked, cut>>

\* Faulty variant of Written: the server certificate is signed by the CA of the
\* first init.
WrittenByFirst(m, f) == IF f \in {"caCert", "srvCert"} THEN BuildCert(m.id, 0) ELSE m.id

\* What init and _issue_server() write to the file f.  The CA signs itself.
Written(m, f) == IF f \in {"caCert", "srvCert"} THEN BuildCert(m.id, m.ca) ELSE m.id

\* init and _issue_server write a key or certificate file.
WriteKey(a) ==
    /\ \E f \in {"caKey", "caCert", "srvKey", "srvCert", "sigKey"} :
         /\ Doing(a, f)
         /\ keys' = [keys EXCEPT ![f] = Written(admin[a], f)]
    /\ Advance(a)
    /\ UNCHANGED <<conf, mtime, bundles, commands, listener, revoked, cut>>

\* cfg.save(), or the write of the new config.json by init, which pins no device.
\* No command touches the bundles handed out before.
Save(a) ==
    LET m == admin[a]
    IN /\ Doing(a, "config")
       /\ conf' = Edited(m)
       /\ mtime' = mtime + 1
       /\ revoked' = CASE m.op = "init"   -> {}
                       [] m.op = "revoke" -> revoked \cup {m.dev}
                       [] OTHER           -> revoked
       /\ stamped' = (stamped \/ reload = "stat")
       /\ Advance(a)
       /\ UNCHANGED <<keys, bundles, commands, data, seen, reload, cut>>

\* main() writes the bundle after add_device() has returned.
WriteBundle(a) ==
    /\ Doing(a, "bundle")
    /\ bundles' = [bundles EXCEPT ![admin[a].dev] = BuildCert(admin[a].id, admin[a].ca)]
    /\ Advance(a)
    /\ UNCHANGED <<conf, mtime, keys, commands, listener, revoked, cut>>

\* The process is interrupted between two writes.
Die(a) ==
    /\ Crashes
    /\ admin[a] # Idle
    /\ admin' = [admin EXCEPT ![a] = Idle]
    /\ cut' = TRUE
    /\ UNCHANGED <<files, commands, listener, revoked>>

----------------------------------------------------------------------------
(* The listener's Config.reload_if_changed(), called for every connection *)

\* stat(): something has changed since the last reload.
Stat ==
    /\ reload = "idle"
    /\ mtime # seen
    /\ reload' = "read"
    /\ UNCHANGED <<files, admin, commands, data, seen, stamped, revoked, cut>>

\* Faulty variant of Loaded: entries already loaded are kept.
LoadedOver == [conf EXCEPT !.devs = [d \in Devices |->
                 IF data.devs[d] = NoDevice THEN conf.devs[d] ELSE data.devs[d]]]

\* DEFAULTS updated with what the file says
Loaded == conf

\* read_text() and json.loads()
Read ==
    /\ reload = "read"
    /\ data' = Loaded
    /\ reload' = "stat"
    /\ stamped' = FALSE
    /\ UNCHANGED <<files, admin, commands, seen, revoked, cut>>

\* stat() again, for the time to compare with next time
Stamp ==
    /\ reload = "stat"
    /\ seen' = mtime
    /\ reload' = "idle"
    /\ UNCHANGED <<files, admin, commands, data, stamped, revoked, cut>>

\* The bound on commands is reached and everybody is done.
Stop ==
    /\ commands = MaxCommands
    /\ \A a \in Admins : admin[a] = Idle
    /\ UNCHANGED vars

Next ==
    \/ Stat \/ Read \/ Stamp \/ Stop
    \/ \E a \in Admins :
         \/ \E op \in {"init", "add", "revoke", "renew"}, d \in Devices :
              Begin(a, op, d) \/ Refuse(a, op, d)
         \/ ReadCA(a) \/ CannotSign(a) \/ WriteKey(a) \/ Save(a) \/ WriteBundle(a) \/ Die(a)

Spec == Init /\ [][Next]_vars

----------------------------------------------------------------------------
Certs == [key: 0 .. commands, ca: 0 .. commands]

\* Type correctness; no pinned or bundled certificate is newer than the latest
\* command, and the listener has seen no modification time still to come.
TypeOK ==
    /\ {conf.devs, data.devs} \subseteq
         [Devices -> [state: {"none", "on", "off"}, cert: Certs]]
    /\ mtime \in Nat /\ seen \in 0 .. mtime
    /\ reload \in {"idle", "read", "stat"}
    /\ bundles \in [Devices -> Certs]
    /\ revoked \subseteq Devices

\* A device once revoked is never enabled in config.json again (until init
\* --force starts over), although each command saves a whole configuration
\* it loaded earlier.
RevokedStaysRevoked == \A d \in revoked : conf.devs[d].state = "off"

\* A bundle handed out for a device since the last init holds the certificate
\* config.json pins for it; one from before, which nothing deletes, is pinned for
\* no device any more ("this revokes everything"), also when the device has been
\* added again.  Both whether or not commands died on the way.
BundleIsPinned ==
    \A d \in Devices :
        /\ bundles[d].key > conf.signer => conf.devs[d].cert = bundles[d]
        /\ bundles[d].key < conf.signer =>
              \A e \in Devices :
                  conf.devs[e].state # "none" => conf.devs[e].cert # bundles[d]

\* Between commands, every key on disk belongs to its certificate, and the
\* certificates of the server and of every enabled device are signed by the CA
\* that phones and listener verify them with, unless some command died between
\* its writes.
ServerIdentityMatches ==
    ~cut /\ (\A a \in Admins : admin[a] = Idle) =>
        /\ keys.caCert = BuildCert(keys.caKey, keys.caKey)
        /\ keys.srvCert = BuildCert(keys.srvKey, keys.caKey)
        /\ keys.sigKey = conf.signer
        /\ \A d \in Devices : conf.devs[d].state = "on" => conf.devs[d].cert.ca = keys.caKey

\* A reload that no save overlapped leaves the listener with the configuration
\* on disk, in particular with every finished revocation.
ReloadCatchesUp ==
    reload = "idle" /\ seen = mtime /\ ~stamped => data = conf

\* "Lets `pair.py revoke-device` take effect without a restart": when the
\* listener sees no reason to reload, its configuration is the one on disk.
ReloadIsCurrent == reload = "idle" /\ seen = mtime => data = conf
=============================================================================
