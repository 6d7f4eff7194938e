# Remote-Unlock: a TLA+ model of the listener, its login hooks and its files

Remote-Unlock lets a phone unlock a laptop. A *listener* on the laptop gives the
phone a challenge, checks the signed answer, and hands the login screen a
one-shot permission. On Linux the login screen is PAM (`pam_unlock_helper.py`
asks the listener over a Unix socket); on Windows it is a Credential Provider
tile that reads a password from a named pipe. This directory models the parts
that keep state, checks them with TLC and proves their safety with TLAPS.

## 1. Inventory

| Part | State | Operations | Talks to | Hard behaviour | What makes it correct |
|---|---|---|---|---|---|
| `Backoff` (listener.py 50-87) | failures, level, lockout end and last activity of every key | `fail`, `success`, `remaining`, `_prune` | the service's two tables | pruning in the middle of other keys' histories; two clocks per entry | pruning is invisible; guesses are paid for by lockouts; a lockout stands |
| `GrantBroker`, `handle_pam` (listener.py 90-119, 285-312) | expiry of the one grant, an event shared by all requests | `issue`, `consume`, `handle_pam` | WebSocket sessions issue, PAM helpers consume | several sleepers on one event, a late event loop, a failing log, crashes | a grant lets in at most one login, freshly, and recorded; nobody sleeps beside a live grant |
| `pam_unlock_helper.py` | a socket and a timeout | peer check, request, reply | `handle_pam` | gives up while the listener still works on its request | no request outlives its helper |
| `UnlockService` (listener.py 122-282) | active handlers, pending challenges, two backoff tables, last lockout record | `handle`, `_session`, `_fail`, `_locked`, `issue_challenge`, `check_response` | phone, broker, log, configuration | every `await` lets other sessions run; timeouts; records that fail half-way | caps hold; a grant needs a fresh challenge of this device and its signature; a revocation the listener has seen binds later connections; handlers end |
| `AuditLog` (audit.py) | lines of the file; number and head of the chain in memory | `append`, `verify_file`, restart | every other part writes records | failing, short and unsynced writes, crashes, edits of the file | honest logs verify, edits show, records are not lost silently |
| `Config`, `pair.py` | config.json, key and certificate files; the listener's copy and the time it saw | `init`, `add-device`, `revoke-device`, `renew-server`, `reload_if_changed` | the listener | multi-file commands that die half-way; read and stat in two calls | revoked stays revoked; the last bundle of the present CA is what is pinned, older ones are not; reloads catch up |
| Windows listener (`listener_windows.py`) | pending and used nonces, failure times | `issue_challenge`, `verify`, `handler`, `signal_credential_provider` | phone app, pipe | concurrent sessions, blocking calls in the loop | approvals are fresh, signed for that action and single; failures are rate-limited |
| Credential tile (`RemoteUnlockCredential.cpp`) | `_waiting`, `_phoneApproved`, `_relayedPassword`, worker thread, pipe | `SetSelected`, worker, `GetSerialization`, destructor | LogonUI, pipe, which other local processes may open too | two threads and three flags without a common lock | no approval survives into another wait; a password is submitted once |
| Phone app (`network.js`) | one promise and one timer per command | `runCommand` | either listener | late fingerprints, late results | see Windows listener |
| `Runtime`, `start`, `main` (listener.py 315-413) | whether `pam.sock` and the port are served, the run | start, stop, `close` | systemd, other copies of itself | the PAM socket is served before the port is bound and after it is closed; starts and stops that fail half-way; a socket path several copies share | whatever ends or starts, a consent opens one login, in the run that granted it |
| `Notifier` (notify.py) | alerts on their way | `send` | `record`, the owner's phone | tasks nobody awaits: late, reordered, lost at a stop | every alert that does arrive pins the log |
| systemd unit, PAM scripts, installers, `pair_windows.py`, screens | - | - | - | - | not modelled, see section 8 |

`PROJECT.json` lists every part under `components`, and under `hazards` the
places in the code that are hard to test, each with the properties that cover it.

## 2. Modules

| Module | Models | Notes |
|---|---|---|
| `BackoffTable` | class `Backoff` as operators on a table | no variables, so both tables of the service use it |
| `Backoff` | one table under `fail` and `success` at any times, beside an unpruned twin and a history | |
| `OneShotGrant` | abstract: what a grant promises (issue, use once, expire, lose) | refined by `GrantBroker` |
| `GrantBroker` | `GrantBroker`, `handle_pam`, the helper processes | one step from await to await |
| `Authorisation` | abstract: what the WebSocket side promises (challenge, consent, one unlock on the strength of it) | refined by `UnlockService`, used by `RemoteUnlock` |
| `Runtime` | life of the listener process: `start`, `main`, `close`, failures and deaths in between, another copy on the same socket | one state per await |
| `RemoteUnlock` | the Linux system from consent to login: `Authorisation`, `GrantBroker` and `Runtime` composed | the session's step that authorises is the one that issues the grant; the end of the process takes tasks and grant with it |
| `AuditLog` | audit.py, the alerts `record` starts, and everything that can happen to the file | the hash is ideal: the pair of what it covers |
| `ConfigStore` | configuration directory, `pair.py` commands, reload | one step per file written and per system call of the reload; nothing deletes a bundle, `init --force` included |
| `UnlockService` | the Linux WebSocket sessions | extends `BackoffTable`; a reload may miss what `pair.py` revokes while it runs (`missed`) |
| `WindowsListener` | the Windows handler and service, with the phone's `runCommand` | |
| `CredentialTile` | LogonUI's thread and the worker thread | cut at every shared access |
| `WindowsLogon` | composes `WindowsListener` and `CredentialTile`, which share the pipe | other processes write it too unless `LockedDown` |
| `MCRemoteUnlock`, `MCUnlockService`, `MCWindowsLogon` | symmetry sets for TLC | |
| `BackoffTableProofs` | lemmas about one failure table | used for `Backoff` and for both tables of `UnlockService` |
| `BackoffProofs`, `GrantBrokerProofs`, `AuditLogProofs`, `ConfigStoreProofs`, `UnlockServiceProofs`, `WindowsLogonProofs` | theorems about the module they are named after | |
| `RemoteUnlockProofs` | theorems about the composed Linux system | extends `GrantBrokerProofs` |

State and actions carry the names of the code where TLA+ allows it; `map` in
`PROJECT.json` gives the lines each definition stands for. Definitions commented
"Faulty variant of X" are never used by a specification: they are the mutations
each property is tried against.

Modelling conventions:

* asyncio: a handler runs from one `await` to the next in one step. Everything
  between two awaits, records included, belongs to that step.
* A connection issues at most one challenge, so its name is also its nonce. A
  response may carry any connection's nonce. A signature is a member of the set
  of messages the phone has signed.
* Time is a natural number. In `UnlockService` an expired `wait_for` is handled
  before the clock moves on; `GrantBroker` lets the loop be up to `Lag` ticks
  late, or by any amount when the fault "stall" is allowed (`record` waits for
  `fsync` in the loop); `WindowsListener` lets it be late by any amount, because that handler
  makes blocking calls.
* JavaScript and Python write a whole number of seconds differently, so `Sign`
  in `WindowsListener` may produce a response whose signature does not verify.
* `ConnectNamedPipe` is called on a pipe that was not opened for overlapped
  operation: the call itself waits for a client, and a client that came earlier
  leaves the event unset. `ConnectPipe` models that documented behaviour.

## 3. Runs

| Run | Bounds | Checks |
|---|---|---|
| `backoff` | 2 keys, threshold 2, lockouts of 2 and 4, quiet period 2, table limit 1, 9 ticks | `TypeOK`, `PruneInvisible`, `GuessesArePaidFor`, `LockoutStands` |
| `broker` | 2 helpers, 2 grants, loop lag 1, killed helpers | `TypeOK`, `HelperOutlivesRequest`, `TakenIsDelivered`, `RequestsEnd` |
| `broker_faults` | the composed `RemoteUnlock`: 2 helpers, 2 challenges of one device, 2 runs of the listener, failing log, crashes, failed starts and stops, a stolen socket, loop lag 1, clock until a consent is too old to use | `LoginIsConsented`, `ConsentIsFresh`, `NoLostWakeup`, `ExitZeroIsAccounted`, `OneShot` (refinement), `GrantIsFresh` |
| `audit` | 3 lines, 2 events of which one raises an alert, 5 different histories over all runs of the listener, any two failing or short writes or edits, crashes, stops and restarts at any time, alerts late, reordered or lost | `TypeOK`, `HonestLogVerifies`, `LocalEditsShow`, `AnchorPinsLog`, `AppendedIsKept`, `BreakIsPermanent` |
| `config` | 2 devices, 4 commands that may die, one at a time | `TypeOK`, `RevokedStaysRevoked`, `BundleIsPinned`, `ServerIdentityMatches`, `ReloadCatchesUp` |
| `service` | 2 connections, 2 devices, certificates optional, revocation at any point of a reload, failing log, restarts of the listener | `TypeOK`, `ResourcesBounded`, `OneGrantPerChallenge`, `GrantIsWarranted`, `RevocationBindsNewSessions`, `LockoutIsReported`, `Authorises` (refinement) |
| `service_limits` | 3 connections, 2 slots, 1 pending challenge, certificates required | `ResourcesBounded`, `ConnectionsEnd` |
| `windows` | 2 connections, phone or other, both commands, skewed clock, both threads of the tile, new tiles, restarts of the listener, a pipe that is not locked down and another process that writes it, until more than one connection was made (`IntrudedSessions`) | `TypeOK`, `ApprovalIsWarranted`, `FailuresAreLimited`, `EffectsAreWarranted`, `TileIsCurrent`, `SelectReturns` |

Why the bounds are enough: two keys are the fewest for which one is pruned while
the other fails, and nine ticks hold two lockouts and a quiet period. Two
helpers race for a grant, two consents give each its own, and two runs let the
first end with requests and a grant in flight; the clock runs until both
lifetimes have passed since the first challenge, so a consent can be too old to
use. Stalls and killed helpers are left out there: `broker` kills helpers, and
the theorems about `GrantBroker` and `RemoteUnlock` cover both, and any numbers
of helpers, consents and runs. `broker` uses `SoundSpec`, the behaviours of the
broker's `Spec` in which neither listener nor log fails: its properties are
about timing and delivery, and the failures are in `broker_faults`. Three
connections overfill two slots, and two overfill one pending challenge. Three
lines have a first, a middle and a last one, and two changes include an edit
followed by another that might hide it. What the log said is kept in a history
that no restart resets, so an edit made while the listener is down is compared
with what it wrote before; `MaxRecords` bounds that history, restarts being
unbounded. Four commands are an add, a revoke and two that rewrite the
configuration afterwards. In the service and Windows runs every timeout, every
lifetime and the skew limit can be met, missed by one, and raced. A restart
takes the sessions with it, so the number of restarts needs no bound there. Two
Windows connections are enough for one to present the other's nonce and, with a
limit of one failure, to be rate-limited. `IntrudedSessions` keeps the work of
another process apart from the second connection only: it may come before,
during and after the whole course of the first, and the theorem has no such
bound. `windows` switches deadlock checking off because the system may really
stop there: peers go away and a worker may wait for a client that never comes.

Runs that find a disagreement between the code and what the repository says:

| Run | Property | What TLC shows |
|---|---|---|
| `audit_mishap` | `UneditedLogVerifies` | one refused write leaves a gap in the numbering and an unedited log is reported as tampered |
| `config_reload` | `ReloadIsCurrent` | a save between the read and the stat of `reload()` is missed until the next save |
| `service_locked` | `NothingWhileLocked` | a session past the lockout check unlocks during a lockout and lifts it |
| `service_audit` | `GrantIsAudited` | the grant is issued before its record; with an unwritable log it stays claimable and unrecorded |

Other disagreements met while modelling, which no run carries:

* `Backoff.fail` forgets the level when the quiet period has passed. With
  `max_seconds` = `quiet_reset` = 3600 a key that sits out the longest lockout
  starts over with the shortest (listener.py:66; "exponentially growing
  lockouts", listener.py:51).
* `verify_file` counts an entry before checking it, so after a bad entry the
  restarted log continues from a number that counts the bad one (audit.py:55;
  "from the last good point", audit.py:75).
* An anchor is compared with the current head, so an intact log fails against
  the latest alert once a record without an alert follows it (audit.py:63).
* Two `pair.py` commands at the same time: the later save brings a revoked device
  back (pair.py:187). Setting `Admins = {a1, a2}` in `ConfigStore.cfg` shows it.
* `add-device` refuses a revoked id with "revoke it first to re-issue"
  (pair.py:151-152).
* A session that identified its device before the revocation still unlocks
  ("Revocation is instant", Readme(V2).md:32).
* The pipe has a default security descriptor, and the comment above the worker and
  the hardening notes say that it should not (RemoteUnlockCredential.cpp:134-140;
  README-Windows.md:122-127). The comments at RemoteUnlockCredential.cpp:128-132 and
  187-188 nevertheless take the listener for the only writer. `OtherProcess` models
  what the code admits, and `EffectsAreWarranted` says what is left of the
  listener's promise: setting `LockedDown = TRUE` gives the whole of it back.
* The tile's timeout does not bound `ConnectNamedPipe` ("waits up to
  REMOTEUNLOCK_WAIT_TIMEOUT_MS", RemoteUnlockCredential.cpp:122), and the
  destructor joins that thread.
* A second copy started by hand unlinks the running listener's `pam.sock`
  (listener.py:370), serves PAM until its own bind of the port fails, and leaves
  the running one unreachable for logins. `close()` of an old copy may unlink the
  socket of a newer one (listener.py:325). Until it fails, the second copy appends
  to the same audit log from its own head, which forks the chain.
* A response that is in flight when the service stops can still be authorised,
  and its login let in, after `service_stop` is recorded (listener.py:407).
* Lockouts live in memory: a restart forgets them (listener.py:128;
  `Restart=on-failure` in the unit).
* `listener_windows.send_alert` calls `notify.send_alert`, which notify.py does
  not define; the exception is swallowed and Windows sends no alerts
  (listener_windows.py:205).
* A wrong passphrase raises `InvalidToken` at the first decryption, outside the
  `try`, so "Wrong passphrase." is never printed (listener_windows.py:300-304).
* README.md:508 says old keys "simply stop being accepted once the config that
  referenced them is gone"; the Windows listener reads its configuration only at
  start (listener_windows.py:295).
* A phone signature made on a whole second does not verify in Python ("verify
  correctly in Python", crypto.js:6).

## 4. Fairness

Only liveness properties use it. `broker`: time passes, the event loop runs a
task that is ready or whose timer expired, and a helper that has a reply or whose
socket timed out goes on. `service_limits`: time passes, expired `wait_for` calls
are handled, and the sends and closes at the end of a handler complete (they are
single small frames, and `close()` has its own timeout). That is what asyncio and
the kernel provide. Nothing is assumed of peers, phones, users or the disk:
nobody has to connect, answer, unlock or repair the log.

## 5. Proofs

Every safety invariant, every action property and both refinements that a passing
run checks are also theorems. They hold for every value of the constants that
satisfies the named assumptions: any number of keys, helpers, devices,
connections, commands, lines, restarts and clock ticks. The bounds of the runs
(`MaxTime`, `MaxLines` and so on) are constants too, so the theorems hold for
each of them.

* **`BackoffTableProofs`, `BackoffProofs`** (from `BackoffAssumption`):
  `TypeCorrect`, `PruningIsInvisible`, `EveryGuessIsPaidFor`, `LockoutsStand`.
  `IndInv` is `TypeOK /\ Match /\ Ledger`: `Match` relates the pruned table to its
  unpruned twin (an entry is in both and agrees, or is missing and the twin's is
  quiet, which time cannot undo), and `Ledger` balances guesses and lockouts of
  every key with its entry. The key lemmas say that a quiet entry and a missing one
  are touched alike, and that one `fail()` keeps the balance.
* **`GrantBrokerProofs`** (from `BrokerAssumption`, and `MarginAssumption`:
  2 * Lag < Margin, twice the loop's lateness stays below the helper's three extra
  seconds; with a stalling loop `HelpersOutliveRequests` and `GrantsAreDelivered`
  claim nothing, the others hold all the same): `TypeCorrect`, `WakeupsAreNotLost`,
  `LoginsAreAccounted`, `HelpersOutliveRequests`, `GrantsAreDelivered`,
  `GrantsAreSingleUse`, `GrantsAreFresh` and `Refinement` (`Spec => OneShot`).
  `IndInv` adds to the types which stages of task and helper go together (`Stages`),
  that consumed grants have distinct earlier numbers (`Numbering`), that a reply in
  flight is backed by a consumed and recorded grant (`Backing`), and where deadlines
  lie with respect to each other (`Punctual`, `Delivery`). It holds for crashes and
  requests cut off at any step, and for helpers that find no listener.
* **`RemoteUnlockProofs`** (from `SystemAssumption` and the broker's):
  `LoginsAreConsented`, `ConsentsAreFresh`, `SystemRefinement`, and the broker's
  promises in the system (`SystemWakeups`, `SystemLogins`, `SystemGrantsAreFresh`).
  Every step of the system is a step of the broker or the end of the process
  (`SystemSteps`), so the broker's lemmas carry over. `SystemInv` adds that grants
  and spent challenges correspond one to one and each grant came in time
  (`Giving`), and that a grant in memory belongs to the run that holds it (`Held`),
  which is what a restart or a second copy could break.
* **`UnlockServiceProofs`** (from `ServiceAssumption` and `BackoffAssumption`):
  `TypeCorrect`, `NoSlotIsLost`, `ChallengesAreSingleUse`, `GrantsAreWarranted`,
  `RevocationBinds`, `LockoutsAreReported`, and `ServiceAuthorises`
  (`Spec => Authorises`: each step of a session maps to a challenge, a consent, an
  unlock or a stutter of `Authorisation`). `IInv` counts the running handlers as a
  set (`Busy`) because the code's counter says nothing about who holds a slot; and
  it says that what is pending is what was issued (`Challenges`), that a nonce
  granted is spent and its session over (`Spent`), and that the listener's copy holds
  no revoked device but those its last reload missed, so that a waiting session can
  only identify one that was enabled or missed when it was accepted (`Vetted`).
  `LockoutIsReported` is inductive with these.
* **`ConfigStoreProofs`** (from `ConfigAssumption`): `TypeCorrect` and
  `ReloadsCatchUp` for any number of `pair.py` processes at the same time. A running
  command is somewhere in its plan, and a reload that saw no save in between holds
  what is on disk. `RevocationsStand`, `BundlesArePinned` and `IdentityMatches` have
  the hypothesis `Alone`: there is one process at a time, which may die at any step
  and be followed by another. It is needed. `pair.py` takes no lock (pair.py:187),
  and with two processes the later save brings a revoked device back, see section 3.
  Bundles are never deleted, so `Dated` compares the numbers of the commands that
  made them: what is pinned is younger than the present CA, and a device that is not
  in the configuration has no bundle of that CA.
* **`AuditLogProofs`** (from `AuditAssumption`; the hash is ideal):
  `HonestLogsVerify`, `TypeCorrect`, `BreaksArePermanent`, `RecordsAreKept`,
  `EditsShow`, `AnchorsPin`. `IndInv` says that in an untouched log every line
  carries its own number and the hash of the line before, and that a running
  listener's head is the last of them. `LogInv` holds under edits and failures too:
  the chain in memory is linked and ends in `head`; every alert stands for some
  chain (`Sourced`); without failures and recomputed chains each line of the file is
  one that was written, but for its event (`FromLines`); without edits a file that
  verifies holds what was written and at most one line more (`Holds`). That line is
  the one a failed `fsync` leaves, and no further record can make it verify again.
  (Such a record breaks the chain of hashes; one that `os.open` refused leaves a gap in
  the numbers.) `VouchInv` says that every chain a line of the file can end was said by
  the log after some record, in this run or an earlier one, which is what `EditsShow`
  compares an edited file with.
  `SameChain`, that equal heads mean equal histories, is an induction along the two
  chains; it is done by the least number of steps back at which they differ
  (`LeastNatural`).
* **`WindowsLogonProofs`** (from `WindowsAssumption` and `LogonAssumption`): `TypeCorrect`,
  `ApprovalsAreWarranted`, `FailuresStayLimited`, `EffectsStayWarranted`,
  `TileStaysCurrent`, `SelectDoesNotBlock`. `IInv` is `Listening /\ Traced /\
  Threads`. `Limited` says what the deque has lost of the failures so far: only such
  as are older than the window. `Outcomes` and `Traced` follow an approval to the
  handler's answer, the pipe and the tile, where only what `Strange` admits may come from
  elsewhere (`IntrusionPreserves`), and `Threads` says which flags of the
  tile can be set at each point of the worker.

Only model-checked: the liveness properties `RequestsEnd` and `ConnectionsEnd`,
because fairness is beyond the prover, and the runs that expect a violation.
What the theorems rest on besides the assumptions is the model: ideal signatures
and hashes, clocks that do not go back, and the steps of section 2.

## 6. Reading the properties

`OneShot` is the abstract promise of the broker and `Authorises` that of the
WebSocket sessions; `RemoteUnlock` puts the two promises together with the life
of the process, and `LoginIsConsented` and `ConsentIsFresh` are what a user
expects of the whole: each login goes back to a consent of its own, given to a
challenge less than `challenge_ttl + grant_ttl` seconds old, in the run that
granted it. `GrantIsWarranted` and `ApprovalIsWarranted` are the two listeners'
central safety properties: what every unlock needs, over all interleavings of
sessions. `PruneInvisible` and `GuessesArePaidFor` say what the lockouts are
worth. `AnchorPinsLog` says what an alert kept on the phone proves about the
log, in whatever order alerts arrive, and `BreakIsPermanent` that the listener
never makes a damaged log look whole again. `LocalEditsShow` is weaker than its
name may suggest, as the code is: a file that was cut off and verifies says what
the log said once, and only an alert (`AnchorPinsLog`) or the listener's own
running memory tells that it is not the present. `EffectsAreWarranted` follows a
password from the phone's signature to LogonUI, or to the other process that
wrote it. `TileIsCurrent` is the order of three flags that two threads rely on,
and `SelectReturns` is what LogonUI gets from it: selecting the tile never waits
for the phone. Its destructor may.

## 7. Plan

The components whose logic is in the repository are modelled, and the safety
properties of the runs are proved. What is left:

1. Consequences of the abstract specifications for their own sake: that
   `Authorisation` alone bounds the unlocks by the consents, and `OneShotGrant` the
   logins by the issues, so that a change to either shows what it gives up.
2. `ConfigStoreProofs` without `Alone`: which weaker promise survives two commands
   at the same time.
3. The prefixes of the liveness arguments that need no fairness: that each timeout
   of a handler is set before it waits, as an invariant.

## 8. Not modelled

* Encodings, framing and key derivation: signatures, hashes and certificates are
  ideal, and a message is the fields the code compares.
* The systemd unit, installers, COM class factory and `DllMain`: settings and
  registrations without logic of their own. What the unit does to the listener,
  starting it again, is in the models.
* The PAM configuration scripts: `sed` edits of system files whose contents are not
  in the repository.
* `pair_windows.py`: one sequential, interactive script that writes the key, the
  certificate and then pairing.json. Nobody else writes them, and a listener that
  runs meanwhile goes on with what it loaded at its start; a script that dies in
  between leaves a certificate the phone has not pinned and has to be run again.
* The app's screens, and what the tile displays apart from what its status line tells
  (including the race between a worker
  that shows a text and `UnAdvise`, RemoteUnlockCredential.cpp:115).
* A process that opens the pipe and writes nothing: it holds the worker in `ReadFile`,
  which in the model is a worker that takes no step. Which accounts may open a pipe
  with the default descriptor is Windows' affair; the model admits all or none.
* Passwords as such: `Foreign` is any password that the listener did not send, and
  whether Windows accepts a submitted one is not modelled. It may report a rejection
  at any time (`ReportResult`).
* Sessions accepted before a revocation: `device` is captured at listener.py:256 and
  used after two awaits. The model has this behaviour and no property forbids it.
* The `except` branch of `reload_if_changed` (common.py:198): config.json is replaced
  as a whole, so a read finds one valid configuration or the other.
* Liveness on the Windows side: the pipe's `ConnectNamedPipe` waits for a client
  without a timeout, so no end of a wait can be promised without assuming that a
  phone answers.
* Clocks only move forward: steps of the wall clock, which `listener_windows.py` uses,
  are outside the model. Modification times of config.json differ from save to save.
