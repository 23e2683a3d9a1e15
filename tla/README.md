# A formal model of the Sylva SDK

The Sylva SDK is the Rust core of the Sylva clients: it finds a server and
decides whether to trust it, creates or unlocks an account with two-secret key
derivation, keeps the device's secrets in the OS keychain, and gives the shell
one stateful handle for all of that. This directory holds a TLA+ model of it,
the TLC configurations that check it on small instances, and proofs that TLAPS
checks for every instance. Paths below are relative to the repository (`src/`
is the repository root, so the Rust code is under `src/src/`).

## The system

| Part | Code | State it keeps | Operations |
|---|---|---|---|
| Client facade | `src/src/client.rs` | `Inner` behind one async mutex: channel, verified server, session, unlocked identity, Secret Key | connect, create_owner, sign_in, enroll_this_device, list/revoke devices, profile calls, change_password, get/set_avatar, sign_out, forget_server, restore |
| Secret storage | `src/src/storage.rs` | five keychain entries: master key, Secret Key, device secret, session token, server profile (the pin and the user id) | set, get and delete of one entry; `clear`, `clear_session` |
| Enrollment flows | `src/src/flows.rs` | none | enroll_new_owner, login |
| Discovery and trust | `src/src/transport/discovery.rs`, `transport/mod.rs` | none | fetch and verify a signed response, `check_pin`, discover_and_connect |
| Account transport | `src/src/transport/client.rs` | a session: channel and token | endpoint failover, one stub per RPC |
| Crypto core | `src/src/crypto/mod.rs` | none | bootstrap, unlock and re-wrap of the key bundle, sealing |
| Secret Key codec | `src/src/crypto/secret_key.rs` | none | display and forgiving parse |
| FFI boundary | `src/src/ffi.rs` | runtime and client | the facade as blocking calls |
| Account service | `src/proto/account/v1/account.proto` (the server is elsewhere) | accounts, key bundles, devices, avatars | the RPCs |
| Stubs, tools, other protocols | `src/src/proto.rs`, `src/build.rs`, `src/src/bin/`, `src/proto/platform`, `src/proto/machine` | none | generated or build-time; not modelled |

How they interact. The shell calls the handle from several threads (`ffi.rs`
blocks each of them on a shared, multi-threaded runtime). A call reads the
vault, waits for the mutex, asks the server, writes the vault and updates
`Inner`, and it does not do these under one lock: `connect` and `restore` read
the vault and wait for the network before they take the mutex, the avatar calls
and `sign_in` read a key before it, and `sign_out` and `forget_server` clear the
vault before it. Calls that hold the mutex hold it across their RPCs. The vault
survives the process; `Inner` and the stacks of the calls do not.

What is hard about it, and what must hold:

* interleaving: two calls that both touch the vault, of which only one holds the
  mutex; the pin, the keys and the session must stay those of one server and
  one account;
* partial failure and crashes: five keychain writes after a server has already
  acted; the pin must survive, a restart must resume what was there, and a
  Secret Key must not be lost;
* stale values: a pin, a key or a token read before a wait and used after it;
* liveness: one mutex for everything and no timeouts;
* a server that acts before the client can keep the result: a device the server
  has enrolled when the keychain refuses its secret;
* answers out of place: a recorded or misdirected discovery response, an endpoint
  that comes up behind the one being tried;
* pure algorithms with narrow promises: canonical bytes, the codec, key wrapping,
  the sealed box.

`PROJECT.json` lists each hazard at its line with the properties that cover it.

## Modules

| Module | What it is |
|---|---|
| `Optional` | Rust's `Option` |
| `Storage` | `storage.rs`: the variable `vault`, one write or delete at a time, the order of `clear` and `clear_session` |
| `Account` | the Account service, external: who is registered where, who can sign in, which key an avatar is sealed under |
| `Trust` | `check_pin`, for `Client` and `Discovery` |
| `Client` | `client.rs` with the parts of `flows.rs` and `transport/` it runs: EXTENDS `Storage`, `Account` and `Trust` |
| `ClientProperties` | what the client promises |
| `Tofu` | abstract specification: trust on first use |
| `MCClient` | two servers and three accounts for TLC, without the devices |
| `ClientProofs` | the theorems about any callers |
| `SerialProofs` | the theorems about a shell that makes one call at a time, among them that the client implements `Tofu` |
| `QuietProofs` | the theorems about such a shell while neither the keychain nor the process fails: memory and vault speak of one account |
| `Devices` | the client composed with the servers' device lists and with the key pairs it generates: every step is a step of `Client` and what it does to the devices |
| `MCDevices` | the same instance, with the devices |
| `DevicesProofs` | the theorems about `Devices` |
| `Canonical` | the signed bytes of a discovery response |
| `Failover` | `transport/client.rs`, `connect`: the endpoint list, entry by entry |
| `Discovery` | `fetch_and_verify` and `discover_and_connect` against servers that change and a network that repeats, delays and alters: EXTENDS `Canonical`, `Failover` and `Trust` |
| `MCDiscovery` | two servers, two nonces, two ports for TLC |
| `DiscoveryProofs` | the theorems about `Canonical`, `Failover` and `Discovery` |
| `Crypto` | `crypto/mod.rs`: key derivation, sealing, bootstrap, unlock and re-wrap as symbolic terms |
| `KeyRotation` | `change_password` and the two RPCs of `login`, several devices against the server's verifier and bundle: EXTENDS `Crypto` |
| `SealedBox` | `seal_to` and `open_sealed`, over `Crypto` |
| `Telemetry` | the device-admin group's grants and reports beside the password changes: EXTENDS `KeyRotation` and `SealedBox` |
| `MCKeyRotation` | the symmetry of `KeyRotation` for TLC |
| `RotationProofs` | the theorems about `KeyRotation` and `Telemetry` |
| `SecretKeyCodec` | `crypto/secret_key.rs`: the display of a key, and its parse symbol by symbol |
| `MCSecretKeyCodec` | the keys that TLC tries |
| `CodecProofs` | the theorems about `SecretKeyCodec` |

### How `Client` corresponds to the code

`call[c]` is what caller `c` is doing: the operation, the point it has reached
(`pc`) and the locals a later step reads. `inner` and `lock` are `Inner` and its
mutex, `vault` the keychain, `registered` and `avatar` the servers, `shown` the
accounts whose Secret Key their user has been given. `pc` moves at every vault
operation, at taking the mutex and at every network wait, and nowhere else:

| Operation | Steps |
|---|---|
| connect | ConnectReadPin, ConnectDiscover, ConnectInstall |
| create_owner | BeginLocked, Enter, BootstrapAccepted or BootstrapReplyLost, Persist (five times), Authenticated |
| sign_in | SignInResolve, Enter, Login, Persist (four times), Authenticated |
| enroll_this_device | BeginLocked, Enter, RegisterDevice, StoreDevice (with their effect on the devices in `Devices`) |
| list_devices, revoke_device, get_profile, update_display_name, update_email | BeginLocked, Enter, NetworkReturns (`account_call`) |
| get_avatar, set_avatar | ReadMasterKey, Enter, NetworkReturns or SetAvatar |
| sign_out, forget_server | BeginClear, Clear (two or five times), Reset |
| restore | RestoreReadProfile, RestoreReadToken, RestoreRediscover, Resume |

`EnterRejected` is NotConnected or NotSignedIn; `NetworkReturns` ends any wait
for the network with an error (unreachable, refused, mismatch, wrong key, MFA);
`StorageFails` is a keychain operation that fails after the first; `Crash` ends
the process. A first read that fails, or finds nothing, changes no state and is
a stuttering step. The three faults besides the network's errors are chosen by
the constant `Faults`.

Abstractions:

* A server is its identity key. The address the user enters may lead to any
  server, so `ConnectDiscover` takes any; that the server found is one that
  signed its description during the call is what `Discovery` shows.
* An account names all that is its own: the value `alice` in the master-key
  entry is alice's master key, in the token entry a token of hers. Each account
  has one of each, so two tokens of one account are not told apart, and a
  `create_owner` that is refused is not told from one that never ran.
* The password is the user's and is right; a wrong one is one more error of the
  network step. The Secret Key the user types may be any account's, registered
  or not, and only the account's own opens its bundle.
* `Inner::endpoints` and the profile's endpoints follow the verified server and
  are left out, and with them the early returns of `restore` for an endpoint
  that does not parse, which `connect` never produces.
* A keychain operation that fails has had no effect (`StorageFails`), which is
  an assumption about the OS keychain. If an operation could take effect and
  still report one, `TofuRefined` and `SessionAtHome` would not hold: a
  `forget_server` that errs on its last delete, with the profile gone, returns before
  the reset and leaves a live connection and session without a pin. `KeysGenuine`,
  `PinStable`, `SignOutDropsSession` and `ForgetWipesVault` do not depend on it.
* The byte forms of the entries are left out: each is written and read by the
  same pair of functions.

### Trust on first use

`Tofu` has three variables, the pin, the connected server and the signed-in
account, and says when each may change: a connection only to the pinned server
or to any server while there is no pin, a pin only to the connected server, a
session only on the server of its account while that server is pinned, and the
pin dropped by forgetting alone. `TofuRefined` checks that `Client` implements
it with the profile's identity as the pin. A `forget_server` is the abstract
`Forget` at the moment it deletes the profile: memory is reset one step later, and
the mapping shows it as already gone.

### Devices

`Devices` adds to `Client` the device records of the servers (`active` and
`revoked`), the key pair whose secret the vault holds (`secret`; `Client` has only
the account it belongs to, in the vault's DEVICE_SECRET entry), the pair each
running call has generated (`made`), and the device the shell was last told is
enrolled (`told`). Each action is a step of `Client` in conjunction with what it
does to these:

| Code | Step |
|---|---|
| flows::enroll_new_owner | OwnerEnrolled (BootstrapAccepted, or BootstrapReplyLost) |
| enroll_this_device up to the reply | DeviceEnrolled (RegisterDevice, or an error with the server's record made) |
| set_device_secret in persist and in enroll_this_device | OwnerCached, DeviceCached |
| the return of create_owner | OwnerReported |
| clear at the device secret | SecretCleared |
| revoke_device, here and on another device | revoke_device, RevokedElsewhere |

Everything else is `OtherStep` or a crash, and leaves the devices alone. The
devices that other machines have enrolled are not represented: no step of this
client depends on them. A pair that is generated and never reaches the server
leaves no trace. A device the server knows and nobody has the key of is a
reachable state: it is what a lost reply, a storage failure or a crash between the
two leaves behind, and the user can revoke it. What `EnrolledMeansHeld` says is
that only a failed call leaves one. After a sign_in to another account the vault
holds the device secret of the first account beside the keys of the second; no
document promises otherwise and nothing in the SDK reads the secret back, so no
property excludes it: `SecretRegistered` says whose the secret is, and holds with the
mixture.

### Discovery and failover

A server has a history of settings (payload version, port, name), which
`Reconfigure` goes through: an operator renames it, moves it, upgrades it. `Answer`
signs the setting of the moment for any nonce that has ever been drawn, so that
requests may be late, repeated or meet another server. `Responses` is every
combination of fields around any signature made so far, with `None` for a key or a
signature that does not decode: replayed, misdirected and altered responses are
all among them. A signature is represented by what was signed, and
`verify_strict` compares the canonical bytes, which `Canonical` computes as the
code does. Texts, keys and nonces are sequences of bytes.

What the model takes for granted: nobody signs but the holder of the key, and a
drawn nonce is new. What it leaves out: `server_version`, which the signature does
not cover and nothing reads; the JSON and hex forms (`decode_hex_array` also takes
a plus sign in front of a digit, since `from_str_radix` does; the same bytes
result, so it makes no difference to what is verified); and whether the gRPC
connection reaches the server that signed, which needs the TLS that `mod.rs` says
is to come.

`Failover` is `connect` entry by entry. `up` is the set of endpoints that answer
at the moment, and changes at any time; `steady` of a call is the set of those that
have been up since it began. `discover_and_connect` calls it with the one endpoint
it has found; `ConnectDirectly` calls it with a list, as its documentation intends
("LAN / VPN / public failover") and its tests do. `restore` uses the first of the profile's endpoints
only, although `ServerProfile` documents them as "tried in order"; `connect` of the
facade never stores more than one, so no run can show a difference.

### Password changes

`KeyRotation` looks at what `Client` leaves out: the key bundle the server keeps
and the password it accepts. `call[d]` is what the handle of device `d` is doing;
the points are the network waits inside `change_password` and `login`.

| Code | Steps |
|---|---|
| change_password | BeginChange, SendChange (key_material, unlock and re-wrap), then ChangeAccepted or ChangeRejected |
| login | BeginSignIn, LoginAccepted, UnlockMaterial, SignedIn |
| errors | UnlockRejected (Crypto), CallFails and GiveUp (Server) |

A call starts with any password, any session and any account's Secret Key, since
the key is read before the mutex is taken and the vault may belong to somebody
else by then. `GiveUp` is a connection that fails with the request on its way: the
request goes into `delayed` and may land at any later time or never. The server
replaces verifier and wrap together, and only for the right current password
(`Accepts`, `Change`); that is an assumption about it, and the one that
everything here rests on. A late request can still undo a later change, if the
password has been changed back to the one it names: the protocol has no version
number, and no property claims otherwise.

`Crypto` treats a sealed blob as a record of its key and its plaintext and a
derived key as a record of what it was derived from, so that equal keys mean
equal inputs. The XOR of the two legs and the ciphers are not looked into.
`SealedBox` treats an X25519 secret as the name of its pair, and an agreement as
the set of the two names, the same from either side. `Telemetry` has no step of
its own and stands for no code of the client: the library has `seal_to` and
`open_sealed`, and `Grant`, `Sent` and `Reads` put them together as the test
`group_key_wraps_to_an_admin_then_telemetry_round_trips` does.
Grants and reports are sealed once and for all, and the question is what the identity
that a later sign_in unlocks makes of them. Blobs that are too short
and agreements with points of small order are left out.

A sign_in that overlaps a password change may fail with `Crypto` although its
password was right when it was accepted; `UnlockRejected` at `material` is that.

### The Secret Key codec

`SecretKeyCodec` runs `encode_grouped` one round of a loop at a time
(`EncodeByte` for the outer, `EmitSymbol` for the inner), and then
`decode_forgiving` one character at a time, driven by a user who reads the display: for each symbol any of its readings
(`Readings`), a superfluous symbol after the last (`Slip`), an invalid character,
or the end of the input at any point. A separator leaves the parser's state alone
wherever it is typed, so `PassSeparator` stands for typing and for skipping one.
`SymbolAt` is the reference definition, from the bits of the key. What `Slip`
brings out: the bits of one superfluous symbol do not fill a byte and are
dropped, so `parse` takes 33 symbols where its documentation says 32. The key is
the right one all the same, and `TypedKeyIsDisplayed` claims no more.

## What TLC checks

| Run | Instance | What it shows |
|---|---|---|
| `serial_faults` | 1 caller, 2 servers, 3 accounts, 2 device key pairs, all operations but the avatar calls, all faults | `TofuRefined`, `PinStable`, `SessionAtHome`, `KeysGenuine`, `SignInHeals`, `SignOutDropsSession`, `ForgetWipesVault`: through any failure, lost reply and crash, one call at a time keeps trust on first use, sends no token elsewhere, caches only keys of accounts the servers know, drops what it promises to drop, and a sign_in that succeeds repairs whatever mixture an earlier failure has left. `SecretRegistered`, `EnrolledMeansHeld`, `DeviceKept`: the device secret is always one the server has recorded, a reported enrolment has its secret, and while a device is not revoked only forget_server loses its secret |
| `serial_quiet` | 1 caller, 2 servers, 3 accounts, all operations, only lost replies | `MemoryMatchesVault`, `RestoreReportsTokenUser`, `AvatarUnderOwnKey`, `ReturnNeedsOnlyPassword`: memory, vault and server speak of one account, and a return after sign_out needs only the password |
| `concurrent` | 2 callers, 1 server, 2 accounts, all operations, no fault | `VaultAgrees`, `SecretKeyRetained`: clears and persists of different callers never mix accounts |
| `liveness` | 2 callers, 1 account, all operations, all faults, fairness | `TypeOK`, `EveryCallReturns`: the mutex is held by exactly the caller inside, and every call returns |
| `discovery` | 2 callers, 2 servers with 2 and 1 settings, 2 nonces, 2 ports, lists of up to 3 entries | `TypeOK`, `Fresh`, `SteadyEndpointWins`, `ErrorOfLastEndpoint`: what is believed of a server was stated by it during the call, and connect neither passes over a steady endpoint nor reports another error than the last |
| `key_rotation` | 2 devices, 2 accounts, 2 passwords, 2 salts, 2 cost parameters, 2 late requests at a time | `TypeOK`, `OneCredential`, `SignInUnlocksOwn`, `TelemetryReadable`: one pair of secrets opens each bundle, a sign_in unlocks its own account, and with it the reports of its groups |
| `secret_key_codec` | 30 keys of 20 bytes, 2 superfluous symbols | `DisplayIsBase32`, `TypedKeyIsDisplayed`: what is displayed is base32 and types back to the key |

Bounds of the runs of `Client`. Nothing counts, so the state space is finite for
each choice of the constants and no run is cut short: the bounds are the sizes of
the sets. Two accounts on one server allow an account switch and a third on another server
allows a wrong server; two callers allow every race of a pair of calls, which is
what each race in the hazards takes. Passing runs with two callers use one server and
two accounts because no property checked there depends on a second one, and use
the symmetry of the callers, which play no part in any property but through
quantifiers. Deadlock is checked in all of them.

`serial_faults` runs the client with its devices. Two key pairs give an account a
device that another account enrols its own over, and a device that stays without a key
beside one that is held; the pairs are symmetric. It leaves out the avatar calls, which
touch neither vault nor devices; the proofs do not.

Bounds of the others. `discovery` has two nonces, so two discoveries can be
answered with each other's signatures and a third does not happen; a discovery
that is over leaves its signatures for the second. The histories have a change of
port and name, and a layout this client does not know. The names are of one and two
zero bytes and the ports are 1 and 256, so that a field cut at the wrong place would
collide. The list has a malformed entry in front of two good ones. `GroupSecrets`,
`Ephemerals` and `Reports` are two, two and one: one group's grant can meet the other's
report. `MaxDelayed` is the number of late requests of
`key_rotation` at a time: two, with two devices, let a late request race another
one and a fresh one. Devices, accounts, passwords and salts are symmetric there;
the cost parameters are not, one of them being the default. The keys of
`secret_key_codec` are constant, rising and scattered bytes with the ends of the
byte range among them: a symbol's value depends on at most two adjacent bytes, and
each key brings twenty pairs. `MaxSlips = 2` gives the first superfluous symbol,
whose bits are dropped, and the second, which makes a 21st byte. `Word` is 2^16 in place
of 2^32, which TLC's integers do not hold: an accumulator is read in its low 12
bits only, so any multiple of 2^12 up to 2^32 behaves alike (`CodecProofs` assumes no
more, in `WordAssumption`); that bits are
pushed out of it happens in the smaller word as it does in the larger.
The codec's runs stop where the parse ends, so they do not check deadlock.

Fairness. `WF` of a caller's steps is the runtime's scheduling; `SF` of taking
the mutex is tokio's first-come-first-served queue. `WF` of the network steps
assumes that a wait for a server ends, with an answer or with an error. That is
an assumption about the world: no call of the SDK sets a deadline, and a server
that accepts a request and never answers holds the mutex, and with it every
other call but the first steps of connect, sign-out and restore, for as long as
it likes.

### What the code does not do

Five runs end in a counterexample to a sentence of the repository's own
documentation.

With one call at a time:

* `secret_key_lost`: if a keychain write fails after the server has accepted the
  bootstrap, `create_owner` returns an error and the Secret Key is gone, on a
  server that refuses a second bootstrap.
* `revoke_keeps_vault`: `Vault::clear` is documented as the wipe for "device
  revoke" too, and `revoke_device` never calls it: revoking this very device
  leaves its secret, the account's keys, the token and the pin in the vault. No
  fault is needed. For this reason `DeviceKept` claims nothing of a device once it
  is revoked.

With two calls that overlap, and no fault at all:

* `pin_replaced`: two overlapping connects on first contact let the later
  `sign_in` replace a pin without a mismatch ever being reported. A shell whose user
  gives up on a slow connect and starts another does this.
* `forget_race`: a `sign_in` that takes the mutex between the wipe and the reset of a
  `forget_server` leaves the keys, the token and the pin in the vault.
* `restore_race`: a `sign_in` to a second account that writes its token between
  `restore`'s two reads makes it name one user and run the session of the other.

Three more sequences are of the same kinds and have no run of their own:

* `sign_out` clears and resets in the order of `forget_server`, so the same `sign_in`
  leaves the token and the master key behind (`SignOutDropsSession` with two callers);
* a `sign_in` to a second account whose persist fails between the token and the
  profile leaves entries of two accounts, and the next `restore` names one user and
  runs the session of the other, with one call at a time. Until a `sign_in` succeeds
  (`SignInHeals`), `ReturnNeedsOnlyPassword` fails too, and `set_avatar` may seal under
  the wrong key. `QuietProofs` assumes `Quiet` for this reason;
* `set_avatar` seals under the key of the account that was signed in when it began,
  and stores the blob for the one that is signed in when it is sent
  (`AvatarUnderOwnKey` with two callers).

Each of these properties is also checked by a passing run, and proved, where it
holds (`RevokeWipesVault` apart): one call at a time keeps the pin and the promises
of sign_out and forget_server through every fault, and without storage failures and
crashes memory and vault never part.

## What is proved

`ClientProofs`, for any servers, accounts, callers, operations and faults, from
the assumptions `HomeAssumption` (each account has a server) and
`NoneAssumption` (None is not a value):

* `TypeCorrect`: `TypeOK` is inductive as it stands, because it says of each
  point which locals it reads (`CallOK`) and that a point reached with the mutex
  belongs to its holder. The second part is mutual exclusion, and is what the
  other proofs use it for.
* `KeysAlwaysGenuine`: `KeysGenuine`, through `KeysInv`, which follows a key on
  its way: the account a call is persisting and the token a restore has read are
  of registered accounts.
* `VaultNeverMixes`: `VaultAgrees`, if neither the keychain nor the process
  fails. `VaultAgrees` says nothing while a call persists, so it is not
  inductive. `AgreeInv` adds what holds then: the entries already written are the
  call's account's or cleared since, and the ones still to be written agree
  among themselves. Mutual exclusion makes the persisting caller unique; a clear
  by another caller only takes entries away.
* `SecretKeyNeverLost`: `SecretKeyRetained`, if there are no faults. `DeliveredInv`
  drops the vault from the disjunction: the key is with the user or on the stack of
  `create_owner`.

`SerialProofs`, under the further assumption `Serial` (one caller) and any faults:

* `SerialInv` is the inductive invariant: the verified server is the pinned one
  (`OneServer`), a session is one of the verified and pinned server
  (`SessionPinned`), a cached token is one of the pinned server (`TokenAtPin`),
  and each call carries what it has read or deleted so far (`CallKnows`,
  `Cleared`). `CallKnows` is what breaks with two callers: a pin read before the
  discovery need not be the pin afterwards.
* `SerialSessionAtHome`, `SignOutDrops`, `ForgetWipes` and `SignInRepairs` follow from
  it: `SignOutDrops` and `ForgetWipes` through what `Cleared` says of the entries a
  clear has passed, `SignInRepairs` (`SignInHeals`) through what `CallKnows` says of the
  entries a persist has passed. A failed persist leaves no promise about the others;
  the next one that succeeds writes them all.
* `TofuImplemented`: the initial states of `Client` are initial states of `Tofu`,
  and every step is an abstract step or a stutter (`TofuStep`): `ConnectInstall`
  connects, the `Persist` of the profile pins, `Authenticated` signs in, `Resume`
  resumes, the `Clear` of the profile forgets, the `Reset` of a sign_out and
  `Crash` drop.
* `PinStays`: `PinStable`, from the refinement, since no step of `Tofu` replaces a pin.
  It is the property that `pin_replaced` violates with two callers, so `Serial` is an
  assumption it cannot do without.

`QuietProofs`, under `Serial` and `Quiet` (no failure of the keychain and no crash;
replies may still be lost):

* `QuietInv` is the inductive invariant. Between the calls that write the vault it is
  whole (`VaultWhole`): the Secret Key is there with the profile and is its user's, and
  the master key is there with the token, of the same user. A persist has put its
  account into the entries it has passed (`VaultUnder`). The session in memory is that
  of the cached token until a call that replaces or drops it has begun to write
  (`SessionCached`), the identity in memory is the session's (`IdentityOfSession`), and
  what a restore or an avatar call has read is still what the vault holds
  (`ReadsStand`), which is what a second caller would break.
* `MemoryIsCached`, `ReturnsWithPassword`, `AvatarsOpen` and `RestoreReportsRight` follow
  from it. `AvatarUnderOwnKey` is part of it, since the key sealed under is read before
  the mutex. A persist that fails half way is why `Quiet` is needed.

`RotationProofs`, for any accounts, devices, passwords, salts, parameters and any
number of late requests:

* `RotationInv` says that the wrap of each bundle is one of the account's own master
  key under the accepted password and the account's own Secret Key (`WrapsFor`),
  that the wrap of each request in flight, at a caller or late, is the same for the
  request's new password, and that an unlocked sign_in has its account's keys. The
  middle part is what makes it inductive: whichever request lands, its wrap and
  the new verifier agree.
* `RotationTypeCorrect`, `CredentialStaysOne` and `SignInUnlocks` follow from it.
* `SealedBoxOpens`: a sealed box opens with the recipient's secret and no other. With
  `SignInUnlocks` it gives `TelemetryStaysReadable`, for any groups, machines and
  reports.

`DevicesProofs`, for any accounts, callers, key pairs, operations and faults:

* `DevicesImplementClient`: every step of `Devices` is a step of `Client` or leaves it
  (`DevicesStepClient`), so `Devices` refines `Client`; `TypeOK` comes from
  `ClientProofs`, and mutual exclusion with it;
* `DevicesInv` is the inductive invariant: `SecretRegistered`, that a call about to
  cache a secret has generated the pair of a device the server has recorded for the
  very account the vault will name (`Recorded`), and that only create_owner and
  forget_server reach the entry (`Reaches`). A call that waits in between holds the
  mutex, which is why the session it names its account by cannot change under it;
* `SecretAlwaysRegistered` and `DeviceStays` (for a device that is not revoked) follow
  from it, and with one caller
  `EnrolledHeld`: with two, a forget_server may take the secret away between
  persist and the return of create_owner.

`DiscoveryProofs`, for any servers, histories, callers, nonces and endpoints, where
keys, nonces and names are any byte strings whose length fits four bytes:

* `CanonicalInjective`: equal signed bytes have equal fields, the layout version among
  them. Each length is four bytes that determine it, so equal bytes have equal
  lengths and then equal fields, one field after the other.
* `DiscoveryFresh`: `FreshInv` adds to `Fresh` that a signature over a nonce some call
  waits for was made since that call began, from what the signer was at then
  (`SignedSince`), which holds because a nonce is drawn once and signatures are made
  over drawn nonces only. `CanonicalInjective` carries it from the signature to the
  fields of the response.
* `FailoverSteady` and `FailoverError`, through `AttemptInv`: the entries before the
  loop's are none of the steady ones, and the error held is that of the entry before.
* `DiscoveryTypeCorrect`.

`CodecProofs`, for any keys of any multiple of five bytes, accumulators of any multiple
of 2^12 and any number of superfluous symbols:

* The loops of the codec are steps of the model, so what they compute is an invariant
  and needs no induction over data. `Window(acc, bits, end)` says that the low `bits`
  bits of an accumulator are the bits of the key that come before bit `end`. `EncInv`
  has the window of the encoder end at the bytes read, `DecInv` that of the decoder at
  the symbols read; `WindowByte` and `WindowSymbol` move it on, and the symbols and bytes
  taken from its top are therefore the key's. The arithmetic underneath is that of single
  bits (`BitOf`) under multiplication, division and the overflow of the accumulator
  (`% Word`).
* `CodecInvariant` is the conjunction, and `CodecDisplays` and `CodecReadsBack`
  follow from it. The decoder's window is lost with the first
  superfluous symbol; by then all bytes of the key are there (`TextIsKey`).

Only model-checked: liveness (`EveryCallReturns`), which this prover does not do. Every
safety property that a passing run checks is stated by a theorem, under the hypotheses
given here.

## Not modelled

* The generated stubs, the binding generator and the proto tool, and the interface
  files no code uses yet: nothing in them decides anything.
* The primitives: XOR of the key legs, Argon2id, HKDF, XChaCha20-Poly1305, Ed25519 and
  X25519 are symbolic terms.
* Byte forms of the vault's entries, JSON and hex, and how errors are folded on their
  way to the shell (`map_connect_err`, `map_enroll_err`): calls end with "an error"
  wherever the kind makes no difference to what follows.
* Profile fields, roles and session expiry of the Account service, and the MFA leg,
  which the client reports and does not complete.
* Two processes over one keychain: each has its own mutex, so they would be two
  clients over one vault.

## Plan

Done: the client with its storage, trust on first use and the account service;
devices; discovery and failover; password changes and the sealed box; the codec;
the proofs above. Left:

1. `Client` with `Discovery` in place of its `ConnectDiscover`, as a refinement.
2. Two processes over one keychain.
