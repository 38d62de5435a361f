# A TLA+ model of Hologram

Hologram gives developers temporary AWS credentials.  A program asks the
metadata service of the *agent* on the workstation; the agent asks the
*server*, which authenticates the developer by an SSH key that LDAP lists and
asks AWS STS for credentials.  This directory models the parts of Hologram in
which goroutines, messages and failures interleave, checks the models with TLC
and proves their safety properties with TLAPS.

## The system and its parts

| part | source | state | operations | modelled by |
|---|---|---|---|---|
| user cache | `server/usercache.go` | maps `users`, `groups` | `Update`, `Authenticate`, `_verify`, constructor | `UserCache` |
| request state machine | `server/server.go` | one handler per connection | ping, `AssumeRole`, `GetUserCredentials`, `SSHChallenge`; `AddSSHKey` | `Session`; `AddSSHKey` in `PersistentLDAP` |
| credentials service | `server/credentials.go` | none | `AssumeRole`, `BuildARN` | `Arn`; `Session` (`MayAssume`, `AssumeRole`) |
| client | `agent/client.go`, `agent/ssh.go` | `skip`, the connection; package variables of `ssh.go` | `requestCredentials`; `SSHSetAgentSock`, `SSHSign` | `Session`; `SSH` |
| credentials manager | `agent/credentials_expiration_manager.go` | `creds`, `role` | `SetCredentials`, `GetCredentials`, refresh | `CredentialsExpirationManager` |
| CLI handler, metadata service | `agent/cli_handler.go`, `agent/metadata_service.go` | none of their own | requests and answers | callers in `CredentialsExpirationManager` and `SSH` |
| wire protocol | `protocol/` | bytes in flight | `Read`, `Write`, `Channelize` | `Wire`, which implements `Channel`; FIFO queues in `Session` |
| LDAP connection | `server/persistent_ldap.go` | `conn` | `Search`, `Modify`, `Refresh` | `PersistentLDAP` |
| command-line tools | `cmd/hologram`, `cmd/hologram-ping`, `cmd/hologram-authorize` | none | one request, one answer | `AgentRequests` of `CredentialsExpirationManager`; `ReceivePong` of `Session`; `SshKey` and `Told` of `PersistentLDAP` |
| server process | `cmd/hologram-server`, `transport/remote`, `log` | signals, ticker, debug variables | start, signals, reload, end | `ServerProcess` |
| agent process, hologram-boot | `cmd/hologram-agent`, `cmd/hologram-boot`, `transport/local` | port, socket file | start, signals, crash, end | `AgentProcess` |
| sinks of the log, generated code | `log/`, `*.pb.go`, `bindata.go` | none that others read | | not modelled |

The parts meet in six places.  Every connection handler and the reload
goroutine use one user cache, and one connection to LDAP, without a lock.  Agent and server exchange
messages over a connection that either may leave and the network may break.
CLI handlers and HTTP handlers of the agent share one credentials manager,
without a lock, and both reach the server through the client.  All requests of
CLIs share the variables of `ssh.go`.  Agent processes that overlap share a
socket file and a port.

What is hard to get right, and hardly reached by the tests: two Updates at
once; an iteration over a map that is being filled; the retry after a failed
`AssumeRole`, which spans an `Update`, STS and two messages; the lockstep of
challenges and keys; the refresh of credentials while the user changes role; a
`Modify` that LDAP applies although its answer is lost, and is then retried on a
connection that another goroutine may be replacing; a reader that has lost its
place in a stream; a signal before, during or after the step it interrupts.
`PROJECT.json` lists each such hazard at its line.

## The modules

### UserCache

State: the LDAP directory (external: `ldapUsers`, `ldapGroups`), the maps
`users` and `groups`, and for each goroutine its place in the code, the search
results it still has to store, and the iteration of `_verify`.

| action | code |
|---|---|
| `CallUpdate` | reload loop of `cmd/hologram-server/main.go`, or the retry in `server.go` |
| `GroupSearch`, `GroupStore` | first half of `Update`, one store per step |
| `UserSearch`, `UserSearchEmpty`, `UserStore` | second half of `Update`; `MakeUser` is the loop body |
| `SearchFails` | the two early returns; from the constructor it ends the process |
| `CallAuthenticate`, `Range`, `Visit`, `Miss` | `Authenticate` and `_verify`, one map entry per step |
| `MapFault` | the Go runtime stops a process that writes a map while it is used |
| `Restart` | `NewLDAPUserCache` again |
| `DirectoryChange` | external: administrators, `hologram-authorize` |

A Go iteration visits every entry that is in the map when it begins and may or
may not visit one stored later: `must` holds the first, `Visit` may take any.
`key.Verify` succeeds exactly for the key that signed, so a signature is its
key.  A string in `sshPublicKey` parses to a key (two encodings are accepted)
or to none.

`current`, `overtaken`, `synced` and `listed` are history: which goroutines
found what LDAP still has, whether results that are not LDAP's were stored
since, whether some Update completed undisturbed, and what LDAP has ever
listed.  They guard no action.

### Arn, CredentialService and Session

`Arn` is `BuildARN`: a name of a role is the sequence that `strings.Split` makes
of it, whose first part may be the text `account:role`, with or without
`arn:aws:iam::`.  Aliases stand for accounts with that prefix, as the
documentation and the tests of `credentials.go` have them.

`CredentialService` is what Hologram promises as a whole: an agent that asks is
given credentials at most once, for the role it asked for, of a user one of
whose keys it holds.  The key, the groups and the default role of the user are
those of one content that LDAP has had.  The role is one that such a group has
had, perhaps in another content: `Update` searches for groups and for users one
after the other, and takes a user's roles from a map that other Updates write.
`Session` implements the service (`IsService`) with `asked` as `req`, `given` as
`stored` and the history variable `seen`.

One connection per request, as in `requestCredentials`.  A connection is two
FIFO queues.  The server's handler goes through `read`, `challenge`,
`response`, `verify` and, once the user is known, `assume`, `update`, `retry`
and `fallback`; the agent reads and reacts.  An `Update` that a handler calls
makes its two searches, each store into `groups` or `users`, and its return as
steps (`Search`, `StoreGroup`, `StoreUser`, `UpdateReturns`), so Updates of two
handlers overtake each other and LDAP changes in between; the runtime may end the
process when a map is used while it is written (`MapFault`).  A pass of `_verify`
is one step here, and steps of its own in `UserCache`.  STS and LDAP may fail at
any call.  Two things of the code shape the ends of a connection: neither
`HandleConnection` nor `requestCredentials` closes it on return, so the
agent's end is closed by the finalizer of the unreachable socket (`Finalize`),
and `protocol.Read` drops a message whose last bytes come together with EOF
(`ClientReadFails` with one message left).

The retries are modelled as they are written.  After a failed `AssumeRole` the
handler calls `Update` and tries again with the user it had before; for `use`
a success is in a shadowed variable and the nil of the outer one is
dereferenced (`RetrySucceedsForUse`), for `me` the connection is closed
without an answer (`RetrySucceedsForMe`).  The credentials of the default role
(`Fallback`) follow an error message, at which the agent has stopped reading.

### Channel and Wire

`Wire` is the framing over one direction of a connection.  A byte is a cell
that says which byte of which message it is, so that a header read from the
wrong place is recognised: its length may then be anything, and its checksum
matches no body except the empty one.  Bytes of different places are taken to
differ.

| action | code |
|---|---|
| `Write`, `Transmit`, `WriteFails` | `protocol.Write`, byte by byte, and its errors |
| `ShortWrite` | the writer below takes less than it was given and reports no error: the rest of a header is lost, a body is written from its beginning again until the counts add up |
| `ReadHeader`, `ReadBody`, `Check` | `protocol.Read`: header and limit, loop over the body, checksum |
| `ReadFails` | the stream ends; bytes that come with EOF are dropped |
| `Deliver`, `TakeError` | the caller, or the channels of `Channelize` |
| `Close`, `Break` | the writer closes its end; external: the network breaks |

A message connection (`mode` = `"conn"`) is not read after an error; the
goroutine of `Channelize` goes on.  `Channel` is a queue of whole messages with
a reader that may give up; it is what `Session` assumes of each direction.  It
promises nothing of a message that the writer has torn (`Tear`) or of those behind
it: a connection of Go writes all it is given or reports an error, and only the
writer of a test does not.  A write of no bytes at all is not modelled; `Write`
would repeat it.  `torn`, `received` and `later` are history.

### SSH

The variables `socketAddress` and `providedSSHKey`, and goroutines that handle a
request of a CLI, and set them first, or refresh credentials, and do not.
`HandleConnection`, `SetSock` and `SetKey` are `cli_handler.go` and
`SSHSetAgentSock`; `Ask` and `Verdict` are the client's loop; `ChooseSigner`,
`DialAndList` and `Sign` are `SSHSign`, which reads `socketAddress` twice and
asks the SSH agent twice.  A string or an interface is two words: one that is
read or left half assigned may be no address (`Garbage`), or end the process.
An index beyond the answer of `Signers` is a panic.  SSH agents change their
keys (`KeyringChange`, external).  A request that names no SSH agent and brings
no key file that parses is not refused: it is signed with what an earlier request
left in `providedSSHKey`.  `tried`, `brought` (the keys that came in key files),
`disturbed` and `cause` are history.

### CredentialsExpirationManager

The fields `creds` and `role`, and goroutines that answer a CLI command
(`kind` = `"cli"`) or an HTTP request (`"http"`).  Each read or write of a
field is a step: the test for nil, the comparison of the expiration, the two
reads of `m.role`, the two assignments of `SetCredentials`, and the second
read of `m.creds`.  A Go string is two words, so a read of `m.role` during a
write, or two writes at once, may give a string that is no role (`Garbage`); a
request for it is refused.  `SetClient` runs once, before any credentials can
be set, so the test for a nil client decides nothing.

The clock counts in units smaller than the lifetime of credentials.  It does
not pass the expiration of credentials that are on their way from the server
into `m.creds` (`Tick`): STS grants an hour.

### PersistentLDAP

State: the directory (external), the connections that work, `pl.conn`, and for
each goroutine the call it is in, which of the two attempts it is at, and over
which connection.  The callers are `AddSSHKey` handlers, whose request comes
from `hologram-authorize`, and Updates, which only search.

| action | code |
|---|---|
| `AddSSHKey`, `HandleSearch`, `HandleModify` | the `AddSSHKey` branch of `HandleServerRequest`: search, password, key already there, `Modify` |
| `SshKey`, `Told` | `hologram-authorize`: which key it sends, and what it prints |
| `Call`, `Return`, `NetworkError` | `Search` and `Modify`: an attempt reads `pl.conn`; a network error in the first leads to `Refresh`, in the second to the caller |
| `Open`, `OpenFails`, `Assign` | `Refresh`: dial and bind, then the assignment; its error is dropped |
| `Serve`, `ApplyLate`, `AdminChange` | external: LDAP answers, applies a request of a broken connection later, or is changed by others |
| `Break` | external: the connection breaks; each `Modify` that LDAP has not worked on is lost or stays in `late` |

`sshPublicKey` is a set of values: LDAP refuses to add one that is there.  A
`Modify` that was applied before its connection broke is therefore refused when
it is retried, and `hologram-authorize` reports a failure for a key that is
saved; the converse, a success for a key that is not, is what `SavedKeyListed`
excludes.  `pl.conn` is an interface, two words that are not written at once, but
every connection has the same type, so a racing read gives one connection or the
other.  `granted`, `touched` and `disturbed` are history and guard no action.

### ServerProcess

`main` of the server from its start to its end, with an exit at each failure
(`Start`, `ConnectLDAP`, `LoadCache`, `NewTicker`), the error of `NewServer` that
is not looked at, the calls of `signal.Notify` one after the other, and the two
goroutines for settings and for termination.  A signal that has not been asked
for ends the process; one whose channel is full is dropped.  `log.DebugMode`
sets two variables in two steps.  A goroutine of the server may end the process
(`Crash`): a retry that succeeds does, and so may the runtime when the loop's
`Update` and a handler use a map of the cache at once.  `asked`, `wanted` and
`mixed` are history.

### AgentProcess

Several agents on one workstation: the init script starts one without waiting
for the end of another, launchd starts one again whenever it ends, and the
packages use two ports.  An agent binds its port, creates the socket file, asks
for signals, and on a signal removes whatever file is at the path.  A killed
agent, or one that gets the signal before it asked for it, leaves its file
(`Stale`), and nothing removes it.  `BootDial` and `BootMe` are `hologram-boot`.

## What the runs check

| run | shows |
|---|---|
| `cache_keys` | two goroutines, two users, two changes of LDAP: types; `AuthenticatedOwnsKey`; `MissIsGenuine` |
| `cache_roles` | roles from an LDAP group: `UpdateComplete`; with fairness, `AuthenticateReturns` |
| `session_safety` | two requests, their Updates step by step, a change of LDAP, failures everywhere: types; `CredentialsEarned`; `ResponseIsCurrent`; `KeyringExhausted`; refinement: `IsService` |
| `session_ends` | with fairness: `RequestEnds`, `HandlerEnds`, `GrantArrives` |
| `manager` | two goroutines, two roles besides the user's own: types; `ServedFresh`; `CoherentUnlessOverlap`; `RefreshKeepsRole`; with fairness, `Answered` |
| `ldap` | two goroutines, three connections, a change of LDAP by others: types; `SavedKeyListed`; `KeysGranted`; `NetworkErrorExplained` |
| `wire` | three messages, one without a body and one over the limit, on a stream that is cut, closed or broken anywhere, the second perhaps written short: types; `LaterInOrder`; refinement: `IsChannel`; with fairness, `EventuallyRead` |
| `ssh` | two goroutines, four kinds of requests, keyrings that change: types; `UndisturbedSignsOwn`; `UndisturbedTriesAll`; `DiesOnlyForCause`; with fairness, `SigningEnds` |
| `server_process` | two starts, four signals and a crash at any time, with and without a cache timeout: types; `DebugSettled`; with fairness, `ReloadHonoured`, `TerminationEnds` |
| `agent_process` | three agents on two ports, two terminations, a crash: types; `OwnSocket`; `CleanExit`; with fairness, `AgentComesBack`; no deadlock |
| `session_retry_use` (violated) | a retry that succeeds ends the server |
| `ssh_shared` (violated) | a request is signed with the keys of another request |

The violated properties state what a comment of the code says; the findings in
`PROJECT.json` quote it.

The models show more of the kind, which no run asks about; each is a behaviour
that the passing properties are careful to allow:

- `RetrySucceedsForMe`: a retry of `GetUserCredentials` that succeeds closes the
  connection without sending the credentials (`server.go:165`);
- `Fallback`: the agent returns at the error that precedes the credentials of the
  default role (`server.go:131`, `client.go:199`);
- `MayAssume`: the retry is decided on the user record from before the `Update`
  (`server.go:126`), so a role that was just granted is refused again;
- `overtaken` in `UserCache`: an older `Update`, still storing, undoes a newer
  one, and a key just added to LDAP is turned away (`usercache.go:148`);
- `StoreUser` in `Session`: a user is stored with groups from one content of LDAP
  and roles of these groups from another (`usercache.go:142`), a combination LDAP
  may never have had, until the next `Update`;
- `ShortWrite`: a message that the writer below takes in parts is never received
  whole, and messages behind it may be lost (`wire.go:140`), although a test is
  called "Partial writes should work" (`wire_test.go:110`); it looks at the
  result of `Write` only;
- `ChooseSigner` in `SSH`: a request that brings no key is signed with the key
  file of an earlier one (`ssh.go:44`);
- `since` in `CredentialsExpirationManager`: a refresh that was asked for before
  `hologram use` and answered after it replaces the role the user chose.

Bounds, and why they are enough.  Two goroutines are the fewest that can
overtake each other, and the proofs cover any number.  Two users with a key
that moves from one to the other, an unparsable value and two encodings of one
key cover the cases of `MakeUser`; two changes of LDAP let a search be stale
twice.  In `Session` one agent has a key nobody has registered before its own,
and with the change of LDAP a user gets another key, loses or gains a role, and
its old key becomes another user's, so that every retry of the handler happens,
and a user record with a role from a group that user was never in would show;
`ops` and `opsAlias` are two names of one role, so that
`BuildARN` matters.  Lifetime 1 and four instants let credentials expire and
be refreshed twice.  In `PersistentLDAP` three connections let each of two
goroutines replace the first, in either order of their assignments; a goroutine
handles one `AddSSHKey`, and any number of Updates before it; goroutines are
symmetric, and the run has no temporal property.  In `Wire` a header of two bytes
can be cut, and a body at the limit and one above it leave a reader in every
position of a later message.  `Tearable` = {2} lets one message, with one before
it and one behind it, be written short, at every byte and as often as `Write`
tries again; with all messages in it the run is too long.  In `SSH` one keyring has a key that is rejected
before the one that is not, loses a key, or is empty; the goroutines handle any
number of requests.  In `ServerProcess` four signals are two of any two kinds.
In `AgentProcess` two agents share a port and one does not, so that a successor
can fail at the port or at the socket.

Fairness, in the runs with liveness properties.  Each goroutine is scheduled
(weak fairness of its steps), LDAP, STS and the server answer or fail (the
search or request step is one of those steps), and the collector runs
(`Finalize`; Go forces a collection every two minutes).  Nothing is assumed of
users, of administrators, or of the network, which need not break.  `MapFault`
and `Restart` are not fair.  In `Wire` the transmission goes on unless the
connection breaks, and the user of `Channelize` takes what it is offered.  In
`AgentProcess` agents are started again, since launchd keeps them alive
(`KeepAlive` in the property lists).  Start, signals and ticks of the server are
not fair: `ReloadHonoured` needs no tick.

Deadlock is checked in `agent_process`, where agents are always started again.
The other models stop when their bounds are used up and all requests are
answered.

## What is proved

Every safety property of the passing runs is also a theorem: all invariants, the
action property `RefreshKeepsRole`, and both refinements.  Each
component has one module of proofs, which extends it: `UserCacheProofs`,
`SessionProofs`, `ManagerProofs` (for `CredentialsExpirationManager`),
`PersistentLDAPProofs`, `WireProofs`, `SSHProofs`, `ServerProcessProofs` and
`AgentProcessProofs`.  The theorems hold for every value of the constants that
satisfies the named assumptions of the component's module and of `Arn`: types of
the constants, that null values are none of the others and, in `SSH`, that some
keyring is a longest one.

The pattern is the same everywhere: the invariant that a run checks says
something of a few places in the code, and the inductive one says what each
goroutine knows at every place on the way there.

*UserCache.*  `TypeCorrect` rests on `PendingInv`: what a goroutine still has
to store is of the kind its place in the code stores.  `AuthenticationSound`
(`AuthenticatedOwnsKey`) adds `KeyInv`: cached and pending keys have been
listed by LDAP; since `listed` only grows, no interleaving of stores and
iterations can undo it.  `UpdateCompleteAlways` and `MissIsGenuineAlways` need
`SyncInv`.  For a goroutine in `Fresh` - its results are LDAP's and nothing older
was stored since - `Progress` says how far its Update has got: each group is in
sync or pending, then each user is in sync or pending, then all are; and in the
second `_verify`, each user either remains to be visited or does not have the
key.  Other fresh goroutines can only store the same values
(`OthersKeepProgress`), and every other store takes all goroutines out of `Fresh`.

*CredentialsExpirationManager.*  `ServedFreshAlways` needs `LocalInv`, what
each goroutine knows at each place: credentials about to be set have not
expired, and those behind a passed test had not when the request arrived,
because `m.creds` is only ever replaced by fresher ones.  `CoherenceAlways`
needs `SetInv`: without an overlap at most one goroutine is between the two
assignments, and it is the one that wrote `m.creds`.  `RefreshKeepsRoleAlways`
needs `RefreshInv`: a refresh during which nothing else was set asks for the role
of the current credentials.

*Session, the service.*  `ImplementsService` is the refinement: every step of
agents, handlers, LDAP and the network is a step of `CredentialService` or changes
nothing of it.  It needs `ServiceInv`.  Each role in `groups` is one that LDAP has
listed for the group, and each cached user is made from an entry LDAP has had with
such roles (`CacheInv`, with `MadeFrom`); this survives any order of stores, since
what an Update has found is a content in `seen` (`UpdateInv`) and `seen` only
grows.  The copy of a user that a handler keeps while it updates and retries is
made the same way, and the agent holds one of its keys (`HandlerInv`).  Credentials in flight
that the request is not entitled to, those of the fallback, come after an error
on the same connection (`Ordered`, `AnswerInv`), and the agent stops at the error.
`ArnIsCanonical` and `AliasExpands` say that `BuildARN` makes a full ARN of every
name, leaves a full ARN as it is, and expands an alias as documented.

*Session, the protocol.*  `ProtocolInvariance` says what the two ends of a
connection know of each other, by four invariants that need one another.
`FlightInv`: to the server flies the request, or one response to the challenge
the handler waits on, and then nothing flies to the agent.  `PromptInv`: to an
agent that reads flies at most one failure followed by at most one challenge, and
the handler is where it has sent just these.  `KeysInv`: the keys that the agent
has given up on were rejected, and the one being verified is its next one.
`EarnedInv`: once credentials are given, the handler is done and nothing can make
it authenticate another user.  From these follow `SessionTypeCorrect` (`skip` stays
within the keyring only because each failure is for a key that was there),
`ResponsesAreCurrent` (`FlightInv` and `PromptInv`: an old response cannot be left
in the queue), `KeyringIsExhausted` (`KeysInv`) and `CredentialsAreEarned`
(`EarnedInv`, with `HandlerInv` for the user).  A step of one connection leaves the
others as they are (`AgentOthers`, `ServerOthers`, `StillKeeps`).

*PersistentLDAP.*  `NetworkErrorExplainedAlways` needs `NetInv`: a goroutine
that nothing has disturbed and whose `Refresh` did not fail makes its second
attempt over a connection that works, since every connection that another
goroutine is about to assign works too.  `KeysGrantedAlways` needs `GrantInv`:
a `Modify`, whether being called, sent or late, adds a key that was asked for
with the password.  `SavedKeyListedAlways` needs `SaveInv`: a handler about to
answer `Success` found the key or added it, and nothing but a change by others
removes a key (`ListedKept`).

*Wire.*  `StreamInv` says what can follow a byte in the stream: the next one
without a gap, or, in a message that was written short, an earlier or later one of
the same message (`Follows`).  It says so of neighbours and, by distance, of all
pairs (`InOrder`): with the distances in the invariant no induction over the
stream is needed.  `AheadInv`: a message that is still being written has not been
received, so the one that is torn is not.
`ReaderInv` says that until its first error, and before the first message written
short, `Read` is at `ReadPos`, the byte that follows what it has received; hence
`FramingIsChannel`, with the messages sent and not yet received as the channel's
queue.  `OrderInv` holds after errors and torn messages too: a frame whose first
byte is still to come was neither delivered nor begun, and what the checksum lets
through is whole, so a reader that has lost its place can find only later messages
(`DeliveredInOrder`).

*SSH.*  `SignerInv` is what holds of a goroutine whatever the others do to the
variables; `DiesForCause` follows from it, since an index beyond the answer of
`Signers` needs a keyring that changed.  `OwnInv` is what holds of a request that
nobody has disturbed: the variables are what it has set, and `skip` counts keys
of its own SSH agent that were rejected; `SignsWithOwnKeys` and `TriesAllKeys`
follow.  Of a request that brings no key it says that `socketAddress` is empty, so
that only `providedSSHKey`, which never held anything but a key of some key file,
can be used.

*ServerProcess.*  `DebugModeSettles` needs `DebugInv`: a setting that is asked for
and not done yet waits in its channel or is the argument of `log.DebugMode`; and
`PhaseInv`, how far `main` has come, without which a signal could be pending
before it was asked for.

*AgentProcess.*  `AgentTypeCorrect`, `SocketOwned` and `ExitIsClean` are inductive
together and not alone: only the owner of a socket file can remove it, and
whether it leaves the file behind depends on its place in `main`.

Only model-checked: the liveness properties (`AuthenticateReturns`, `RequestEnds`,
`HandlerEnds`, `GrantArrives`, `Answered`, `EventuallyRead`, `SigningEnds`,
`ReloadHonoured`, `TerminationEnds`, `AgentComesBack`), which need fairness and are
out of the prover's reach.

## Not modelled

- The sinks and formats of the log, metrics and the text of errors: output only.
- TLS, certificates and the encoding by protocol buffers: libraries and generated
  code.  A message is its fields; a checksum matches exactly the body it was made
  of.
- The constant answers of the metadata service, and `Stop` and `Port`, which only
  tests call.
- The configuration, except the cache timeout, the aliases and whether roles come
  from LDAP: it is read once and passed on.
- `accessKeyClient` and `GetSessionToken` beyond what the manager sees of them, a
  request that is granted or refused: each is one call of AWS.
- The agent's goroutine for debug mode: it is the server's without the reloads,
  which `ServerProcess` has.
- That a user who has left LDAP stays in the cache is in the model (`UserStore`
  deletes nothing), but no property is about it: the code promises nothing.
