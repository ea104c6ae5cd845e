# SpawnRelay: TLA+ specifications

SpawnRelay relays public TCP and UDP ports of a server to clients behind NAT:
every client keeps one TLS/yamux tunnel to the server, and an admin API decides
which public ports (*forwards*) lead to which client and target. This directory
models the parts of the server and the client in which goroutines, processes, the
state file, listeners and tunnels have to agree, checks them with TLC on small
instances and proves the main safety properties with TLAPS for every size.

## 1. The system

| Component | Source | State | Operations | Module |
|---|---|---|---|---|
| Forward table and public listeners | `server/api.go`, `server/groups.go`, `store/store.go`, `server/tunnel.go` | clients and forwards in memory, the state file, `Tunnel.runners` | create, update, delete clients, forwards, groups; `Apply`, `ApplyGroup`, `Remove`, `SyncAll` | `Forwards` |
| Client sessions | `server/tunnel.go` | `Tunnel.sessions`, control streams | `handleConn`, `dropSession`, `DisconnectClient`, `NotifyForwards`, `Shutdown` | `Sessions` |
| UDP side of a listener | `server/tunnel.go` | `forwardRunner.peers`, streams, two mutexes | `udpLoop`, `peer`, `peerReadLoop`, `udpReaper`, `stop` | `UdpPeers` |
| State file store | `store/store.go` | state, lock, file | `Update`, `View`, `Open`, save | in `Forwards`, `Sessions` and `Auth`: clients, forwards, the password and API tokens |
| Port specs | `store/portspec.go` | none | parse, render | what is accepted, in `Forwards` |
| TCP relaying | `relay/pipe.go`, `server/tunnel.go`, `client/client.go` | counters, half-closed connections, the bytes under way | `handleTCP`, `openStream`, `handleStream`, `Pipe` | `TcpRelay`, against `Duplex` |
| Tunnel client | `client/client.go` | backoff, session | `Run`, `runOnce`, `handleStream` | connecting again and update messages in `ClientUpdate`, TCP streams in `TcpRelay` |
| Client self-update | `server/update.go`, `client/update.go` | pushed version, status, downloads | push, download, install, restart, reconnect | `ClientUpdate` |
| Firewall manager and agent | `server/firewall.go`, `agent/agent.go` | desired rules, last result, mode, requests at the agent | `Sync`, `Run`, agent `sync` | `FirewallSync` |
| Firewall backends | `firewall/*.go` | rules of the host, ledger | `Sync`, detect | firewalld, in `FirewallSync` |
| Server self-update | `server/selfupdate.go`, `agent/update.go` | staged files, phase, backup | check, start, install, health check, rollback | `SelfUpdate` |
| Authentication | `server/auth.go`, `server/api.go` | admin sessions, limiter, API tokens | login, password change, tokens | `Auth` |
| Settings | `server/api.go`, `server/server.go` | public host, firewall mode, update settings | put settings | the firewall mode, in `FirewallSync` |
| Wire framing, TLS, command line, web interface, install scripts | `protocol`, `tlsutil`, `cmd`, `server/web`, `scripts` | none of their own | encoding, files, presentation | no |

How they interact. An API handler changes the table inside `store.Update`, which
holds the store's lock, runs the handler's function and saves. Inside it the
creating and changing handlers call the tunnel (`Apply`, `ApplyGroup`), which has
a lock of its own; deleting handlers call `Tunnel.Remove` and `DisconnectClient`
after `Update` has returned. Every tunnel connection runs `handleConn`, which
takes the store's lock for the token check and the tunnel's lock for the entry in
`sessions`, one after the other. Every public listener runs one goroutine per
socket, one per peer or connection, and a reaper; they find the client through
`Tunnel.session`. Forward changes are announced to the client by goroutines, and
the handler then calls the firewall manager's `Sync`, which asks the root agent
over a unix socket to open and close the host's ports. The same agent installs a
new server: the server stages the client binaries of the release, hands the tag
over and is restarted by the agent; at its start it moves the staged binaries into
the directory from which clients are updated, over their tunnels. Logins, password
changes and API tokens go through the same store.

What is hard about it, and tested little:

* two lock domains (store, tunnel) that a handler passes through one after the
  other, and a third (`udpMu`) that is taken in both orders with the tunnel's;
* failures halfway: a save that fails after memory has changed, a bind that is
  refused in the middle of a group change, or in its rollback;
* a restart at any point between the bind, the change in memory and the save;
* sessions replaced, dropped, kicked and broken at the same time;
* values read under one lock and used under another (a token, a group's members);
* firewall requests that are given up, queue at the agent and are served late, and
  a ledger that is written after the firewall has changed;
* peers removed by the loop, their reader, the reaper and stop at the same time;
* an update that two processes carry out with renames and restarts, either of which
  may be killed between any two of them, and a record that has to tell the truth;
* a push of an update whose outcome is only known from the next session, while
  sessions break and come back;
* a connection made of three in a row, whose end and last byte travel separately
  through each of them in both directions;
* logins that were checked before and take effect after a password change.

`PROJECT.json` lists each of these hazards at its line with the properties that
cover it, and the components that are left out with the reason.

## 2. The modules

### Forwards

State: `clients` and `fwd` are `store.State` in memory, `disk` is what the last
successful save wrote, `runner` is `Tunnel.runners` (the forward each listener was
started for), `txn` a group change in progress (it holds the store's lock), `pend`
the ids whose handler has yet to call `Tunnel.Remove`, `replying` the groups whose
handler has yet to render its answer.

One action per handler. `CreateForward` and `UpdateForward` are a single step:
they hold the store's lock throughout, and the only steps that can run in between
(`RemovePending`) touch the listener of an id they leave alone or commute with
them. A group change is many steps, because
`ApplyGroup` binds and closes one listener at a time and the pending removals of
other handlers interleave with it: `CreateGroup`/`UpdateGroup`, then `GroupStop`
for members that drop out, `GroupApply` for the new ones, on a failure
`GroupUndo` and `GroupReinstate`, and `GroupCommit` or `GroupAbort`. Members are
visited in the order the code sorts them. Deletions are two steps, the change and
the removal. Two removals of one id that wait at once are one member of `pend`:
the id is gone or being closed in both, and the second finds nothing.

A save may fail after memory has changed (`SaveMayFail`), a bind may be refused by
the operating system (`BindMayFail`), and `Restart` reloads the state file and
applies it at any time. A forward's name, times and addresses are left out, ids
are drawn fresh as `store.NewID` does, and `ParsePortSpec` is represented by the
set of specs it accepts. A request that is refused changes nothing and has no
action.

### Sessions

State: the store's tokens, `Tunnel.sessions`, and for each connection where its
`handleConn` stands, the token it presented, the client it was verified for,
and whether its yamux session is open. `kicks` and `closing` are the handlers that
are about to call `DisconnectClient`, or to close what it took. `FirstToken` gives
every client the token it was created with; the tokens connections present are or
were some client's.

Each section under one lock is one action: `Verify` (store), `Register` (tunnel,
closing the replaced session), `Greet`, `Announce`, `ReadEnds`, `Drop` and
`CloseDropped`; `Rotate` and `Delete` are followed by `Disconnect` and
`CloseTaken`. `Break` lets any connection end at any time. Timeouts before the
Hello only close a connection nobody knows of. What the server writes to a client
is left out, since `sendControl` ignores its errors and only the HelloResponse decides
what comes next; messages of the client belong to its self-update.

### UdpPeers

State: the peer map, the streams, which peers are idle, where the loop, the
readers, the reaper and the stopping goroutine are. The two mutexes are guards on
their holders: `UdpMuFree` (only `peer()` keeps it across a wait) and
`TunnelMuFree` (`stop` runs with it held). `removePeer` is two steps, the deletion
under `udpMu` and the closing of the stream after it.

### FirewallSync

State: `want` and `managed` are what the manager reads from the store (the keys of
the enabled forwards, and whether the mode is "off"), `disk` the same in the state
file, `owed` a `Sync` about to be called, `status` what the last `Sync` recorded
(`fwManager.rules`), `inbox` the requests whose goroutines wait for the agent's
mutex and `job` the one being worked on, each with a flag saying whether the
manager still waits for it; `open` and `perm` are firewalld's running and permanent
configuration, `ledger` the ledger file.

`Sync` is two steps, the request (`SyncStarts`) and the answer, which is part of
the step that ends the request at the agent; in between `GiveUp` may end the wait
while the agent goes on. The backend takes one step per `firewall-cmd` that changes
something and one for the ledger file; any of them may fail. The agent and the
server may crash and the host may reboot between any two steps, which brings back
the permanent configuration.

The mode is off or firewalld; the operator's ports do not change. Two abandoned
requests with the same ports are one member of `inbox`. The order in which the
ports of one request are handled is left open (the code sorts the ports it opens
and ranges over a map to close them). A command that fails may have had its effect.

### SelfUpdate

State: the server process (`up`, `running`, what `selfUpdater` holds: `latest`,
`busy`, `local`, the staging goroutine), the staging directories and the served
client binaries, the agent (`agentBusy`, `job`, the record `rec` that it keeps in
memory and in a file), and the three files at `BinPath`: `exe`, `new`, `prev`. A
file's content is the version it belongs to, missing, or cut short.

The server's actions are `Check`, `Ask` (the checks of `start`), `StartUpdate` or
`StartRefused` (under its lock), one step to truncate and one to write every staged
file, `HandOff`. The agent's are one per file operation or command of `Updater.run`:
`Fetch`, `WriteNew`, `WrittenNew`, `Verify`, `RemovePrevious`, `KeepPrevious`,
`InstallNew`, `RestartServer`, `Healthy` or `Unhealthy`, `RollbackRename`,
`RollbackRestart`. `Adopt` (one rename) and `Serve` are the start of a server; the
directory of its own version may be left behind or removed with files in it when
`bin` cannot be made or a rename fails. Either process may
be killed between any two of them; renames and restarts may fail. The clock orders
`StartedAt` of records and is advanced only when one is made; `Age` lets
`stalePendingAfter` pass at any time.

Release checks always find the newest release, and what a download returns is the
release's file, because anything else is refused by its checksum. Not modelled: a
record that cannot be written to its file.

Three variables are history, for the exceptions of the properties: `gap` is set when
the agent leaves `BinPath` empty (killed between the renames, or both the second and
the undoing of the first fail), `behind` says that the server which handed the present
job over was older than the binary installed then, `unsafe` that a version was staged
which could be started meanwhile.

### ClientUpdate

State: the server's record of the push (`rec`), the registered session and the
sessions whose `noteReconnect` is yet to come, calls of `PushUpdate` between their
checks, their reading and their writing, messages in both directions, and the
client: the version that runs, its executable, the temporary file, the `updating`
flag and a goroutine for each message. `PushCheck`, `PushRead` and `PushWrite` are
the three visits of `PushUpdate` to shared state; `OpenDownload`, `CopyDownload`,
`VerifyBinary`, `InstallBinary` and `Restart` are the steps of `doUpdate`. Sessions
break at any time, a registration whose HelloResponse cannot be written is taken back
without a `noteReconnect` (`HelloFails`), the client is killed, the server is replaced by one of another
version, and the served file changes at any step.

An automatic push is a `PushUpdate` like any other. Status messages other than a
failure only renew the time of the record, and `Expire` may happen at any time. The
Windows build, which renames twice, is not modelled. A kick by the server is a
`Break`.

### Auth

State: password and tokens in memory and in the file, the sessions as a count for
every password they were made with, the failures of one address, and where every
request in flight stands. A password is a number, a new one for each change, so
that old and new can be told apart. `handleLogin` is four steps under four locks
(`LoginAsk`, `LoginCheck`, `LoginReset`, `LoginCreate`, or `LoginFail`), a password
change two after its admission (`ChangeUpdate`, `ChangeClear`), a request with an
API token two (`UseToken`, `TouchToken`). Saves may fail, and the server may restart,
with or without a reset of the password.

### TcpRelay and Duplex

One connection of a remote user. A direction is a chain of three channels (the
sender's connection, the yamux stream, the receiver's connection); hop `h` is the
goroutine of `Pipe` that copies from channel `h` to `h + 1`, two on the server and
two on the client. State: the bytes and the closed flag of every channel, what each
goroutine has read and not yet written, what the client's `bufio.Reader` holds
behind the header, the forward's counters, where `handleTCP` and `handleStream` are,
and what the programs at the ends have done and seen. Bytes are numbered; they move
one at a time, which covers every way of splitting them into reads and writes. The
server counts after a write has returned: `Write` passes the byte on and leaves it
`due`, `Count` adds it, and the receiver may have it in between.

TCP and yamux are external: bounded channels in order, an end of input after the
last byte, failing reads and writes when the other side has gone, a stream that is
reset when only one side has closed it for the time limit yamux sets, and when its
session is lost.

`Duplex` is the promise to the two programs: in each direction bytes arrive once and
in order, and the end comes after the last unless the connection was cut. `cut` is
set where somebody leaves, a dial or a stream fails, or the time limit passes. The
refinement mapping leaves `sent`, `got`, `eof` and `cut` as they are and takes the
closed flag of the first channel for the sender's.

The MC modules add the symmetry sets for TLC where there are any, and `MCSessions` the
clients' first tokens; the other constants are in the `.cfg` files.

Definitions that begin with "Variant with a defect" in their comment are plausible
bugs; replacing the definition they vary by them makes the property that
`PROJECT.json` names under "mutants" fail. They are used nowhere else.

## 3. The runs

| Run | Instance | Checks |
|---|---|---|
| `forwards_any` | 2 clients, 2 ids, 2 ports of which one reserved; binds and saves may fail | `TypeOK`, `SocketsExclusive`, `ForwardsOwned` |
| `forwards_live` | 1 client, 3 ids, 1 port; nothing fails by itself; fair | `ListenersMatch`, `NoOrphanListener`, `DeletedPortCloses`, `GroupChangeEnds` |
| `sessions` | 2 connections, 2 clients, 3 tokens, saves may fail; fair | `TypeOK`, `LiveSessionsListed`, `SlotsVerified`, `DeadSessionsLeave`, `KickedSessionsClose` |
| `udp_peers` | 1 address, 2 streams; fair | `TypeOK`, `StreamsTracked`, `DeadPeersLeave`, `IdlePeersReaped` |
| `firewall` | one port each of the server, the operator and a forward (which may also use the operator's); 3 changes, 2 faults; fair | `TypeOK`, `OperatorPortsKept`, `RecordedStatusTrue`, `WantedPortsOpen`, `UnwantedPortsClose` |
| `server_update` | 2 versions, 2 platforms, 3 records, 1 crash, 1 kill, 2 faults; fair | `TypeOK`, `RecordTells`, `BinaryInstalled`, `ServedWhole`, `NoDowngrade`, `UpdateEnds` |
| `client_update` | 2 versions, 2 callers, 3 sessions, 2 pushes, 1 event; fair | `TypeOK`, `ExeIntact`, `DoneMeansRunning`, `AnswerSettles` |
| `auth` | 2 logins and 2 changes in flight, 3 passwords, 1 token, limit 2, 1 failing save | `TypeOK`, `OldSessionsEnd`, `ConfirmedIsDurable`, `FailuresLimited` |
| `relay` | 2 bytes each way, channels of 2; fair | `TypeOK`, `CountsTell`, `Implements`, `EndsArrive`, `UserReleased` |

These pass. In words: the table never promises a socket twice, nor one of the
server's own ports, and never keeps a forward without its client, in memory and in
the file; listeners follow the table and a refused group change is undone
completely if the operating system allows it; deleted ports close and a group change
releases the store's lock, unless a `stop()` hangs on a UDP listener (which `udp_stop`
shows it may, then with the tunnel's and perhaps the store's lock held for good); no
open session escapes `Tunnel.sessions` and none is listed for ever; no client's slot
holds a connection of another client, nor one whose token is now another's; kicked
sessions close; no stream of a UDP listener is lost, dead peers make
room and idle ones are reaped; the agent never touches a port the operator opened,
the manager never records as open what is not, and once changes and faults end
every wanted port is open, late requests notwithstanding; a port that is no longer
wanted closes, if nothing has failed.

The update record tells the truth about the installed binary; `BinPath` is empty
exactly between the two renames, and for good if the agent is killed there or the
undoing fails as well; served client binaries are whole, except when the version that
is being staged may be started meanwhile (a reinstall, a retry while the agent still
works); an older server comes back only by rollback, or by a job handed over by a
server that was older than the binary installed at that time (the end of this
section describes it); and neither side stays busy. A client never
installs a file that did not run and name the right version, a push shown as done is
one the client runs, and one it has taken up is settled without the time limit.
Sessions of an old password come only from a login the change overtook, or from a
change whose save failed; what the API has confirmed survives restarts; the login
limit is exceeded only by logins that were past it at the same time. A relayed
connection is one connection, its counters lag behind what has arrived by no more than
the write that is being counted and agree with it in the end, its ends
arrive in both directions, and a user who is done is let go of.

What these say of corners is part of what they show. The exceptions inside
`BinaryInstalled`, `ServedWhole`, `NoDowngrade`, `DoneMeansRunning` and
`OldSessionsEnd` are behaviours TLC found when the property was stated without them.

Bounds. Conflicts are between two forwards, so two ids and one usable port with
three protocols produce every kind of overlap; `forwards_live` needs a third id,
for a listener that waits to be closed while a group of two (tcp and udp on one
port) is changed, so that the second bind is refused and the rollback has both an
applied and a dropped member to put back. `MaxGroup` is 2: one member before and
one after any failing one. Replacement needs two connections of one client, a mix-up
of clients two of them, and a rotation one token more than there are clients. A stale
removal needs two streams of one address. Three changes let a forward come, go and come back while an older request is still queued; two faults
a failure during the repair of a failure. Streams
and connections are used once, so a run ends when they are used up:
`CHECK_DEADLOCK FALSE` in `MCSessions_*` and `MCUdpPeers_*` (a stopped listener
really stops, too). The deadlock of `UdpPeers` is found by `StopEnds`. A relayed
connection ends as well, and the runs of the updates and of `Auth` end when their
bounds are used up.

For an update two versions tell old from new, two platforms let one file be whole
and the other cut, three records allow a retry behind a hand-over (a staging and its
hand-over take two), and two faults a failure in the undoing of a failure. A push
needs two sessions to be settled by a reconnection and a third for a second push; the
last session is not broken from outside, which is why `AnswerSettles` stops there.
Two changes of the password in flight, three passwords and one failing save let a
change be overtaken by another and by a failed one. Two bytes and channels of two let
one byte be read ahead with the header, one be under way in the stream, and a channel
be full.

### Disagreements the runs show

Each of these runs checks one property that a comment or the documentation
states, and TLC finds a behaviour of the code that violates it.

| Run | Property | What happens |
|---|---|---|
| `udp_stop` | `StopEnds` | `stop` holds the tunnel's lock and waits for `udpMu`; `peer` holds `udpMu` and waits for the tunnel's lock in `session`. A datagram from a new address while its forward is edited or deleted stops the tunnel. |
| `sessions_token` | `OldTokenDisconnected` | A connection verified before a rotation registers after `DisconnectClient` and stays connected with the old token. |
| `update_served` | `ServedMatchesRunning` | A new server adopts its client binaries when it starts, the health check gives up, and the old server that comes back serves and pushes client binaries of the version that was rolled back. |

Other behaviours that the models show and no run records. One is a downgrade, inside
the exception of `NoDowngrade`: the agent is killed between the second rename and the
restart, so 2 is installed and 1 runs; when the record has aged, 1 accepts to reinstall
itself and hands the job over; the server is then started anew, as 2, and the agent
installs 1 over it. `start` (`selfupdate.go:314`) compares with the version that runs
and nothing compares again when the agent installs, while its error message
(`selfupdate.go:324`) says that downgrades are not installed. The others: a
ControlMessage may be written before the HelloResponse, because a session is listed
(`Register`) before it is answered (`Greet`), and the client takes it for a refusal
and connects again; a group deleted between its commit and its
answer leaves `groupOut` an empty slice; a deletion whose save fails leaves a listener
that no request can name (`NoOrphanListener` assumes that saves succeed); a rollback
that is refused a bind keeps the new listener under the old forward's id
(`ListenersMatch` assumes that binds succeed); with firewalld, a port opened just
before a fault is in no ledger and stays open (`UnwantedPortsClose` assumes that
nothing has failed).

### Fairness

Weak fairness for the steps a goroutine takes by itself: Go schedules every
runnable goroutine, and no step of a handler that has started waits for a request
(`Forwards`, `Sessions`). The exception is `stop()`, which may wait for ever for the
`udpMu` of a UDP listener with the tunnel's lock held. In `Forwards` the calls of the
tunnel are therefore fair only while there is no UDP listener, and what
`DeletedPortCloses` and `GroupChangeEnds` claim beyond that has an explicit premise
(`NoneHangs`: every call returns, or there are no UDP listeners in the end).
`Sessions` has no listeners: its liveness takes the tunnel's lock to be released by
whoever stops one. In `UdpPeers` each goroutine's steps have strong
fairness, because it waits for a mutex that others take again and again; Go's
mutex hands itself to a waiter that has starved for a millisecond. In `FirewallSync`
the manager's timer fires at least every five minutes, the agent goes on with its
requests (a command is killed after a minute) and systemd restarts the agent
(`Restart=always` in `scripts/install-server.sh`). In `SelfUpdate` downloads,
the test run of the binary and the health probe have time limits, so the staging, the
agent's job and the start of a server go on (weak fairness for each), and systemd
restarts both units. The agent's `systemctl` calls have no limit in the code: that they
return rests on systemd, which ends the unit's stop and start jobs after its own. In `ClientUpdate` the steps of an update have deadlines, `Run` connects again
for ever, and the server reads what arrives. In `TcpRelay` every copying goroutine,
the opening and the dialling go on and a half-closed stream is reset after its time
limit; that the programs at the ends read what has arrived is not an assumption of
the specification but the premise of `EndsArrive` and `UserReleased`. Opening a
stream returns because yamux and the header write have deadlines. Nothing is
assumed of API requests, datagrams, frames, the client, broken connections or the
passing of time, nor of a write the client does not take.

## 4. The proofs

All of them hold for any sets of ids, clients, ports, connections, tokens,
addresses, streams, firewall keys, requests in flight, releases, platforms, sessions,
bytes and capacities; the assumptions are the named `ASSUME`s of the modules. The
bounds that keep TLC's runs finite are constants like the others: a theorem holds
whatever they are.

| Module | Theorems | Assumes |
|---|---|---|
| `ForwardsProofs` | `TypeCorrect`, `SocketsAlwaysExclusive`, `ForwardsAlwaysOwned` | nothing: binds and saves may fail |
| | `ListenersAlwaysMatch` | binds and saves succeed (`Calm`); a bind is refused only by a listener of the server |
| | `NeverOrphanListener` | saves succeed; binds may fail |
| `SessionsProofs` | `SessionTypeCorrect`, `LiveSessionsAlwaysListed`, `SlotsAlwaysVerified` | no two clients are created with one token |
| `UdpPeersProofs` | `PeersTypeCorrect`, `StreamsAlwaysTracked` | nothing |
| `FirewallSyncProofs` | `FirewallTypeCorrect`, `OperatorPortsAlwaysKept`, `StatusAlwaysTrue` | nothing: any number of changes and faults |
| `AuthProofs` | `AuthTypeCorrect`, `OldSessionsAlwaysEnd`, `ConfirmedAlwaysDurable`, `FailuresAlwaysLimited` | finitely many logins in flight, a limit above zero |
| `SelfUpdateProofs` | `SelfUpdateTypeCorrect`, `RecordAlwaysTells`, `AlwaysABinary`, `AlwaysServedWhole`, `NeverDowngrades` | at least one release and one platform; `None` is no record |
| `ClientUpdateProofs` | `ClientUpdateTypeCorrect`, `ExeAlwaysIntact`, `DoneAlwaysMeansRunning` | at least one version |
| `TcpRelayProofs` | `RelayTypeCorrect`, `CountsAlwaysTell`, `RelayImplementsDuplex` | a capacity above zero |

The arguments.

* *Forwards.* A group change checks its ports against the table when it starts
  and commits them many steps later. The invariant therefore says that the
  change's members are still free of conflicts with the rest of the table, have
  an existing client and keep the ids of the members they replace; it holds
  because the change holds the store's lock, so nobody else alters the table. A
  restart may bring back any state the file had, so the file has to satisfy the
  same conjuncts.
* *Listeners.* During a change the listeners match neither table. The invariant
  says of every id which of the two tables it follows, according to how far the
  walk has come in either direction; when the rollback ends, all follow the old
  one. That a rollback cannot fail when nothing outside refuses a bind needs that
  the sockets of the old table are pairwise exclusive and held only by listeners
  of the table or of ids that are waiting to be closed.
* *Orphans.* Only ids outside the table with a listener matter: they are pending
  or applied members of the change in progress, and the rollback visits exactly
  those it applied.
* *Sessions.* `LiveSessionsListed` needs that a slot holds a connection of its own client
  (`SlotsHeld`): one that held another's could be overwritten without closing the
  connection it should have held. That the token of that connection is nobody else's,
  the rest of `SlotsVerified`, is about the store alone (`TokensApart`): tokens of two
  clients differ, and one that was ever issued is not issued again.
* *UDP peers.* `OpenStream` overwrites an entry of the map; the invariant adds that
  the entry is empty for as long as `peer()` holds `udpMu`. A stream outside the
  map is open only while the goroutine that deleted it is about to close it.
* *Firewall.* What a request in progress opens, closes and will write to the ledger
  avoids the operator's ports, because they are open when it starts and were never
  in the ledger. What it will report stays true until it is answered, because it
  closes only ports it was not asked for.
* *Authentication.* Passwords are numbered in the order they are chosen, and a change
  that is about to be confirmed is no newer than memory and file, whatever other
  requests have saved since: so the confirmed one is never newer either. A deleted
  token cannot come back because ids are not used twice. The limiter is a count of
  failures and of logins past it: only `LoginAsk` raises the sum, below the limit.

* *Server update* (`SelfUpdateInv`). `JobFiles` says for every step of the agent's job
  what is at `BinPath`, beside it and in the backup, and that the record it will
  settle is its own; that is what makes the last write of the record true, and
  it needs `BusyWithJob`, since a second job would move the same files. `ServedWhole` is
  about files that a later start of the server will adopt, so the invariant tracks
  which versions some start could run (`Startable`: the running one, the installed
  one, the target and the backup of the job) and that none of them has a file cut
  short; staging keeps this because only the newest release is staged, and while the
  agent works nothing is (`StagedApart`). `BinaryInstalled` needs
  that a gap lasts (`GapLasts`): once `BinPath` is empty without a job, every later job
  fails at its first rename. `NoDowngrade` follows from `AsksUpward` (a start accepts no
  version older than the one that runs) and `JobUpward`: unless `behind`, neither the
  server that runs during a job nor the binary the job found is newer than its target, and
  an installed binary older than the server that runs is the one from before the job.
* *Client update* (`ClientUpdateInv`). The executable is intact because goroutines do
  not overlap (`OneJob`), so that the temporary file is still the one that was verified
  when it is renamed (`InstallsChecked`). That done means running needs that the record
  and the messages under way are of the server that runs now (`TargetsCurrent`), that
  everything the client is at leads to that version, and that what a session said when
  it registered is still so when its delayed `noteReconnect` comes (`LeadsToVersion`).
  The proof showed what the exception `leftover` has to cover: not only an update that
  runs when the server is replaced, also one that is installed and not yet started.
* *Relay* (`RelayInv`). Bytes are numbered, and a `Run(s, k)` is the numbers that follow
  `k`. Everything under way in a direction is one run cut into pieces: what channel 3
  holds follows what was received, what hop 2 holds follows that, and so on through the
  client's reader, the stream (where the header is one element in front of the first
  byte) and hop 1 (`Ordered`; `At3` to `At1` are the positions of the cuts). When a stream
  is lost or a goroutine gives up, only the pieces behind the loss continue what
  was received, so the pieces in the middle are claimed to be in order only while the
  direction is `Open`. `Conserved` says that the last position is what was sent unless
  something was lost, `CountedOut` and `CountedIn` tie the counters, together with the write
  that is `due`, to two of the positions (`Tally`, and `Settled` once the copy has ended),
  `CutKnown` and `EndsLast` that an end is passed on behind everything before it or the
  connection is known to be cut. Then every step is a step of `Duplex` or leaves its
  variables alone (`RelaySimulates`): a byte received is the next one because channel 3
  is a run, and an end is seen uncut only when the last position has arrived.

The invariants were checked by TLC on the instances of the runs before they were
proved (`RelayInv` with 2 bytes and channels of 2).

Only model-checked: the liveness properties (`DeletedPortCloses`,
`GroupChangeEnds`, `DeadSessionsLeave`, `KickedSessionsClose`, `DeadPeersLeave`,
`IdlePeersReaped`, `WantedPortsOpen`, `UnwantedPortsClose`, `UpdateEnds`,
`AnswerSettles`, `EndsArrive`, `UserReleased`): they rest on fairness and `ENABLED`, which
the prover does not handle. Every invariant, every action property and the refinement
that a passing run checks is also a theorem.

## 5. What is not modelled, and the plan

Left out for good: encodings (JSON lines, frames), TLS and certificate pinning,
the command line, the web interface and the install scripts, all without state
the other parts depend on. Delays are left out too: `sendControl` may hold the
tunnel's lock for ten seconds, which is slow and not wrong, and so is the client's
backoff.

In this order:

1. The other firewall backends (ufw, iptables, nftables), which find their rules by
   a tag instead of a ledger, and firewalld, against one abstract statement (managed
   rules equal desired ports, foreign rules untouched).
2. `PortSpec`: parsing and rendering as operators against a reference definition.
3. An abstract forward table whose changes are atomic, implemented by `Forwards`.
4. UDP streams on the client, and peers that outlive their listener; the rest of the
   settings.
