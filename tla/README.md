# Fybrk, specified in TLA+

Fybrk keeps a directory equal on several devices: a file watcher and an initial
scan feed an SQLite index, a sync loop announces every change to the connected
peers over WebSockets, and a peer that receives an announcement writes the file.
This directory holds TLA+ modules translated from that code, TLC configurations
that check them on small instances, and TLAPS proofs of what holds for every
instance. `PROJECT.json` lists the runs, the lines each definition models, the
hazards of the code, the findings and the theorems.

    tlc -workers 2 -config core_watch.cfg MCWatchPipeline
    tlc -workers 2 -config multi_device.cfg MCMultiDevice
    tlapm WatchPipeline_proofs.tla

## The system

The shipped command (`cmd/fybrk`) uses `pkg/core` only. `internal/*`, with
`pkg/api` and `pkg/fybrk` on top, is a second and older stack: a metadata engine,
a peer network with its connection monitor, an exchange of files between devices,
rendezvous and pairing codes. The second binary, `cli/cmd/fybrk`, runs its
engine; `EnableMultiDeviceSync` of `pkg/fybrk` starts its peer network and
exchange. Both binaries use one key file.

| Component | State | Operations | Talks to |
|---|---|---|---|
| Watcher (`pkg/core/watcher.go`) | directories watched, channel `events` (100), `done` | watchLoop/handleEvent, InitialScan, Close | kernel through fsnotify; writes the index (scan); channel to SyncEngine |
| SyncEngine (`pkg/core/sync.go`) | `running`, `peers` (no lock) | Start, syncLoop, handleFileEvent, broadcastEvent, HandlePeerMessage, AddPeer, RemovePeer, Stop | index; disk; `SendCh` of each peer |
| NetworkManager (`pkg/core/network.go`) | one sender and one receiver goroutine for each connection | handleWebSocket, ConnectToPeer, messageSender, messageReceiver | socket; AddPeer, RemovePeer, HandlePeerMessage |
| Fybrk (`pkg/core/fybrk.go`) | database, key file, the parts above | New, StartSync, Close, key creation, pairing URL | everything in `pkg/core` |
| ConnectionMonitor (`internal/network/monitor.go`) | connections with quality and LastSeen | ticker check, ping, attemptReconnection, callbacks, Close | PeerNetwork, by callbacks outside the lock |
| PeerNetwork (`internal/network/peer.go`) | peers map, local address | discovery, connect, accept, send | monitor, bootstrap, hole punching |
| BootstrapService (`internal/network/bootstrap.go`) | registrations with an expiry | register, look up, retry over several nodes | HTTP nodes |
| HolePuncher (`internal/network/holepunch.go`) | one attempt | punch, acknowledge | UDP |
| Pairing codes (`qr.go`, `device_pairing.go`) | none, or codes with an expiry | encode, parse, accept | - |
| Engine, MultiDevice (`internal/sync`) | metadata rows with versions, devices | processFile, file lists, requests, responses | storage, FileWatcher, chunker |
| FileWatcher (`internal/watcher`) | bounded channel that drops | handleEvent | Engine |
| Storage (`internal/storage`) | metadata table; chunks | store, get, list; chunk, reassemble; encrypt | - |
| API (`pkg/api`, `pkg/fybrk`) | status, handlers | start, stop, notify each handler in a goroutine | core |

What is hard in this code, and where correctness lies:

- **Watcher, scan, sync loop.** Three goroutines and the user touch the same
  file; its stat, its hash and the content sent to peers are read at three
  moments, and the scan writes rows while events about the same files are
  queueing. Correct means: when nothing is on its way any more, row and message
  describe what the disk holds, both halves of them; a change is not stranded;
  stopping ends the goroutines.
- **Peer connections.** `peers` and the channels are shared by the sync loop, by
  every receiver and by HTTP handlers without a lock; RemovePeer looks up,
  closes and deletes in three steps. Correct means: a live connection is
  registered as itself, no channel is closed twice, a peer's messages stay in
  order, no sender is left behind.
- **Messages between devices.** A received file is truncated, filled, given its
  times and recorded, and each step raises an event that is hashed and
  announced back. Correct means: a change ends up everywhere, and indexes agree
  with disks after all the echoes.
- **Key file.** It is written in place, by two programs that disagree about what
  a usable file is; starts overlap and crash, and reads fail. Correct means:
  everybody at work has the key that is in the file, those left behind are exactly
  those whose key was replaced, and a key cut off does not stop the core.
- **Metadata engine.** One file read at several moments, events dropped, two
  goroutines that process the same file. Correct means: a row describes the file,
  and versions count contents.
- **Connection monitor.** A new reconnection attempt is started at each check
  while older ones sleep or dial; callbacks run outside the lock. Correct means:
  the monitor holds no connection it has closed, the peers map follows the
  monitor's, dead connections are resolved, Close ends every goroutine.
- **Peer network and exchange.** Every address is dialled again every 30 seconds,
  connected or not, so connections are doubled and replaced; a peer is written to
  over the connection of its last message, which may be broken; a handler writes
  its answer in the goroutine that reads, and a broadcast writes under the lock
  that readers need. Correct means: devices that stay up come to talk over open
  connections and come to have the same file, handlers and broadcasts end, Stop ends what it can.

## The modules

| Module | Models | Checked by | Proved in |
|---|---|---|---|
| `WatchPipeline` | pkg/core: watcher, scan, sync loop of one device | core_watch | `WatchPipeline_proofs`, `WatchPipeline_refines` |
| `FileIndex` | what an index promises, abstractly | core_watch, engine_rows (refinement) | `WatchPipeline_refines`, `Engine_proofs` |
| `PeerChannels` | pkg/core: connections, senders, receivers, broadcasts | peer_conn, peer_redial | `PeerChannels_proofs` |
| `CoreSync` | pkg/core: the messages between devices and their echoes | core_spread | `CoreSync_proofs` |
| `KeyFile` | pkg/core and cli: the key file and pairing codes | key_file | `KeyFile_proofs` |
| `Engine` | internal: FileWatcher, engine and store of one device | engine_rows, engine_scan | `Engine_proofs` |
| `ConnMonitor` | internal: connection monitor and its callbacks | conn_monitor, conn_overlap | `ConnMonitor_proofs` |
| `PeerNetwork` | internal: connections, readers, peers map, broadcast, Stop | through MultiDevice | `MultiDevice_proofs` |
| `MultiDevice` | internal: lists, requests and responses over PeerNetwork | multi_device, multi_stop, multi_jam | `MultiDevice_proofs` |

`MC<module>` holds what an instance of a module needs beyond numbers. A mutant of
an action stands before it, with a comment that names the slip it makes; no
specification uses it.

### WatchPipeline and FileIndex

One device, from its disk to the message for its peers. Each variable is a piece
of the program: `disk`, `dirs` (the file system), `raw` (the kernel's queue, read
through fsnotify), `watched`, `watchPc`/`watchEv` (watchLoop and the event under
construction), `events` (the channel), `syncPc`/`syncEv` (syncLoop), `scanPc`,
`scanDirs`, `scanFiles`, `scanEv` (filepath.Walk in InitialScan), `db` (files
table), `announced` (the last message for each path), `status` (what New, Start,
Stop, Close have done).

- `WriteFile`, `RemoveFile`, `RenameFile`, `MakeDir`: the user and inotify.
- `WatchTake` (take an event, skip hidden names, stat, watch a new directory),
  `WatchHash`, `WatchSend` (blocks on a full channel), `WatchExit`: watchLoop.
- `ScanDirectory`, `ScanStat`, `ScanHash`, `ScanStore`, `ScanFails`, `ScanDone`.
- `SyncReceive`, `SyncStore`, `SyncAnnounce`, `SyncTimeout`: syncLoop. The row is
  written first, the content of the message is read afterwards.
- `NewInstance`, `Start`, `Stop`, `CloseDatabase`, `Kill`: life of the process.
  `Kill` is possible in every state, for the command ends by a signal.

A stat and a hash are both abstracted to the content they were taken of, so that
a row which mixes two versions of a file shows as two different values.
`untracked` is a history variable: the files whose latest change raised no event
that the code acts on (its directory was not watched, the kernel's queue was
full, the name is hidden, or the file was renamed away), until the scan or a
later event looks at them again. It delimits what the code can be expected to
know. Outside lie, and none of the properties speaks of: the old name of a renamed
file (handleEvent's stat of it fails, and its row stays), files made in a new
directory before the watcher has it, files removed while the program is down, and
whatever the kernel's queue had no room for.

`FileIndex` is the same promise without goroutines: a file is *settled* while
nothing about it is on its way; a changed file is not settled, a settled file's
row is not touched, and a file settles only with a row that describes it.
`IndexFollows` is that specification under the mapping content = `disk`,
row = `db`, settled = the tracked files with nothing on their way. It says more
than IndexAgrees: which steps may change a row at all. The metadata engine's table
keeps the same promise (`RowsFollow` of Engine, for files on which its two workers
have not crossed), so one specification stands for the indexes of both stacks.

### PeerChannels

The connections of one device. `peers` maps identifiers to Peers, `chan` and
`closed` are their SendCh, `sock` the socket, `recvPc`/`sendPc` the two
goroutines of each connection, `castPc`/`castLeft`/`castPeer` the walk of
broadcastEvent over the map. `Connect` is handleWebSocket or ConnectToPeer with
AddPeer; `ReadRequest`, `Reply` are handleFileRequest; `ReadFails`,
`RemoveClose`, `RemoveDelete` the end of a receiver with RemovePeer in its three
parts; `SenderTake`, `SenderWrite`, `SenderCloses`, `SenderPingFails` are
messageSender; `CastBegin`, `CastNext`, `CastSend`, `CastEnd` broadcastEvent.
`died` records that the Go process ended: by a send on a closed channel, by a
second close, or because the runtime noticed the unguarded map (`MapRace`, a
nondeterministic choice, as it is in Go: a write of the map while broadcastEvent
walks over it, or while another receiver reads or writes it). `ReadFails` needs no
broken socket: a message that is no JSON ends a receiver while the socket is open.

### CoreSync

Several devices and one path. Each device has the stages of WatchPipeline in
fewer steps (`Watch`, `Store`, `Announce`; which steps are merged, and why
nothing can tell, is said at the top of the module), and for each link the
receiver of HandlePeerMessage: `ReceiveUpdate` (the check of the row),
`EmptyFile` and `FillFile` (os.WriteFile truncates, then writes), `SetTimes`,
`Record`; `ReceiveDelete` then `Record`. A file removed while a receiver has it
open takes the content along (`orphan`). `last`, `crossed`, `lost` are history:
the latest user change, whether one was made while devices were at work, whether
a queue overflowed.

### Engine

The second binary's engine: `raw` (kernel), `events` (FileWatcher's channel,
which drops when full), `row` (files table), and a `job` for each of the two
goroutines that run processFile, handleFileEvents (`loop`) and the caller of
ScanDirectory (`scan`). `Forward` is FileWatcher.run; `TakeEvent`, `DeleteRow`,
`Look`, `Compare` are processFileEvent, handleFileRemoval and handleFileChange;
`ScanNext` is the walk; `StatFile`, `ChunkFile`, `HashFile`, `ReadVersion`,
`StoreRow` and `FileGone` are processFile step by step, for either worker, and
`Unreadable` is a file which is there and cannot be read: an event about it is
dropped and a scan ends, and the file is untracked from then on.
A stat is the number of the change that made the file what it is, so two
changes never share one (modification times that are too coarse to tell two
writes of the same size apart are not modelled). `crossed` is history: files
whose row one worker changed while the other had begun to process them.

### KeyFile

One `.fybrk/key`, any number of cores and clis. `file` is absent, short (cut off
by a crash) or a key; a key is the number of the start that made it; `pc` and
`key` are each process's place and the key it has in memory. `Load`, `Make`,
`Truncate`, `Fill`, `WriteFails` are initializeKey and the cli's main, with
os.WriteFile as its two steps; `MakesKey` holds the difference between the two
programs: the cli makes a key when there is no file (and refuses a short one,
`RefuseShort`), the core whenever it has not read 32 bytes. Any read may fail, so
a core can make a key over a complete one at any start. `Exit` is a crash or an end
at any point. `GeneratePairData` hands out the key in memory, `RunPair` the bytes of
the file.

Four variables are history. `raced`: two processes were between their look at the
file and the end of their write at the same time. `misread`: a core made a key
though the file was complete. `outdated` and `strays`: the processes that were at
work, and the codes that were out, when a file was truncated for a new key, and
the codes such processes hand out later. `OneKey` says that all others have the
file's key, and that nobody is ever left behind unless a key was misread.

### ConnMonitor

`entry` is the monitor's map, `attempt` the goroutines of attemptReconnection (a
slot for each of those in flight for one device), `peer` the peers map of
PeerNetwork that the two callbacks write. `Check` is checkConnections: it pings
every stale entry, under the lock, and starts an attempt for each that does not
answer, whatever attempts are already there. `DialFails`, `DialSucceeds`,
`Install`, `Notify`, `GiveUp`, `Report` are an attempt's steps in the order of
the code, the callbacks without the lock. The callers' methods are actions of
their own; `Close` ends the context and empties the map, `LoopExit` is
monitorLoop seeing it. Only hole punching calls AddConnection in the repository;
the calls are modelled for any caller. Nothing in the repository answers a
ping, so an answer is a choice. `history` tells a device whose attempts have
never overlapped or met a caller ("alone") from the others ("crossed").

### PeerNetwork and MultiDevice

PeerNetwork is peer.go: `link`, `cut`, `shut` and `stream` are connections, their
ends and what is on its way in each direction; `reader` is handleConnection at
each end; `peers` the map that updatePeer writes, under the sender's identifier,
with whatever connection the last message came over; `cast` is a
BroadcastMessage, which holds the read lock.

- `Dial` happens whether the devices are connected or not, and a dial under way
  when Stop is called still completes. A device that has its own address in its
  network dials itself; updatePeer returns at its own identifier (`UpdatePeer`), so
  such a connection is read and never in the map.
- The lock is a guard: `MayWrite` while no broadcast is under way, `MayRead` unless
  one is and a writer waits (Go's RWMutex keeps new readers out). Who finds it
  taken says so, in a step: `WaitsForLock` (a handler in updatePeer), `StopWaits`.
- SendMessage is `Lookup` (under the lock), `Encode` and, for a message that does not
  fit into the connection's buffers (`big`), `Flushed` once the other end has
  decoded it. The connection is the one looked up, whatever the map says later.
  A handler sends its messages one after the other. `CastSend` and `CastFlushed` are
  the same for a broadcast, peer by peer, under the lock all the way. `Free` says
  whether a connection takes a message, `Put` puts it there; a closed connection
  gives an error, and the message is gone.
- `Break` is the network. `StopCloses` is Stop's walk over the map.

MultiDevice EXTENDS it with what the handlers do: `HandleList` (ask for what has a
higher version, one request for each path), `HandleRequest` (`Readable`: the row
must exist and the file be found under its path), `HandleResponse` (written over
what is there) and `StoreCopy` (the stat and the row of what was written; without
the file it returns), `Broadcast` (periodicSync, which nothing ends), `Record` (the
engine, in one step; Engine has its own), and the user. `Big` are the contents, and
`Laden` the devices' lists, that do not fit into the buffers: a list has the
metadata and the chunk hashes of every file.

One file stands for all, under two paths: the engine's row has the relative path,
which can be opened only by a process that runs in the sync directory (`InPlace`,
multidevice.go:243), and a received file gets a second row under its full path,
which no other device has, so each later list makes every receiver ask for it
again.

## The runs

| Run | Instance | Asks | Shows |
|---|---|---|---|
| `core_watch` | a file in a subdirectory and a hidden one; 2 contents, one large; RawCap 2, EventCap 1, 2 changes, 2 starts | TypeOK, PipelineInv, IndexAgrees, AnnouncementAgrees; IndexFollows; EventuallyIndexed, StopEndsSyncLoop, StopEndsWatchLoop | index and last message agree with the disk once nothing is on its way; the pipeline implements FileIndex; no change is stranded; both loops end after Stop, but for a watchLoop that is blocked in its send |
| `peer_conn` | 2 connections with identifiers of their own, SendCap 1, 2 broadcasts, 1 request | TypeOK, ConnectedIsRegistered, OnlyTheWalkDies, LifeInv, InOrder, SenderEnds | as named; only the walk of broadcastEvent can meet a closed channel |
| `peer_redial` | 2 connections, one identifier | RemovesItsOwn | **violated**: the first connection's end removes the second's Peer |
| `core_spread` | 2 devices, RawCap 2, other capacities 1, 2 changes one after the other | TypeOK, SpreadInv, ChangeSpreads | a change ends up in every disk and index, after all echoes |
| `key_file` | 2 cores, 1 cli, 4 starts | TypeOK, OneKey, CoreHeals | unless two starts made a key at once, processes and codes have the file's key, but for those of before a core replaced a complete key it failed to read; a start of the core leaves a complete key |
| `engine_rows` | 1 file, 2 contents, RawCap 2, EventCap 1, 3 changes, 2 starts | TypeOK, EngineInv, MetadataAgrees, VersionsCount, RowsFollow, EventuallyRecorded | rows describe the files they were told of, versions count contents, the table implements FileIndex, while scan and loop keep out of each other's way |
| `engine_scan` | same, 2 changes, 1 start | MonitorsAll | **violated**: the scan stores what it read earlier over the loop's newer row, or brings back the row of a file whose removal the loop has recorded |
| `conn_monitor` | 2 devices, 2 attempts each, 2 retries, 3 connections, 2 calls | TypeOK, ConnInv, HoldsItsOwn, PeersFollow, DeadIsResolved, CloseEndsAll | the monitor keeps no connection it closed, the peers map follows, the dead are resolved, Close ends all |
| `conn_overlap` | 1 device, 2 attempts, 2 retries | GivesUpTheLost | **violated**: an attempt that gives up deletes the entry another has just reconnected |
| `multi_device` | 2 devices, one dials; 3 connections, 2 served at once, 1 break; 1 write, 1 removal | Reconnects, DevicesAgree | the devices end up connected over open connections, and with the file on both or on neither |
| `multi_stop` | 2 devices, one dials the other and itself and stops; the other's list and all contents big, 2 connections | TypeOK, NetInv, StopClosesMap, HeldUpByReader, StopLeavesWaiting, HandlersEnd | connections, streams and the peers map stay those of the right peers; a stopped device's map leads to no connection that stays open; what a writer waits for has a reader; handlers and broadcasts come to an end, also when a handler waits for the lock under which a broadcast writes; after Stop the only readers left wait for a message on a connection outside the map |
| `multi_jam` | 2 devices, 1 connection, lists and contents big, 3 messages under way | BroadcastsEnd | **violated**: two devices broadcast under their locks, or answer, and the readers that could take the messages wait for those locks, or write |

Findings, with the line of the repository that says otherwise, are in
`PROJECT.json`: sync.go:262 (RemovePeer), cli/cmd/fybrk/main.go:195 (monitoring),
monitor.go:278 (a connection given up), multidevice.go:60 (periodic sync).

### Bounds, and why they are enough

- `EventCap` and `SendCap`, 100 in the code, are 1: a channel of capacity one is
  full, empty and refilled within few steps, so every blocked or skipped send
  occurs. The proofs cover every capacity of `events`.
- `RawCap` 2: the kernel's queue can hold a removal and a re-creation of the
  same file, and overflow.
- `MaxChanges` 2 or 3: the hard cases need one change while the scan or an event
  is at work and one after it. `MaxStarts` 2 adds the restart over an old index.
  One followed file in a directory made while the program runs, and one hidden
  file, meet every branch of handleEvent and of the scan; renames between two
  followed files are left to the proofs.
- `MaxCasts` 2 (order needs two), `MaxAsked` 1.
- In CoreSync the kernel's queue has two places, so that the two events of a
  written file can wait there together, and the other queues one; a run is cut
  where one overflows or where the user makes a change while the last one is still spreading (the
  CONSTRAINT `OneAtATime`). What a lost message does is not asked there, nor what
  crossing changes do: handleFileUpdate compares hashes and no times, so two that
  cross can leave the devices with different files or with the older one.
  Devices and contents are interchangeable, so their permutations are a
  symmetry; no run with symmetry checks liveness.
- Engine has one file: a file of its own can only fill the queues or end the
  scan early, which the three changes of one file do as well; two files with two
  changes gave the same result (1.4 million states, too long a run to keep).
- KeyFile: three processes are two that make a key and one that sees the result;
  the fourth start is one that loads what a crash left. The proofs cover any
  number of both.
- ConnMonitor: two attempts are enough to overlap, two retries to tell a first
  dial from a last one (5 in the code), three connections for an entry that is
  replaced twice or for an AddConnection beside an attempt. The proofs cover all
  numbers.
- MultiDevice: `MaxServed` bounds connections open at once and `MaxConns` those
  ever made, and a break is allowed only while one more dial is; otherwise a run
  could end without a connection, which the code's endless dialling does not.
- `MaxUnderWay` 1 in multi_device and multi_stop: a device begins a broadcast only
  when the last exchange is over, as with 30 seconds between two lists. Doubled
  connections still make messages of one exchange overtake each other, and
  discoveries, stops, breaks and user changes come in between. In multi_stop a big
  list waits under the lock of its sender while that sender's readers wait for the
  lock, and a big answer waits for its reader; what cannot happen is that two such
  messages go in opposite directions, so `Jammed`, which the liveness properties
  leave out, is not reached.
- `MaxUnderWay` 3 in multi_jam reaches it: two lists cross, or a list meets an answer,
  and neither device reads any more (the hazard at multidevice.go:201). The
  properties with `Jammed` claim nothing of that case, and multi_jam shows that the
  code does not avoid it.
- `MaxWrites` 1: with two writes, equal versions of different contents never
  spread, and each device keeps its own; DevicesAgree therefore speaks of a
  file's presence.
- Deadlock is not checked: each system comes to rest when its bounded user,
  caller or network has nothing more to do.

### Fairness

`FairSpec` of WatchPipeline asks weak fairness of watchLoop, syncLoop and the
scan, each a goroutine that the Go scheduler runs when it can run. Nothing is
asked of the user, of the caller of Start, Stop and Close, or of the signal that
ends the process. Engine asks it of FileWatcher.run, of handleFileEvents
and of the scan. `FairSpec` of PeerChannels asks it of broadcastEvent, of
each sender and of the end of each receiver, and nothing of the network, the
dialler or the peer's requests. A ping that fails on a dead connection is part of
the sender: the ticker fires for ever.

KeyFile asks that a start which is not killed goes on to its end, and nothing of
the user or of crashes. ConnMonitor asks that time passes (an entry without
activity becomes stale), that the ticker's check happens, and that each attempt
goes on; nothing of calls, breaks or the outcome of a dial. A check that could
start an attempt is not prevented by the bound on slots for ever: an attempt in
flight ends.

MultiDevice asks weak fairness of each reader, each broadcast under way, the
engine, the dialler of a device that is up and Stop once it is called: goroutines,
and a ticker that never stops. A waiting Stop, or a handler that waits for the map,
keeps new readers of the lock out, as Go's RWMutex does, so weak fairness is enough
for them. It asks strong fairness of `Broadcast`, which is possible again and again
but not always (another exchange may be under way): the ticker's next tick finds
it possible, because the list is sent without end. `TurnSpec`, of multi_stop and
multi_jam, adds it for `Encode`: a handler with an answer for a connection that big
lists keep filling finds it free between two of them, 30 seconds apart, and gets
the connection's write lock. PeerChannels asks fairness of the end of a receiver
only when its socket is broken: nobody need ever send what is no JSON.

## What is proved

### WatchPipeline

`WatchPipeline_proofs` proves four theorems of `Spec`, for every set of files,
directories and contents, every placement of files, all capacities and all
bounds, from the assumptions named in WatchPipeline (`PathAssumption`,
`ContentAssumption`, `CapAssumption`, `NullAssumption`):

- `TypeCorrect`: `Spec => []TypeOK`.
- `PipelineCorrect`: `Spec => []PipelineInv`.
- `IndexCorrect`, `AnnouncementCorrect`: the two agreements, from PipelineInv.

IndexAgrees is not inductive: it speaks of files with nothing on their way, and
says nothing of the events which will make it true. `PipelineInv` is the
strengthening. For a tracked file it follows the chain kernel queue - watchLoop -
events - syncLoop - row and says of the first stage (from the front) that holds
anything about the file that its most recent piece is true: the last unread
kernel event is a removal exactly when the file is gone (`RawTrue`), else the
event in watchLoop has the disk's stat and hash (`WatchTrue`), else the last
event of the channel (`EventsTrue`), else syncLoop's (`SyncTrue`), else the
scan's (`ScanTrue`), else the row and the message (`RowTrue`, `MessageTrue`). A
user step makes the newest piece the kernel's, so every other part becomes
vacuous for that file; a goroutine's step passes the newest piece on. `PhaseInv`
adds that there is no syncLoop, and no message, before the scan is over: this is
what the order of Start (scan, then loop) gives, and the mutant that swaps the
two breaks the invariant. The lemmas on queues (what is last after an append or
after taking the head) stand first; then one lemma for each group of actions.

`WatchPipeline_refines` proves `IndexFollowsCorrect`: `Spec => IndexFollows`. The
first state has nothing settled. For a step, an action of the user is a Change of
FileIndex and any other a Work or a stutter; what has to be shown is that a
settled file's row is left alone (whoever writes a row still has that file in
hand, so it is not settled) and that a file which settles in a step has a true
row, which is IndexAgrees after the step.

### PeerChannels

`PeerChannels_proofs` proves, for every set of connections and keys, every
capacity of SendCh and all bounds, from `PeerAssumption`:

- `ChannelsTypeCorrect`: `Spec => []TypeOK`, also when connections share keys.
  TypeOK holds the capacity of every SendCh, and that a goroutine which is
  replying, closing, deleting or writing has what it needs in hand.
- `LifeCorrect`: `Spec => []LifeInv`, and from it `RegisteredCorrect` and
  `OnlyTheWalkDiesCorrect`, under `OwnIds`: no two connections share a key.
  That is so between connections accepted by the server; `peer_redial` shows what
  happens to dialled ones, where it is not.

ConnectedIsRegistered does not carry over a step by itself: RemovePeer deletes
what is under a key after it has closed the channel of the Peer it looked up
earlier. `LifeInv` says that both are the receiver's own connection: from AddPeer
to the end of RemovePeer the map has the connection under its key, a receiver
holds no other Peer, and a channel is closed only once its receiver is about to
delete the key, or has. The cases are few because only Connect and the steps of a
receiver touch the variables LifeInv speaks of (`LifeOthers` says so once for all
other steps); `died` can become "cast" or "map" there, and nothing else.

The second part of the module proves `InOrderCorrect`: `Spec => []InOrder`, also
when connections share keys. InOrder is not inductive: nothing in it says that a walk
of broadcastEvent sends to a connection at most once, or that a number given to a
broadcast is higher than those already queued. `OrderInv` says both, of what a
connection has received, has in its sender's hand and has in its channel taken as
one queue: it is ordered, holds no number above the broadcast under way, and a
connection that already has that number is not one the walk will still come to.
A key the walk has yet to visit may be taken over by another connection, but by
one just made, to which nothing has been sent.

### ConnMonitor

`ConnMonitor_proofs` proves, for any devices, slots, retries and bounds, from
`MonitorAssumption`: `MonitorTypeCorrect` (TypeOK, in which the number of dials of
an attempt is bounded by the retries), `ConnCorrect` (ConnInv) and, from it,
`HoldsItsOwnCorrect`. HoldsItsOwn is not inductive: Install makes an attempt's
connection the entry's, and it could already be closed or someone else's.
`ConnInv` adds that a connection carried by an attempt is nobody else's yet, and
that everything in use has a number already given, so that a new connection is
different from all of them.

`PeersFollowCorrect` proves PeersFollow in the same generality. It speaks of a
device at rest, and does not survive the callback by itself. `FollowInv` adds
what holds before: the only attempt of a device whose attempts have not met has
an entry to work on, so that Install does not hand out a connection nobody
monitors, and at the callback the entry has the attempt's connection.

### KeyFile

`KeyFile_proofs` proves, for any cores, clis and number of starts, from
`ProcessAssumption` and `StartsAssumption`: `KeyTypeCorrect` and `OneKeyCorrect`. OneKey
says nothing of processes still making the key, so it does not survive a Fill. The
strengthening, `KeyInv` in the proof module, says that unless starts raced at most
one process is making a key, and over a file that it has cut short; that every
code which is not a stray is a whole key; and, for the part of OneKey which says
that nobody is left behind without a misread key, that without one a key is made
only where there is none. A short file then means that no process at work and no
code is other than outdated or a stray, so the key that is filled in contradicts
nobody.

### CoreSync

`CoreSync_proofs` proves, for any number of devices, any contents and every
capacity, from `DataAssumption` and `BoundAssumption`: `SpreadTypeCorrect` (TypeOK),
`SpreadCorrect` (SpreadInv) and `ChangeSpreadsCorrect`. The run has two devices;
that the echoes of three or more, each announced to all the others, come to the
same end is what the proof adds.

ChangeSpreads speaks of a system at rest and says nothing of what is on its way.
`SpreadInv` says, as long as no change was made while another was spreading
(`crossed`) and no queue overflowed (`lost`), four things (`Round`):

- every event, message and received file under way is of the latest change, or of
  the empty file that os.WriteFile leaves between its two steps (`OfThisChange`);
- a file the change has not reached is as it was, its row with it, and nothing
  about it is under way; an empty file has somebody who is filling it (`DiskInv`);
- the newest thing a device has to announce, and the last message on each of its
  links, is the change itself: an echo of the empty file is followed by one of the
  content (`LatestInv`, `LinkInv`);
- a device which lacks the change, or whose row does, will still hear of it, from
  its own disk, a receiver at work or a message to come (`Due`).

At rest nothing is due, so every disk and row have the change. The last part is the
one that is hard to keep: handleFileUpdate ignores a message whose hash is the
row's, and the row may be that of the empty file or already the new one while the
disk is still to be filled. The proof has a lemma for each stage and one for each
property of a queue; a user's step made at rest starts the next round, and any
other sets `crossed`. What crossing changes do is outside of it (see Bounds).

### Engine

`Engine_proofs` proves, for any files, changes, starts and capacities, from
`EngineAssumption` and `NullAssumption`: `EngineTypeCorrect` (TypeOK),
`EngineCorrect` (EngineInv), `MetadataCorrect` (MetadataAgrees) and `VersionsCorrect` (VersionsCount, a
property of steps). Neither of the last two is inductive: MetadataAgrees speaks
only of files at rest, and VersionsCount of a row which the worker has read some
steps before it stores. `EngineInv` has four parts:

- `StatsSpeak`: a stat is never newer than the file, and chunks and hash taken
  after a stat that is still the file's are the file's. This is what makes it
  right to dismiss an event on the stat alone.
- `ScanIsLater`: what the loop stores while the scan has the same file is older
  than the scan's stat, unless the two have crossed.
- `VersionsFollow`: a version about to be stored follows the one in the row.
- `Tracked`: for a file the engine was told of, the chain kernel queue - channel -
  loop - scan - row, as in PipelineInv; here the events carry no contents, so what
  is true of the last one is only whether it is a removal.

`RowsFollowCorrect` proves `Spec => RowsFollow`, the refinement of FileIndex: a
change of the user leaves its file unread or untracked, so not settled, and settles
no other; a worker that writes a row has the file in hand; and what a settled
file's row is after a step is MetadataAgrees.

### PeerNetwork and MultiDevice

`MultiDevice_proofs` proves, for any devices, addresses, stops, breaks, contents
and bounds, from `NetworkAssumption` and `DeviceAssumption`:

- `DevicesTypeCorrect`: `Spec => []TypeOK`.
- `NetworkCorrect`: `Spec => []NetInv`. Messages name their sender, and updatePeer
  believes them. NetInv says that this is sound: what a reader finds on a
  connection was put there by the other end, an answer goes to the device that
  asked, so that each entry of a peers map is a connection with that very device;
  nothing stands behind a big message on its connection; what a device hears from
  itself is its own discovery, so it never has itself for a peer; and an end whose
  reader has gone is closed. It is inductive as it stands, the parts supporting each
  other: streams are right because the map is, and the map because readers are.
- `StopClosesCorrect`: `Spec => []StopClosesMap`. Stop walks the map once, and
  handlers that have decoded a message register its connection afterwards. The map
  of a stopped device nevertheless leads to no open connection, but to one whose
  handler still has an answer to write and then closes it. NetInv is needed for
  the dial that a stopped device still completes: its connection is in no map yet.
- `HeldUpCorrect`: `Spec => []HeldUpByReader`, from NetInv. It is as far as safety
  goes for writes that wait: a writer never waits for an end that nobody reads.
  That the reader gets to it is HandlersEnd, which TLC checks, and is not so when the
  reader itself writes or waits for a lock held by one who writes (`Jammed`).

### Only model-checked

Liveness: EventuallyIndexed, StopEndsSyncLoop, StopEndsWatchLoop, SenderEnds,
EventuallyRecorded, DeadIsResolved, CloseEndsAll, CoreHeals, Reconnects,
DevicesAgree, StopLeavesWaiting and HandlersEnd. Fairness and ENABLED are outside
the prover's reach. Every invariant and every property of steps that a passing run
checks is proved as well. No module here declares a RECURSIVE operator, and
nothing is proved by induction over data.

## What is not modelled

- Within the modelled parts: removal of a directory; the start and shutdown of
  the HTTP server; in CoreSync renames, reconnection, restarts, files of 1 MB or
  more and empty files written by a user; SQLite's own behaviour (a statement is
  one step; a closed database makes it fail).
- Errors of a database that is open. WatchPipeline and Engine have its closing; a
  store or a delete that fails while it is open is left out everywhere
  (sync.go:99-107, 203, 219; engine.go:186; multidevice.go:286), and so is the
  version 1 which Engine gives a file when the look at its row fails
  (engine.go:165).
- What happens when two writes of one size fall into one tick of the clock: Engine's
  stats would be equal (engine.go:108), the second content would never be recorded.
- handleFileRequest is in PeerChannels for its send; no code issues a request.
- In Engine: subdirectories, the encryption of chunks (a library call that keeps
  the hash), a database inside the sync path, which the second binary has. A row
  stored there is a change of a watched file and causes the next row; no
  interleaving is needed to see that it goes on for ever, and a bounded number of
  changes would hide it.
- In MultiDevice: more than one file, chunks (a file is one message, big or not),
  instances of more than two devices in the runs; errors in writing a received file other than
  that it is gone before its stat (multidevice.go:266-286). Discoveries and requests
  always fit into the buffers. All runs have every process in its sync directory
  (`InPlace`); one that runs elsewhere answers no request for a relative path.
- Rendezvous and bootstrap (`bootstrap.go`): reached only from CreatePairingQR and
  JoinFromQR, which have no caller, and JoinFromQR fails before it, for
  ParseQRData compares the first 17 characters of a code with a prefix of 18
  (qr.go:65). It keeps no state but statistics.
- Hole punching (`holepunch.go`): it punches to an address whose socket is closed
  by then, and StartHolePunchListener, which would answer, has no caller. Its one
  effect, AddConnection, is a call in ConnMonitor.
- QR and pairing codes (`qr.go`, `device_pairing.go`): encodings without state,
  and a manager that simulates a pairing and has no caller.
- Stubs and thin layers: the DHT (always an error), UPnP (one request), the
  universal protocol's and the relay client's framing, `pkg/api` and `pkg/fybrk`
  (wrappers), configuration, the types, printing and argument parsing.

## Plan

1. Theorems: the safety that the liveness of MultiDevice rests on (what a row or a
   copy says of the file that was received); an abstract specification of the
   exchange and of CoreSync, with the steps of the handlers shown to implement it.
2. CoreSync extended: restarts and reconnection (nothing is announced after a
   scan), empty files.
3. Engine with a database inside the sync path.
