# A verification development for topbar

topbar is a desktop bar for FreeBSD: a Quickshell (Qt 6) program whose user
interface is QML under `src/components` and whose access to the system is a C++
plugin under `src/plugin/src`. This directory holds TLA+ models of the parts of
it that run protocols, the TLC runs that check the models on small instances,
and theorems about them that the TLA+ proof system checks for every instance.

Paths below are relative to the repository. `backend.cpp` is
`plugin/src/network/backend.cpp`, `devd.cpp` is `plugin/src/devd/devd.cpp`.

## How the program runs

Everything runs on one Qt event loop. A callback (a slot of a `QTimer`, a
`QSocketNotifier`, a `QProcess`, a finished thread, a D-Bus or IPC request, a
QML handler) runs to completion before the next begins, unless it starts a
nested loop, which this code does nowhere. Concurrency comes from what callbacks
wait for: child processes, helper threads, daemons at the other end of a socket,
the kernel and the user. So an action of a model is one whole callback, and
everything between two callbacks that belong together (a process started and
its `finished` signal) is open to interleaving.

## Inventory

| Component | State it keeps | Operations | Talks to | Hard part |
|---|---|---|---|---|
| devd client (`devd.cpp`) | descriptor, notifier, `connected`, reconnect timer | connect, read a datagram, lose the connection, retry | devd's socket; `eventReceived` signal to network, OSS | a loss at any time; every path through connect/cleanup must leave descriptor, notifier, property and timer consistent |
| network interface tracking (`FreeBSDBackend`, `Networking`) | `mDevices`, route socket, startup process list, `wifiEnabled`, list model rows | route messages, devd notices, startup listing, `setWifiEnabled`, add/remove a device | kernel route socket, devd client, `ifconfig` processes, device objects | three unordered sources of the same facts; deferred deletion |
| wired device | state, refresh processes | interface event, refresh finished, disconnect | `ifconfig` | outputs collected out of order |
| wireless device and networks | state, current BSSID, `mScanPending`, `mNetworkMap`, network rows, per-network state and `known` | refresh, five-step scan pipeline, chunked results, known-network loaders, connect/disconnect/forget | `ifconfig`, `wpa_cli`, a loader thread | pipeline lock, several writers of one state |
| object list model (`network/model.hpp`) | rows | insert, remove | QML views | rows mirror the objects |
| OSS sound (`oss/`) | mixers, controls, cached volumes, mute mask, default unit, jack state, rescan debounce | volume and mute writes, poll, rescan, jack events | `/dev/mixer*`, sndstat, devd | read-modify-write against other programs, debounce |
| mango client (`mango/`) | socket, retry timer, outputs, tags | connect, parse, set tags | compositor socket | reconnect, toggles computed from cached tags |
| nullspace client (`nullspace/`) | socket, spaces, active space | connect, parse, switch | compositor socket | reconnect, duplicate loss reports |
| GitHub and Codeberg clients (`clients/`) | login state, tokens, ETag, seen ids, poll timer | device flow, refresh, poll, logout | HTTP, keychain | late replies, order of persisting |
| system metrics (`system/`) | samples of CPU, memory, disk | sample | sysctl, statvfs | arithmetic at boundaries |
| lock screen and session (`components/lockscreen`) | unlock in progress, lock state | try unlock, PAM result, IPC | PAM, IPC | a PAM start that never completes |
| notifications (`components/notifications`) | toasts, timeouts, pending dismissals | show, hover, expire, dismiss | notification server | timers against animations and hover |
| bar, dropdowns, panel (`components/bar`) | open dropdown and its owner, hide timer | open, hover, hide | pointer events | a timer of an earlier owner |
| configuration (`components/config`) | config file, adapter | load, save, reload | file watcher | writing what is being read |
| network enums, widgets, dashboard | none of their own | layout, formatting | the above | none |

What makes each of them correct:

* devd client: nothing leaks over any number of losses; it listens exactly while
  connected; a lost connection is retried until it is back.
* interface tracking: one device per interface and one row per device; when the
  messages about an interface have been handled, the backend and the kernel
  agree about it; a link change always leads to a newer sample.
* devices: the shown state is the interface's once nothing is under way;
  transitional states and the scan lock end; rows mirror the network map; saved
  networks are recognised.
* OSS: a write never undoes another control's value; a device change leads to a rescan.
* window manager clients: the link is retried; a tag request does what was asked.
* clients: the keychain ends up with the token in use; no thread is announced
  twice or missed, over restarts and late replies.
* lock, toasts, dropdowns: an attempt to unlock ends; a toast expires once; only
  the current owner's timer hides a dropdown.

`PROJECT.json` lists the places in the code where each of these can go wrong
(`hazards`) and the properties that cover them.

## Modules

| Module | Models | Uses |
|---|---|---|
| `RetryLink` | what a client of a local daemon promises: a lost link is retried until it is up, and is up again and again if the daemon is reachable again and again | |
| `Devd` | the devd client and the daemon's end of its socket | implements `RetryLink` |
| `Devd_proofs` | theorems about `Devd` | `Devd`, TLAPS |
| `NetBackend` | `FreeBSDBackend` and `Networking`: route socket, devd notices, startup listing, devices, rows, `setWifiEnabled` | composes with `Devd` |
| `Sampler` | the `ifconfig <if>` processes of a device: each reads the kernel once and is collected later, in any order | |
| `WiredDevice` | one `FreeBSDWiredDevice` | `Sampler` |
| `WifiDevice` | one `FreeBSDWifiDevice` with its networks | `Sampler` |
| `NetBackend_proofs` | theorems about `NetBackend`; instantiates `Devd_proofs` | `NetBackend`, TLAPS |
| `WiredDevice_proofs` | theorems about `WiredDevice` | `WiredDevice`, TLAPS |
| `WifiDevice_proofs` | theorems about `WifiDevice` | `WifiDevice`, TLAPS |
| `MangoIpc` | the mango client: watching socket, outputs, tags, commands, and the manager and screens at the other end | implements `RetryLink` |
| `NullspaceIpc` | the nullspace client: socket, lines, spaces, and the manager at the other end | implements `RetryLink` |
| `Oss` | the sound object: rescans and their debounce timer, default device, jacks from boot to log rotation | |
| `OssMixer` | the controls of one mixer: cached levels and mutes against single system calls and other programs | |
| `Forge` | the GitHub and the Codeberg client: login, keychain, refresh, polls, announcements, restarts | |
| `MangoIpc_proofs`, `NullspaceIpc_proofs`, `Oss_proofs`, `Forge_proofs` | theorems about these | TLAPS |
| `MC*` | instances for TLC | |

Names of variables and actions are the source's where it has one (`mFd`,
`mScanPending`, `handleRouteMessage`, `processScanLines`, ...). `PROJECT.json`
maps every definition to its lines. Definitions named `X_Y` after an action `X`
are deliberate mistakes (an omitted check, a swapped order); the properties are
tested against them.

### Devd

`mFd`, `mNotifier`, `mConnected` and `mReconnectTimer` are the members of `Devd`. `openFds`
is the kernel's view of which descriptors it holds, so that a leak is visible.
`connectToDevd` may fail in `socket()` or `connect()` whether or not devd runs.
`onSocketActivated` reads one datagram, or finds the connection closed, or an error of the
read, which may come while the peer is still there; each leads to `onDisconnected`, which
cleans up and then arms the timer. The daemon may start, stop, publish (datagrams are lost
when nobody is connected) and drop a client whose buffer is full. The constructor connects
once: a client that never connected has no timer and is the `idle` phase of `RetryLink`.

### NetBackend

The kernel (`Attach`, `Detach`, `LinkChange`) changes an interface and tells
both the route socket and devd. The backend handles route messages in one read
loop (`reading`: no other callback runs between two messages of it), devd events
one by one, and the startup listing when `ifconfig -l` finishes, whose snapshot
may be old by then. `AddDevice` and `removeInterface` include what the
`deviceAdded` and `deviceRemoved` slots of `Networking` do to the list model,
because they run inside the emit. Device objects are reused after
`deleteLater` has run, as addresses are.

History variables name the races that the code does not close, and the properties
exempt exactly those:

* `ghosts`: interfaces that a listing brought back after their departure had
  been handled (the snapshot was older). They stay listed until they come and go
  again.
* `boot` and a listing that failed: an interface that was there before the
  program is only found by the listing, which is not repeated.
* `devdMissed`: devd could not deliver a notice while an older one about the same
  interface was still queued, or a read error threw queued notices away. The
  backend handles the older word last.
* `contested`: interfaces whose flag is not up to the last `setWifiEnabled` alone. It
  came while an earlier command for the interface was still running, which may finish
  in either order; or one of its processes failed (`IfconfigFails`), which the code does
  not notice as its handler takes no exit code; or somebody else set the flag since
  (`OtherSetsFlag`): the disconnect of a device, the connect and disconnect of a network,
  another program.

Each exemption is needed: TLC finds a violation when any one of them is dropped.

### Sampler, WiredDevice, WifiDevice

`asked` counts the started processes that have not looked at the interface,
`outputs` the results that no `finished` handler has seen, in the order the
kernel was read. `Collect(n)` takes any of them and marks the ones that were read
before it `late`.

A `WiredDevice` refreshes on every interface event and after its `down` process;
what it shows is what the output it collected last says. `tainted` says that this
output had failed or was late.

A `WifiDevice` reads two things from an output, one apart from the other: the access point
it names (`bssid`) and whether its status line says `active` or `associated` (`up`). All
four mixtures are there: the code warns of one itself, connected without an access point
(`backend.cpp:974-978`). The constructor's own `ifconfig` may fail, which reads as neither,
or time out.

A `WifiDevice` has in addition the scan pipeline. `stage[s]` is the step of
pipeline `s`: the query of the association, `ifconfig scan`, the 1500 ms timer,
`ifconfig list scan`, and the walk through the result in chunks of five lines, one
per turn of the event loop. There are as many pipelines as the model is given, so
that one scan at a time is a result and not an assumption. The last chunk starts
the two known-network loaders: a thread that reads the configuration files and a
`wpa_cli` process. Several may run at once, and each marks the networks that
exist when it is done. `connect`, `disconnectNetwork` and `forget` are the
buttons of a network. `commanded` are the networks whose state was last written
by such a command, which the code believes without looking at the interface;
`forgotten` those that were forgotten since the last load.

### MangoIpc

`mSocket`, `mConnected` (the `available` property), `mReconnectTimer` and `mOutputs` are the
members of `Manager`; `active` are the flags of the tags of each output. A local socket that
connects answers inside `connectToServer`, so `connectSocket` contains `onSocketConnected`
or `onSocketErrorOccurred`; only a full backlog leaves it `connecting`. A peer that closes
is an error the code ignores followed by a disconnection; any other error runs both
handlers, which the model has as one action because they run in one callback of the socket.
`setTagsAll` is `setTags(-1)`: it computes one `toggleview` for each tag whose cached flag
is off and sends each on a connection of its own, which is why `cmds` is a bag that the
manager takes from in any order, and why each may be lost alone and without a word:
`errorOccurred` of its socket only deletes it (`CommandFails`). The manager acts on its
focused output whichever was meant, as the dispatch names none. Screens come and go in Qt's
queue (`screenQ`) and on the manager's wire independently.

History: `told` are the outputs whose flags come from a message and not from the
constructor. `goal` are pairs of an output and a tag: the output was asked, on flags that
were fresh, to view every tag, nobody else has interfered since, and the tag's own command was
not lost. An urgent tag counts as not fresh because the code never shows it as active.

### NullspaceIpc

The same link with other handlers (the state of the socket is tested before the
environment variable, and `mReadBuffer` is cleared on connecting). A line travels
as two halves, so that a read may end in the middle of a line and a closing manager
may cut its last one. A tail completes a line only with its own head in front
of it; anything else is a line that the parser does not understand.
`owed` is what the manager has to report: everything after `SUBSCRIBE`, then each
change, and a report says how things stand when it is written.

### Oss and OssMixer

A scan, the boot and a batch of log lines make many system calls without returning
to the event loop. `pc` is where the loop is inside such a chain; other callbacks
wait for `idle` but the kernel moves between any two steps. `Probe` looks at one unit
(`mixer_open` and its line of `/dev/sndstat`, either of which may fail), `ScanEnds`
reads the default and, at boot, goes on to the jacks: the recent log is read,
then its end is sought, then the kqueue is registered. `hpConnected` is the flag
that `Devices.qml` keeps from the `headphonesChanged` signal. At boot it is the state of the
last headphone pin that `sysctl` describes, in the order of a hash (`syncJackProperties`),
whatever the others say.

History: `excused` says that a notice was lost or a look at the system failed
since the last scan began; `lost` are the jacks whose last line was written
where the client does not look (beyond the part read at boot, between reading and
seeking, after a rotation of the log); `mute` those whose kind `sysctl` did not
tell in time. These are the exemptions of the properties, and each stands for something the
code does not recover from.

`OssMixer` goes one level down, because a mute is a read-modify-write: `call` is the
next system call of a control's operation (`writeLevel`, `readMask`, `writeMask`,
`refresh`), and other programs write between any two. `fresh` are the controls last read
or written whole and not changed by others since, `touched` those others changed
since the running operation, or its reading of the mask, began. The levels are
0..`MaxLevel`, and setters are called with values on both sides of that range. A control
that could not be read when it was made keeps its defaults and is not `fresh`. Two
properties step around what the code does: `FreshAgrees` compares right levels only
where the control is stereo and the mixer's right level is not 0 (`setRight` of any other
is cached and not written), and `OtherMutesKept` exempts `touched`, as what another program
does to a mute between the reading and the writing of the mask is lost.

### Forge

One module for `GitHub` and `Codeberg`, as they are built alike; `service` chooses,
and the actions name the differences (validators and their persistence, the end of
a grant on logout, granting anew when there is a refresh token, what a 401
does). `session` are the members about the login, as one record, so that the
handlers that call each other (`setToken` queues a keychain job, `Granted` authenticates,
`onOAuthGranted` polls) compose as operators on it. Keychain jobs run one at a
time in the order they were queued, and each may fail. `log` is the account: the set
of unread threads, version by version, so that an `ETag` is a version. A poll meets
the service when it is sent (`Answer`), its reply may be handled at any later time
in any order, be unreadable, fail, or be a 401. GitHub takes validators from an error as
well (`ErrorHeaders`): those stand for no version of the list. Both tokens have an identity: a
refresh may replace the refresh token too, and each job that writes one carries
the one to write. `stop` is the destructor, `Crash` a
death between two callbacks, `CrashMidReply` one between two notices of a reply.

History: `announced` counts per thread; `torn` says that a reply with a body was not
handled to its end (an unreadable body, or a crash inside); `refused` that a
keychain job failed. Announcing once and the validators are only promised without the
first, the keychain without the second: both exemptions are needed, and what is behind the
first, a body that is lost after its validators were taken and a thread announced
again after a crash, is what the code does and no property catches. `NothingMissed` is about
validators, so it says something of GitHub only; Codeberg has none.

## Runs

| Run | Instance | Shows |
|---|---|---|
| `devd` | 2 kinds of datagram, 3 descriptors, buffer of 2 | resources agree, `RetryLink` with its fairness is implemented, a lost connection comes back |
| `net_track` | 1 interface, 2 objects, devd buffer 2, route buffer 2 (396 thousand states) | rows mirror devices, devices follow the kernel, no link change is forgotten, and an interface that stays (leaves) is eventually tracked (dropped) |
| `net_two` | 2 interfaces, 2 objects, 1 command each, devd notices all lost, route buffer 1, failing processes and other writers of the flag (1.7 million states) | `setWifiEnabled` settles; the listing adds what is missing beside what is there |
| `wifi_scan` | 2 access points, 2 pipelines, chunks of 1, 2 lines, 1 refresh, 2 loaders (3.1 million states) | scan lock, list and map, known networks, settled state |
| `wifi_commands` | 1 access point, 1 pipeline, chunks of 1, 2 lines, 1 of each command, no saved network (970 thousand states) | no spinner without a process; settled state beside commands; scans and disconnects end |
| `wired` | 2 events, 2 refreshes, 2 downs | settled state, Disconnecting ends |
| `mango` | 1 output, 3 tags of which 1 may be urgent, 2 messages on the wire, 3 messages and commands together, 2 screen events (704 thousand states) | the link is implemented and comes back; shown tags; `setTags(-1)` reaches every tag whose command is not lost |
| `nullspace` | 2 spaces, 4 halves of lines on the wire, 2 requests (228 thousand states) | the link is implemented; framing over losses; shown space and urgent flags |
| `oss` | 2 units, 1 jack, 2 unread log lines (565 thousand states) | devices and default settle, a notice leads to a rescan, jacks follow the log |
| `oss_mixer` | 2 controls, levels 0 and 1, settings from -1 to 2 (1.1 million states) | caches are right until others interfere; a mute leaves the other control's alone |
| `oss_headphones` | as `oss` | **violated**: `headphonesConnected` is never updated, see Findings |
| `forge` | 2 threads, 2 access and 2 refresh tokens, 3 versions, 2 replies, 4 keychain jobs (3.9 million states) | the keychain follows the session; each thread is announced once and none is missed |

Why the bounds are enough. Two descriptors show a leak: the second one would be held beside
the first, and a third shows that the next reconnect still works. A devd buffer of 2 lets a
detach overtake an attach on the other channel and reaches the point where devd drops the
client. One interface suffices for tracking because handlers touch only the entry of the
interface they name; two are needed where one callback walks over all of them. Two objects
let an interface be removed and added again before the first object is deleted. Two chunks
put turns of the event loop inside a walk, two pipelines would show a second scan, and two
loaders one that started before the other's networks existed. Commands are absent from
`wifi_scan`; the second access point and the saved networks from `wifi_commands`, to keep
both small; a command touches one network, the walk touches each network on its own, and no
command waits for a loader. Both check `SettledAgrees`: one with a second network that an
output does not name, the other with commands and scans between the outputs. `Dev`, `Bssid`,
`Scan`, `Thread`, `Token` and `RefreshToken` are symmetric sets in the runs without liveness
properties that use them.

Of the window managers' clients one output suffices, because messages and screen events are
handled output by output (a dispatch meant for one output and done on another is exempted by
`goal`); three tags give two toggles beside the tag that is viewed, which can be reordered,
and of which one can be lost while the other arrives; two messages let a read come between
an old report and a new one. Messages and commands share a bound, so that the wire is full
only where no command is under way; one tag that may be urgent leaves the two others for
toggles. Two whole lines on the wire put a cut line behind a whole one; the two spaces are 0
and 1, the one that is current and the one that is marked at the start. Of the sound system
two units show a change before and behind the unit a scan is at; two log lines a batch. One
level above silence is enough because the code only asks whether a level is 0, in range, or
the cached one. Of the forges two threads show a reply with a new thread and an old one, two
replies a newer one handled first, two tokens of each kind a token that replaces another,
and four jobs a logout (which queues two) behind a login (two more) whose jobs have not run.

Runs check for deadlock too: in every state some callback or an environment step
is possible.

## Fairness

Weak fairness of a callback says that the event loop does not leave a pending
signal, readable socket or expired timer alone for ever; weak fairness of a
process says that a started `ifconfig` or thread ends. Both are what Qt and the
operating system provide, as long as no callback blocks. What goes beyond it, or stays
behind it:

* `Devd` assumes strong fairness of a *successful* reconnect: devd may go away
  and come back between two ticks of the 5 s timer, so "a retry is possible" does
  not hold continuously; a daemon that is up again and again is met by a retry at some
  point, and a retry while it listens is not refused for ever.
* `MangoIpc` and `NullspaceIpc` assume the same of their successful reconnects, and
  weak fairness of the handlers of the socket. `RetryLink`, which the three clients
  implement, promises no more than that: `Retried` is strong fairness of `Establish`,
  with its guard in the place of `ENABLED` so that it can be reasoned about.
* `Oss` assumes that a chain of system calls goes on (weak) and that a batch of log
  lines ends: `[]<>(pc # "lines")`, the log is not for ever written faster than it is
  read. Strong fairness of the step that parses the last unread line does not say this:
  such a step is only enabled where one line is left, and a writer who keeps two or more
  unread never leaves one. (With a buffer of two unread lines it is the same, with three
  TLC finds the batch that never ends.) Handling a notice and the expired debounce timer
  get strong fairness: they wait for the event loop to be idle, which other chains
  interrupt again and again, and Qt serves every source in its turn.
* `WifiDevice` states one weak fairness for the steps of all pipelines. As at most one is
  under way (`ScanLock`) this is the fairness of that one. The refresh and the down processes get
  theirs by kind. Nothing is assumed of interface events, of loaders, or of the processes
  of a network's commands, on which neither liveness property depends.
* `NetBackend` assumes that the read loop of the route socket ends, `[]<>(~reading)`: one
  callback handles all that is queued, and the kernel does not for ever announce faster than it
  is read. Handling a devd notice, and starting and finishing the listing, get strong
  fairness, because the loop holds them up again and again.
* Nothing is assumed of users, of the kernel's link changes, of devd or of reconnects
  in `NetBackend`. `Forge` and `OssMixer` state no fairness and no liveness: nothing in
  them promises an end.

## Findings

`oss_headphones`: the property `headphonesConnected` (`oss.hpp:154-155`, "Audio
jack detection", with `NOTIFY headphonesChanged`) is assigned in `initializeJackStates`
only. `identifyJackType` (`oss.cpp:493`) emits `headphonesChanged(connected)` but
leaves the member alone, so who reads the property after the signal reads the state
of the start of the bar. TLC's shortest trace boots with the jack empty, plugs it in
and reads the log. The bar itself is not affected, because `Devices.qml` keeps the
signal's argument; this is what `JacksFollowLog` says of `hpConnected`.

## Theorems

Every proof is for all values of the constants that satisfy the `ASSUME` of the
module, so for any number of descriptors, interfaces, access points, pipelines,
chunks and queued messages. The assumptions say that markers (`NoFd`, `NoDev`,
`NoBssid`, `Error`) are not among the values they mark the absence of, that bounds
are numbers, that a chunk has at least one line, and that the bounds on running refreshes
admit one. No proof uses an upper bound.

**Devd** (`Devd_proofs`). `TypeCorrect`, `ResourcesStayInAgreement`,
`LinkImplemented`. The inductive invariant is `TypeOK /\ ResourcesAgree`. The two
need each other: that no descriptor leaks needs a reconnect to find none open,
which holds because a disconnected client has none, which is the other half of
`ResourcesAgree`. `LinkImplemented` is the step simulation under the mapping
`phase <- up | retrying | idle` and uses that a disconnected client's timer is
never merely stopped.

**NetBackend** (`NetBackend_proofs`). `BackendRunsDevd`: the backend's
behaviours are behaviours of `Devd` (the read loop only delays its callbacks), so
that what is proved of the client holds inside the backend
(`ClientStaysConsistent`, which cites the client's lemmas through an instance of
`Devd_proofs`). `TypeCorrect` and `ListIsDevices`: the invariant is the client's
together with `TrackingInv`, the mirror property over weaker types. The mirror
property is what makes types hold: that `mDevices` never holds a doomed object
needs that no two interfaces share one, and that a free object is shown by no row
and no interface.

`SwitchSettles`: of every interface that the last `setWifiEnabled` was sent to, and
that is not contested, the one command of that call is running and no other, or
the flag is as the property shows. A process that fails, and any other writer of the flag,
contests the interface, as nothing in the code would set it again.

`BackendConverges` and `LinkChangesAreHeard` rest on `WordInv`, which relates both
queues to the kernel, interface by interface. In the route socket, and among devd's
notices unless one was missed, every departure of an interface that is there is
followed by an arrival, and every arrival of one that is gone by a departure
(`RouteTells`, `DevdTells`): the last word is the truth. That alone is not enough,
because the two queues are read independently, so a device may be removed by one and
added back by the other. What is inductive is that while backend and kernel disagree,
a message that sets things right is still queued in one of them (`LeavingIsHeard`,
`ComingIsHeard`, `ChangeIsHeard`), and each time such a message is consumed too early
the last word of the same queue is another one. The interfaces older than the program
are in the listing or the listing is to come (`BootListed`).

**WifiDevice** (`WifiDevice_proofs`). `TypeCorrect`, `OneScanAtATime`, `ListIsMap`,
`KnownIsComing`, `NoOrphanedSpinner`, `SettledDeviceAgrees`. Three of the checked properties
are not inductive, and what they lack is instructive:

* `TypeOK` says that only networks of the map have a state. A finished command
  writes a state, so it also has to be known that only networks of the map have
  commands (`CommandsListed`).
* `ScanLock` needs `QueryOnce`: with two query processes, collecting the first
  would move the pipeline on while the second still runs.
* `KnownPending` accepts `mScanPending` as a reason to expect a loader, but a scan
  whose last step fails clears the lock and starts none. The invariant
  (`LoadIsComing`) only trusts a pipeline that is walking through results, the one
  place from which a loader is certain.

**WiredDevice** (`WiredDevice_proofs`). `TypeCorrect`, `SettledDeviceAgrees`,
`NoOrphanedDisconnect`. `SettledAgrees` speaks of idle states only; its
strengthening `NewestAgrees` says of every state that another sample is to come,
or that the newest output tells the truth, or that it has been collected. In the
last case only older outputs are left, and collecting the last of them taints the
device.

`NoOrphanedDisconnect` (`DisconnectBacked`) is proved and in no run: the run checks
`DisconnectEnds`, which rests on it.

`SettledDeviceAgrees` of the wireless device extends the argument to the scan
pipelines: queries read after the newest refresh must tell the truth as well,
since the chunks write the networks' states from them.

**MangoIpc** (`MangoIpc_proofs`). `OneWayForwardHolds` and `LinkImplemented`: the socket
state, the property and the timer determine each other (a connected or connecting socket has
no timer, an unconnected one has), which is the step simulation of `RetryLink`.
`TypeCorrect` adds that only commands of the two kinds are in flight. `ShownTagsAgree`: the
invariant `Track` says of each of the manager's outputs that the last message about it under
way tells the truth, or that none is under way and what was taken from the last one is still
true. `EveryTagReached`: what is in flight are toggles of tags that are not viewed, at most
one of each, and every tag of the goal is viewed or has its toggle in flight (`Pending`,
`GoalInv`). Each that is taken views a tag, so the case in which the manager refuses to
leave no tag never arises, and one that is lost takes its own tag out of the goal and no
other.

**NullspaceIpc** (`NullspaceIpc_proofs`). `OneWayForwardHolds` and `LinkImplemented` as
above. `LinesStayWhole`: buffer and wire together alternate heads and tails and each
pair is one line (`FrameInv`); what makes it inductive is that their joint length is even
while the peer is open, so that only a closing manager leaves a head alone, and the next
connection starts with both empty. `ShownAgrees`: each topic is owed by the manager, or
the last line about it is right, or no line is under way and the bar shows it.

**Oss** (`Oss_proofs`). `SettledAgreesHolds`: inside a scan nothing is settled, but with no
notice pending the devices listed so far are exactly the mixers passed (`Scanned`),
because a change would have sent a notice. `TypeCorrect` contains that a default device
is always a listed one. `JacksFollow`: a jack's last unread line, or else its cached
state, tells what is plugged, in every step of boot and of a batch (`Followed`); the widget
follows the only headphone jack likewise (`WidgetFollows`).

**Forge** (`Forge_proofs`). `NeverAnnouncedTwice` and `NothingIsMissed`: unless a reply was
torn, the settings on disk name exactly the threads announced, each of them once
(`Remembered`), the object works with what they hold (`Loaded`), and the threads of the
version that a validator stands for are among them (`Stands`). `KeychainFollows`: of the
queued jobs the last one that decides about the token carries the session's, or none decides
and a load is under way, or none decides and the keychain agrees already (`KInv`). The same
of the refresh token, one way only because a grant without one leaves the older where it is:
if the session has one, the last queued job that decides about it writes that very token, or
none decides and it is the one stored (`RInv`). `TypeCorrect` ranges over session, keychain,
settings, requests and replies.

**OssMixer** (last section of `Oss_proofs`, which extends both modules). `MixerTypeCorrect`,
`CacheShowsMixer`, `WriteKeepsOtherMutes`, for any controls and any loudest level.
`FreshAgrees` says nothing while an operation runs; what carries it from one system call
to the next is `MixerInv`: what a refresh has read and what a write has left is still the
mixer's, and so is every other control's bit of the mask that was read, unless another
program touched the control since the call that matters.

### Refinement and liveness

`LinkImplemented` of the three clients is the step simulation of `RetryLink`, and
`LinkInsideBackend` repeats it for the client as the backend runs it.
`FairLinkImplemented` adds the fairness of `RetryLink`: in each client a link that
is to be retried stays so until the timer is served, and an attempt that hangs ends and
arms the timer again. `ConnectsAgain` and `ManagerFoundAgain` are then properties of the
link, proved from what it promises and not from the client once more.

`DisconnectsEnd` of both devices goes through stages, latest first: an output to be
collected, a started refresh, a down process, which a refresh follows. Each stage is left
only for a later one however many other refreshes, scans and commands interleave, and the
fairness of its own step leaves it. `NoticeIsFollowed` of `Oss` shows first that the
event loop comes back to `idle`, or to a scan, from every chain; then a pending notice
sets the timer, and the timer leads to a scan. `ScanComesToResults` takes a pipeline from
its query to the walk through its results; `QueryBacked`, that a pipeline that waits for
its query has one running, is what rules out that it waits for ever. `WalkAdvances` says
of the walk that each turn shortens what is left and that nobody else touches it.

The provers do not look into `ENABLED`. What these theorems need of it is a hypothesis
`[]...Ready` (`RetryReady`, `LinkReady`, `StepsReady`, `RefreshReady`, `ScanReady`): where
the guard that is written out holds, the step can be taken. None says more than that. They
are state predicates, which TLC can evaluate as invariants of the instances of the runs that
have the properties; no configuration here lists them. The guards are the ones of the
actions, so what is assumed is only that no other conjunct of an action blocks it; the
theorems carry the order of events, which is where the properties can fail.

Model-checked only: the end of the walk and with it `ScanEnds` (the length of the list has
to be counted down, an induction over data that the provers cannot do; `WalkAdvances` and
`ScanComesToResults` are its two halves); `Follows` of the backend, where a message has to be
counted to the head of its queue in the same way; and the `Ready` formulas.

## Abstractions

* Outputs are what the parser makes of them: an association, a carrier, an error
  exit. Addresses, names, signal strength and security are left out because no
  state change depends on them.
* A network is known by its BSSID; `Saved` are the BSSIDs whose SSID is in one of
  the configuration files. The files do not change. `wpa_cli` may list the saved
  networks or nothing, and may never finish when it is not installed.
* A started `QProcess` ends. A process that cannot be started at all emits
  `errorOccurred`, which the code does not connect; `mScanPending` would then stay
  set. `PROJECT.json` lists this as a hazard without a property.
* Names that are ignored (`lo`, `pflog`, ...) are filtered where the code filters
  them: in the handlers, and before classification in the listing.
* The route socket is assumed not to overflow, and devd relays a kernel
  announcement at once or not at all.
* The destructors, which run when the program exits, end the behaviours.
* Mango and nullspace: a local socket loses nothing and keeps order while it is open. The
  commands that only send (`setClientTags`, `setLayout`, `dispatch`, and the nullspace
  commands beside `SWITCH_SPACE`) change no state of the bar and are left out; layouts,
  titles and keyboard names are set by the same messages in the same way as the flags.
* OSS: names, modes and the control list of a mixer are constants of its unit. A unit
  that vanishes inside a scan and comes back looks to the scan like one that was always
  or never there. The 100 ms of the debounce timer are not measured: it may expire at any
  time after it was started. A rotated log is never looked at again, as in the code.
* Forge: an access token is the bearer token in use. A reply to a poll is the whole list of
  unread threads: GitHub's poll (`github.cpp:452-458`) asks for no `per_page` and follows no
  `Link`, so an account with more than one page of them sees the first only, and
  `NothingMissed` says nothing of what is on the others. A refresh that fails is seen by the
  client as the login it had or as none. The object goes only by `stop` or a crash, and
  takes its keychain jobs along. Disabling the client (`setEnabled(false)`) and keeping the
  object, with jobs that finish after `oauth2` is gone, is not modelled. The list kept for
  display, the poll interval that the service asks for and the desktop notices are left out;
  marking as read is a request whose refusal is logged.

## Not modelled, and why

* System metrics (`system/`): samples of sysctl, statfs and sensors; each replaces the one
  before, the only state are the previous CPU ticks, and the rest is arithmetic on
  floats, which TLC does not have.
* Lock screen (`components/lockscreen`), notifications, dropdowns and panel
  (`components/bar`): QML over Quickshell's PAM, session lock, notification server and
  windows. The state machines are Quickshell's, whose source is not in this repository;
  what the QML adds is bindings, animations and two timers. `PROJECT.json` keeps the two hazards
  seen there.
* Configuration: a `JsonAdapter` of Quickshell that watches and writes the file.
* Network enums, widgets, dashboard: names and presentation.
* Of the modelled components: a route socket that overflows or cannot be opened, the
  destructors, and the properties of a device that nothing reads back.
* Of the list model the order of the rows, on which no other state depends, and
  `diffUpdate` and `insertObjectSorted`, which nothing calls.

What could come next, in this order: the shared dropdown and its hide timer, with
Quickshell's popup as the environment; `diffUpdate` against a reference over bounded lists,
should it find a caller.
