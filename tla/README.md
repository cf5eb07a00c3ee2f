# RailRoad VPN for Android: a verification project

This directory holds TLA+ models of the VPN control plane of the RailRoad Android client, the TLC
runs that check them and the TLAPS proofs about them. The client is a fork of *OpenVPN for Android*:
a Java service (`src/app/src/main/java/net/rroadvpn/openvpn/core/`) starts the native OpenVPN process
(`src/app/src/main/cpp/openvpn/`), talks to it over its management socket, and decides from the
network, the screen and the user's wish when it may run. Around it stand the RailRoad activities and
the client of the RailRoad REST service. Paths below are relative to
`src/app/src/main/java/net/rroadvpn/` unless they start with `src/`.

## 1. Inventory

| component | state | operations | properties that make it correct |
|---|---|---|---|
| **Device state receiver** (`openvpn/core/DeviceStateReceiver.java`) | `network`, `screen`, `userpause` (each SHOULDBECONNECTED, PENDINGDISCONNECT or DISCONNECTED), `lastConnectedNetwork`, the posted `mDelayDisconnectRunnable` | `networkStateChange`, screen on and off in `onReceive`, `userPause`, `updateByteCount`, `shouldBeConnected`, `getPauseReason` | a pause the user asked for is kept; a lost network pauses after its grace period; the reason shown is the reason |
| **Management interface** (`openvpn/core/OpenVpnManagementThread.java`) | `mWaitingForRelease`, `lastPauseReason`, the posted `mResumeHoldRunnable`, `active`, the socket, `mFDList` | the read loop and `processCommand`, `handleHold`, `pause`, `resume`, `networkChange`, `stopVPN`, `processNeedCommand`, `processProxyCMD`, `processPWCommand` | every hold is answered if the VPN is wanted; none is released if it is not |
| **OpenVPN process** (`src/app/src/main/cpp/openvpn/src/openvpn/manage.c`, `init.c`) | in a hold or running, `hold_release` | `man_hold`, `man_signal`, `man_network_change`, `management_hold`, restart | (the environment of the two above) |
| **VPN service** (`openvpn/core/OpenVPNService.java`, `OpenVPNThread.java`, `VPNLaunchHelper.java`) | `mProcessThread`, `mManagement`, `mOpenVPNThread`, `mDeviceStateReceiver`, `mStarting`, `mProfile` | `onStartCommand`, `startOpenVPN`, `stopOldOpenVPNProcess`, `endVpnService`, `onRevoke`, `onDestroy`; tunnel: `addRoute`, `addDNS`, `openTun`, `getTunReopenStatus` | at most one process; a new session is not torn down by the end of an old one |
| **VPN status hub** (`openvpn/core/VpnStatus.java`) | log buffer, listeners, last level and state, connected profile | `updateStateString`, `updateStatePause`, `addStateListener`, `updateByteCount` | a listener ends with the last state; the buffer is bounded |
| **Status relay** (`openvpn/core/OpenVPNStatusService.java`, `StatusListener.java`) | remote callbacks, the copy of the hub in the UI process | `registerStatusCallback`, `updateState`, `newLog`, `updateByteCount` | the UI's copy catches up with the service's hub |
| **Log cache** (`LogFileHandler.java`) | the file, the queue of its thread, what has been read back | `readLogCache`, `openLogFile`, write, flush, trim | no line that was sent to it is forgotten; what its reader accepts covers what is written |
| **Traffic history** (`TrafficHistory.java`) | second, minute and hour lists | `add`, `removeAndAverage` | - |
| **Routes** (`NetworkSpace.java`, `CIDRIP.java`) | the networks included and excluded | `addIP`, `generateIPList`, `split`, `getPositiveIPList` | the loop ends; no overlaps; an address is routed iff the most specific network says so |
| **Profile manager** (`ProfileManager.java`, `VpnProfile.java`) | profiles, `mLastConnectedVpn`, the profile files | load, save, `get` with a version and a retry | a starter gets the version it asked for |
| **Configuration parser** (`ConfigParser.java`, `Connection.java`) | parsed options | parse, convert | data transformation |
| **Orbot and proxies** (`OrbotHelper.java`, `ProxyDetection.java`) | callbacks, last intent | `addStatusCallback`, status broadcast, time-out | one proxy answer per question |
| **Credentials, native helpers** (`PasswordCache.java` and others) | passwords by UUID | get, set | - |
| **Connection records** (`services/UserVPNPolicy.java`, `activities/VPNActivity.java`) | `CONNECTION_UUID` and `SERVER_UUID` in the preferences, `WAS_CONNECTED` and the retry count in the activity, the queued AsyncTasks | `onConnect`, `onDisconnect`, `onChangeStatus`, `connectToVPN`, `logoutUser`, `afterConnectedToVPN`, `afterDisconnectVPN`, `updateConnection` | one record per session; updates reach it; it is not closed while the session is up, and closed when it is over |
| **REST client**, **activities**, **pin entry**, **boot receiver and preferences** | thin wrappers and views | - | - |
| **Vendored code** | OpenVPN 2 and 3, OpenSSL, LZO, SpongyCastle | - | - |

Interaction. Main looper jobs (broadcasts, `onStartCommand`, posted runnables) call the management
object directly; the management thread reads the socket, calls back into the receiver
(`shouldBeRunning`, `updateByteCount`) and into the hub; the socket connects it to the process; the
process thread waits for the process to exit and ends the service; the hub calls its listeners, one of
which relays to the UI process, and sends each log line to the thread of the cache. Before the process has a
tunnel it asks the management thread query by query for the parts of it; the answers are collected in fields
of the service until `openTun` hands them to Android. `synchronized` protects only the register and unregister pair, the list
of active management threads, the process thread field and the hub; the fields of the receiver and of
the management object are not protected.

Hard behaviour: the two threads and the process race on the hold; both sides of the socket send before
they have read the other's message; timers outlive the state they were posted for; an old session's end
overlaps with the start of the next; background tasks use preferences that the next connection overwrites, and a
request may take effect although it failed; a set-up of the tunnel may end between any two of its queries and
leave its fields behind; a client registers while lines and states are being handled; the cache's thread lags
behind those that log, and its file is cut off wherever the process dies. PROJECT.json lists every such place under `hazards`, by line.

## 2. The modules

**`DeviceStateReceiver`** has one action per handler of the receiver. `SameNetworkBack`,
`NetworkConnected` and `NetworkLost` are the branches of `networkStateChange`. A handler changes the
fields and ends with at most one call of the management object; the action leaves that call in
`mainCall`. `timers` counts the posted `mDelayDisconnectRunnable`s: a second loss of the network posts a
second one, `removeCallbacks` drops all.

**`ManagementHold`** has the operations of the management thread around a hold. `toProcess` and
`toManagement` are the two directions of the socket, FIFO. `mgmtStep` is where the management thread is:
`handleHold` sets the flag (`HoldReceived`), asks the pause callback (`HoldChecked`) and then reacts
(`HoldScheduled`, `HoldPaused`); `updateByteCount` reads `screen` (`ByteCountReceived`), assigns it
(`ByteCountPause`) and calls `pause` (`ManagementThreadPause`).

**`PauseResume`** composes both with the process. A main-looper job is a first step (guarded by
`MainJob`: one job at a time) and `ManagementCall`, the call in `mainCall`, between which the management
thread and the process may step. The process is reduced to `hold` or `running`. `ProcessReads` is one `recv()`
of `man_read`: it takes any part of what has been sent, and all of it is dispatched before the process looks
at the outcome. A held process (`HoldingReads`) announces its hold again for each SIGUSR1, also for one read
together with the release, which is then ignored (`man_signal` and `management_hold`, `manage.c`), and runs if a
`hold release` was among the commands. A running one (`RunningReads`) goes into a hold for a SIGUSR1 and,
when its socket cannot be protected again, for a `network-change`; it restarts by itself when the connection is
lost. The hold is entered only through `management_hold`, which clears `hold_release` before it announces
the hold, and commands are read only inside its loop, so no window exists between the two. `overtaken` is
history: a process has left a hold that the app took, or was still to take, for a waiting one (`Overtakes`),
and since then the app has not released a hold with every announcement read.

**`SessionLifecycle`** is the start and end of sessions in `OpenVPNService`. A session is a start
command; it has a starter (the thread that runs `startOpenVPN`), a process thread (`OpenVPNThread.run`),
a process and a management thread. `starter`, `thread` and `looper` say where each is; the steps of
`endVpnService` are shared by all three, since the main looper (`onRevoke`), a starter (a failed start)
and a process thread (`openvpnStopped`) may be in it at once. The shared fields keep their names; null is
`NoSession`. `replaced` is the set of threads with `mNoProcessExitStatus`. `registered` is what Android
knows of receivers, `drives` the management object each was made for. A process connects to whichever
management thread's socket is on the path, so with overlapping starts it may meet another session's;
`stopOpenVPN` walks `active`. `startRequested` and `destroyed` are Android's view of the service:
`stopSelf` withdraws the request, and a service that nobody wants started may be destroyed at any time
(bound clients delay that). One instance of the service is modelled, up to and after `onDestroy`; its threads
go on. `MCSessionLifecycle` adds the symmetry of the sessions for TLC.

**`ConnectionRecord`** is the bookkeeping of connections with the RailRoad service. It spans two processes and
the server:

- *Service process*: which session is up, whose process has still to exit, and the status messages it sends.
  `SessionLifecycle` is reduced to `session` and `exiting`. The messages go through one `Handler` and a one-way
  AIDL call, so `reports` is FIFO. The process may be killed (`ServiceProcessDies`) and is created again for
  the client bound to it, with the state NOPROCESS; `unsent` are the messages in its handler until that client has registered
  (`ServiceConnected`), which is sent the last state first. A service that was started is started again
  with a null intent (`sticky`, `StickyStart`): the profile connected last is connected again without a task and
  without a preference being written. The start at boot with the always-on profile is left out.
- *Hub thread of the UI process*: `updateStateString` and `updateByteCount` hold the lock of `VpnStatus` while the
  listener runs, so the request of `onConnect` keeps the hub busy: `posting` is that request, and everything else
  that needs the lock waits for `HubFree`. `onConnect` also has the branch in which taking the second field of the
  message fails, which happens with an IPv6 address: nothing is created and `WAS_CONNECTED` stays as it was.
- *UI thread*: clicks, the retry after too many CONNECTRETRYs, log-out, a new activity, a new process. Each
  activity has its own `wasConnected`; the hub calls the listener of the last.
- *AsyncTasks*: `tasks` is the queue of the serial executor, `running` the task it is in. A task reads the
  preferences when it runs. A cancelled task stays in the queue and is skipped. The order of the tasks is what
  the properties rest on: the close of one record is queued before the next start.
- *Server*: `recordState`, `recordOf`, `recordServer`. A request is done, refused, or done without an answer.

The server picked for a start also names the session. `misdirected` and `disturbed` are history: the records of
which an update reached the wrong one, and what has happened that the properties except. A start is an
`overlap` when it is asked for while an earlier session has not been reported as over everywhere or another
start is under way (`Quiet`). `MCConnectionRecord` adds the constraints for TLC:
`OverlapNotTaken` stops there, except that an overlapping start which is all that is queued may still be cancelled;
`RestartUndivided` stops where nothing is claimed any more after a restart of the service; `OneRestart` allows one such restart.

**`NetworkSpace`** is the route computation: networks (first address, mask, type) over addresses of `Width` bits,
and `generateIPList` with a step per iteration and an action per branch. The priority queue is a bag: `poll`
takes any of several equal networks, since Java leaves open which. A network made from an address starts at its block
(`NetworkOf`, the `normalise` of `addRoute`). A single address that is split gets the mask
`Width + 1`, as in the code.

**`TunnelSetup`** is the set-up of the tunnel device. The process asks a query at a time (IFCONFIG, ROUTE, DNSSERVER,
DNSDOMAIN, PERSIST_TUN_ACTION, OPENTUN: `Script`, the order of `do_open_tun`) and waits for each answer; `sent` and
`handled` count them on the two sides. The management thread collects them in `mLocalIP`, `mDnslist`, `mRoutes` and
`mDomain`. `openTun` is `OpenTunBegins` (local networks are excluded), the loop of `NetworkSpace`, and `OpenTunEnds`
(`establish()` gives a device or not; fields cleared). A signal ends the wait for the present answer and for all
that follow, so that the process dies at PERSIST_TUN_ACTION or OPENTUN (`InterruptedSetup`), while what it had sent is still
handled. `SIGUSR1` keeps the device only with persist-tun; NOACTION then keeps it for the new reply. The service may
be created again when no process runs, or live on with the fields it has.

**`AtomicSetup`** is what that promises: set-up as one step, after which the process has a tunnel that provides all
the reply asks for, or is gone. `TunnelSetup` is shown to implement it (`ImplementsAtomicSetup`), the device being the
configuration of the device the process holds.

**`StatusRelay`** is the way of the status and the log to the UI process: `VpnStatus` and `OpenVPNStatusService` there,
`registerStatusCallback` on its binder thread in the order of its statements, the messages of `mHandler`, the pipe and the
thread that fills it, and a client with its own `VpnStatus`. `missed` are the lines the handler told nobody between the
copy of the log and the registration; `astray` is set when an update may have been lost the same way, or the process of
the service is a new one, and reset by an update the client cannot ignore. The client also writes its `VpnStatus` itself: a
click shows USER_VPN_PERMISSION (`vpnPreparePermissionIntent`) and queues a task, as `connectAgain` does after too many retries; the
task may fail and show NOPROCESS (`ConnectFails`), or clear the log before it starts the service (`prepareToConnectVPN`). The lines
cleared count as `missed`, and a state written after the last update was received (`HeardAll`) sets `astray`.
`MCStatusRelay` bounds lines and updates together.

**`LogCache`** is the hub's log buffer and the file its handler thread keeps. A message's handling is several steps, between
which other threads log and trim. What a failed or cut-off write leaves is an item `NoLength` or `CutOff`, which the
reader of the next process skips, with what they swallow; but the last item of the file, filled up with what `read()` returns at
the end, may be accepted and restored as a line nobody logged (`Corrupted`). `restoredTo` separates the lines of this process from
restored ones; `uncached` are the lines logged before LOG_INIT was sent or ignored because the file is not open, and those whose
write failed.

The modules ending in **`_proofs`** hold the theorems about the module they are named after and their proofs
(`TunnelRoutes_proofs` those about the routes of `TunnelSetup`, which rest on `NetworkSpace_proofs`); those
starting with **`MC`** the sets, symmetry and constraints with which TLC checks it.

Abstractions and assumptions, all of them on the data or the environment:

- Steps are sequentially consistent, although the fields are not volatile.
- `releaseHoldCmd` is one step. The code may sleep up to 3 s on the main looper between removing the
  posted resume and clearing the flag; meanwhile only the management thread can step, and each of its steps has the
  outcome it would have before or after the release.
- `UserPauses` and `UserResumes` are the PAUSE_VPN and RESUME_VPN intents of `onStartCommand`, handled on
  the main looper. The notification's buttons for them are commented out in this fork; the intents
  remain. The binder's `userPause` has no caller in the repository.
  `RepeatedResume` says whether RESUME_VPN may be delivered when no pause is in force.
- STATE stands for any progress report after a release. The commands "bytecount" and "state" are left
  out: they change nothing here. Whether a scheduled release waits (`waittime > 1`) is a choice.
- `PauseResume` has one session; starts and ends are `SessionLifecycle`'s subject. A signal it sends while a tunnel is
  being set up is fatal to the process (`TunnelSetup`); in `PauseResume` it restarts it.
- `SessionLifecycle` has no time: the waits of a second in `stopOldOpenVPNProcess` and
  `forceStopOpenVpnProcess` guarantee nothing, and the interrupt of the old thread can only make its process
  exit, which it may do at any time. `mNotificationAlwaysVisible` is false (nothing in the repository sets
  its extra), OpenVPN 3 is not built, the commands PAUSE_VPN, RESUME_VPN and START_SERVICE(_STICKY), which
  `onStartCommand` returns from early and which leave a started service with no session, have no sender in the repository, and the retry without PIE in `OpenVPNThread.run` is dead code
  (`replacePieWithNoPie` returns the array it is compared with). Null dereferences between a check and a
  use are listed as hazards and not modelled.
- In `ConnectionRecord` a start is one step from the task's end to the service's first report. Where Android asks for
  the permission, the user grants it at once. An answer of the server is taken as well-formed; HTTP time-outs (5 s)
  are failures, before or after the request took effect. The periodic check of the device can only stop the VPN, which may
  stop at any time.
- `TunnelSetup` has IPv4 only, one MTU, and whether a pushed route is included is part of the reply. It asks whether the
  process and the service agree on a tunnel, not whether Android routes as told. Two limits: on Samsung devices `openTun` adds the
  first DNS server as a route of its own where no route contains it (`OpenVPNService.java:774-794`), which is left out; and `Quiet`, that the old
  management thread has read all its process sent before a new process starts, is what the code waits for with sleeps only.
- In `StatusRelay` lines are a set on the client's side: their order there, trimming, the lines the client logs itself, byte counts, further
  clients, the last connected profile and the password calls are left out. The handler's list and the one-way calls are FIFO.
- In `LogCache` an item is a line or broken; with the escaping a magic byte marks nothing but a beginning (a length that contains it aside), so a reader
  in step stays in step. The log messages the reader itself writes, a `truncate` that fails, and `clearLog` (only the client calls it, `StatusRelay`) are left out.

## 3. The runs

The runs of `PauseResume` use the networks `wifi` and `mobile`: two are enough for "the same", "another" and "none", and
the code compares with the last one only. `MaxTimers = 2` allows the second loss of the network that
restarts a grace period. `MaxCommands` (2, and 3 in `screenoff`) bounds commands in flight: it guards what
the device and user do and the byte reports, never a step of the system, so it drops bursts and
nothing else. Two commands are enough for a release and a signal to cross a HOLD, or to be in one read.
`MaxMessages = 2` holds a report and a HOLD. `defaults` has 535,831 states, `screenoff` 1,358,627.

| run | preferences | result |
|---|---|---|
| `defaults` | as installed: `screenoff` off, `netchangereconnect` on | `TypeOK`, `NoLostHold`, `RunsWhenWanted`, `PausedWithoutNetwork`, `ReleaseAllowed`, `EventuallyRuns` hold |
| `screenoff` | `screenoff` on, `netchangereconnect` off | `PausedForUser`, `UserPauseKept` hold |
| `flap` | as installed | `UserPauseKept` violated: the user pauses, the network goes and comes back within 20 s, and `networkChange(true)` releases the hold |
| `screenrace` | `screenoff` on | `ScreenPauseOnlyWhenOff` violated: `updateByteCount` checks `screen` and assigns it without a lock, the screen comes on in between |

`PausedWithoutNetwork` and `PausedForUser` say that the *process* waits in a hold, and except what `overtaken` records. The
exception is real. A held process that is told SIGUSR1 announces its hold a second time; a release that it reads before the
app has read that announcement starts it, and the announcement then raises `mWaitingForRelease` for a process that
runs. The same follows from a release and a SIGUSR1 in one read. A pause of the user or of the lost network then finds the flag set,
sends no SIGUSR1, and the VPN runs on although it is shown as paused ("VPN pause requested by user",
`strings.xml` `state_userpause`). Without `~overtaken` TLC finds both properties violated. `overtaken` ends with
the next release that no unread announcement accompanies.

`RepeatedResume` is FALSE in all of them. With TRUE, TLC finds `RunsWhenWanted` violated: `userPause(false)` in the wanted state
falls into `pause(getPauseReason())`, which removes the posted resume of a hold. Nothing in the repository says
whether such a resume is to be expected, so it is a remark and not a run.

`SessionLifecycle` is checked with two sessions (724,486 states), enough for a start that overlaps with the end of
another session or with another start. Three sessions exceed 25 million states; the theorems hold for
any number. The system stops when all start commands are used up, so its runs do not check for deadlock.

| run | result |
|---|---|
| `sessions` | `TypeOK`, `OneReceiver`, `ReceiverDrivesCurrent`, `StopReaches`, `IdleServiceStops` hold |
| `starting` | `StartKeepsService` violated: `mStarting` is reset before the new session exists, and by any other start; the end of another session's process then stops the service |

`ReceiverDrivesCurrent` and `OneReceiver` matter because two starts interleave freely: the register job
reads `mManagement` when it runs, which makes the last job right whatever the order. `IdleServiceStops` is
the counterpart of `starting`: the flag suppresses too little, but never so much that a service stays
started with nothing in it.

`ConnectionRecord` is checked with two sessions, one record for each and one to spare, one new activity or
UI process and one restart of the service's process (4,757,420 states): two sessions are enough for the close of one to meet the create of the next, the
spare record for a request that took effect without an answer. `MaxReports = 2` and `MaxTasks = 2` bound
what the service sends ahead of the hub and what the user queues ahead of the executor; a close task that the
hub queues is not bounded. The system may stop when all sessions are used.

| run | result |
|---|---|
| `records` | `TypeOK`, `LiveRecordStaysOpen`, `OneRecordPerSession`, `UpdatesReachTheirRecord`, `IdleRecordsClosed` hold |
| `recreated` | `ReconnectCreatesNoRecord` violated: `WAS_CONNECTED` is a field of the activity, and a new activity takes the next report of the connection for a new connection |

Each of the four says what is excepted: overlapping starts always; a restart of the service for `LiveRecordStaysOpen`; a new
activity for `OneRecordPerSession`, as the run `recreated` shows, and "lag", that a client is told CONNECTED first and then
an older NOPROCESS; and any disturbance for the last two. The exceptions are real: after a restart of the service
the NOPROCESS of its new process queues the close, and the session started by the null intent may be connected, and its
record stored, before the close task reads the preference, which closes the live record; a
close request that fails leaves its record open for good, a log-out clears `CONNECTION_UUID` before the close task
reads it, and a retry queues its start before the old session has ended, so that the close task finds the
server, or even the record, of the new session. No text of the repository promises otherwise, so these are
listed as hazards and not stated as runs.

`TunnelSetup` is checked with addresses of three bits: every choice of up to two included networks and one excluded one of all
prefixes, as the routes of one reply, and all sequences of three replies out of five that differ in every part
(one without an address, one with an address Android refuses), with and without local networks (195,890
states). Three replies in a row are enough for a device that is kept, then not, by a process whose fields hold leavings.

| run | result |
|---|---|
| `tunnel` | `TypeOK`, `ExactWhenFresh`, `NothingRequestedMissing`, `KeptTunIsCurrent`, `RoutesDisjoint`, `RoutesMostSpecific`, `ImplementsAtomicSetup`, `SetupEnds` hold |
| `stale` | `TunnelAsRequested` violated: a set-up ends after IFCONFIG, the next process in the same service adds its reply to what is there, and its tunnel has a route its reply does not ask for |

`ExactWhenFresh` is what remains of `TunnelAsRequested`: exactly the reply, if the fields were empty when the set-up began.
`NothingRequestedMissing` holds always: leavings add, they take nothing away except that the first domain stays.

`RoutesMostSpecific` is restricted to configurations with at most one excluded network and no included network within it.
Beyond that `generateIPList` is not exact: of the nets 0/0 included, 4/1 excluded and 4/2 included (three bits), the
intermediate one makes the loop drop a more specific one; `networks.add(newNets[1])` in the last branch does not ask whether
the network is there already; a single address that is split becomes two of mask 33; and the debug assertions of
the loop may then fail. What it returns never overlaps (`RoutesDisjoint`, unrestricted over the replies of the run) and
the loop ends. On Samsung devices a DNS server outside the routes is routed beyond what the property says (see section 2).

`StatusRelay` is checked with the states WAIT (which the workaround ignores) and CONNECTED, two lines and two updates, three of the
four in one behaviour, one crash and one click or retry (1,675,435 states): one line or update may be handled before the copy, in the gap, or after
the registration, beside another one, and before or after what the client writes. `LogCache` is checked with `MAXLOGENTRIES = 2`, seven lines, two crashes, two failures and a flush (1,963,525 states): trims
happen at the fourth line and every second one after it, so that two trims may be queued while the thread lags, and a
third process reads what two have left. The longest file that occurs has 5 items, the most `FileWithinReaderLimit` allows.
Both systems may stop when the bounds are used up.

| run | result |
|---|---|
| `relay` | `TypeOK`, `LinesLostOnlyInGap`, `AgreesWhenSettled`, `EventuallyUpToDate` hold |
| `cache` | `TypeOK`, `CacheKeepsUp`, `FileWithinReaderLimit`, `InOrderWhenSettled`, `CacheCatchesUp` hold |

What the properties of these two except is real: lines and states handled in the gap are lost to the client for good; a client that fails to
connect, or is refused, after the service's last update shows its own NOPROCESS or USER_VPN_PERMISSION until the service has something new to
report; a line cut off by a crash may come back corrupted; lines of earlier
processes are lost by two crashes in a row, come back in reverse order, and may push the newest out of the buffer; lines logged
before LOG_INIT are never cached. No text of the repository promises otherwise.

The five violations are in `findings` with the comment or text they disagree with. Every property of a
passing run has a mutant: a faulty variant of one action, defined beside it, that TLC must reject.

**Fairness.** The two threads and the process are weakly fair: Android runs a runnable thread.
`ManagementCall`, `CreateReceiver` and `RegisterReceiver` belong to a running or posted job.
`ResumeTimerFires` is strongly fair: the looper's queue is ordered by time, so a message whose time has
come is not overtaken forever by later ones although each later job disables it for a while. The device,
the user and the remote server owe nothing: `EventuallyRuns` is conditioned on the receiver wanting the VPN.
In `TunnelSetup` the process goes on with its queries (`SetupStep`) and the management thread with its answers; signals, exits and
new replies are owed by nobody. In `StatusRelay` each thread is weakly fair: binder, handler, `pushLogs`, the client's main
thread and its callbacks, and `onCreate`, which the binding asks for. That the log cache gets read (`LogCacheRead`, for which `pushLogs`
waits) is assumed there and shown in `LogCache` as part of `CacheCatchesUp`, from the fairness of the main thread that
calls `initLogCache` and of the handler's thread. Nobody is obliged to log or report.

## 4. The proofs

`tlapm PauseResume_proofs.tla` proves, for any set of networks, both preferences and any bounds:

- `TypeCorrect`: `Spec => []TypeOK`.
- `HoldNeverLost`: `Spec => []NoLostHold`. Inductive with `TypeOK`: a process enters a hold only with a HOLD in flight; the
  step that consumes that HOLD raises the flag; the step that lowers the flag sends a release; and
  a read that has a release in it ends the hold. `ReadSays` is what a read adds to the messages.
- `ReleasesAreAllowed`: `Spec => ReleaseAllowed`. It rests on `CallAllowed`: between the two steps of a
  main-looper job, the call it ends with is still justified by `userpause` and `network`, because only
  main-looper jobs change these two. (`screen` is the exception, changed by `updateByteCount`, and the
  screen is therefore not part of the property.)
- `NetworkPauseHolds`: `Spec => []PausedWithoutNetwork`. The strengthening follows the pause of the lost
  network through its life: due in `mainCall`, SIGUSR1 on the way, HOLD on the way, or the flag; `Held` is that
  disjunction, `HeldStep` shows that only a release ends it. When all has settled that leaves the flag; `Coherent` says that
  unless a release has overtaken an announcement a running process has neither the flag up nor a HOLD on the way, so that the
  process is in a hold (`SettledHeld`).
- `UserPauseIsKept`, `UserPauseHolds`: the same for `userpause`, under `~NetChangeReconnect`. The run `flap` shows why
  the assumption is needed: `NoGracePeriod` (the network is never pending) is the lemma that uses it.
- `WantedProcessRuns`: `[]RunsWhenWanted`, under `~RepeatedResume`. `ReleaseToCome` says that a process known to wait while
  it is wanted is about to be released: by the call of a main-looper job, by the hold being handled, or by a posted resume
  with the management thread between messages. The last clause matters: a pause of `updateByteCount` under way would remove
  the posted resume. `PausesUnwanted` (a pause call is due only while the receiver wants no VPN) is what a repeated
  RESUME_VPN breaks; `Unregistered` says that nothing is wanted before the receiver has seen a network.

`tlapm SessionLifecycle_proofs.tla` proves for any set of sessions:

- `TypeCorrect`, and `OneReceiverRegistered` (`[]OneReceiver`), which is inductive.
- `ReceiverIsCurrent`: `[]ReceiverDrivesCurrent`, inductive with `TypeOK`: a starter that changes `mManagement` is
  `Registering` until its job has run.
- `StopsReachAll`: `[]StopReaches`. `SocketInv` adds that the thread whose socket is on the path is listed and
  waiting, and that a management thread begins only once.
- `IdleServiceIsStopped`: `[]IdleServiceStops`. `DutyInv` says that a started service always has a session on
  `Duty`: its starter is on the way to a process or its thread is running or ending, and it has not been silenced.
  Duty is handed on: a starter that silences a thread cannot be silenced yet (it has not created its own), and an
  end that finds `mStarting` set finds another starter on the way.

`tlapm ConnectionRecord_proofs.tla` proves, for any sessions, records and bounds:

- `TypeCorrect`, also when starts overlap.
- `LiveRecordNotClosed`: `[]LiveRecordStaysOpen`, unless starts overlap or the service's process is started again. The property is not
  inductive: it needs that a start is the last thing under way. `StartsAlone` says that while a start is queued or runs nothing is up, exiting or
  reported and the hub is free; `StartIsLast` that no other start and no close comes after it in the queue; `EndMeansOver` that
  whatever leads to a close is there only when no session is up, which a service started by the null intent breaks; `ChosenIsNew`
  that a start picks a session no record is of, which rests on `SeenUsed`. The lemmas on `Tail`, `Append` and `Cancelled` say what the queue
  operations keep. None of it depends on the outcome of a request, which is why the theorem holds with failures.
- `SessionHasOneRecord`: `[]OneRecordPerSession`, with failures, log-outs and any number of restarts of the service's process. `Apart` is what is
  left of the order of starts: one session up or exiting (`OneUp`), one start under way (`OneStart`), and while it is no connection is
  reported (`StartsUntold`). `Remembered` says that WAS_CONNECTED is set as long as a session that has a record is up or may still be reported
  as connected; `EndsPart` that an end in a queue of reports parts the sessions: none that is recorded, or reported before it, is
  up or reported after it, so that what resets WAS_CONNECTED does so for sessions that will not be told of again; `UnsentNew` the same of the
  messages of a process no client has registered with; `PostingNew` that the request under way is about a session
  without a record; `UuidsCreated` that only records there are get closed.
- `RequestsReachTheirRecord` and `NoRecordLeftOpen`: `[]UpdatesReachTheirRecord` and `[]IdleRecordsClosed`, both from `Ledger`, which
  holds while nothing disturbs: all that is reported, posted or stored belongs to the server stored last (`OfTheServer`);
  the open record is the stored one, and so is the one a close is about (`StoredIsOpen`); a stored UUID has its close
  ahead (`ClosePending`); a connection that is told of or remembered has its end ahead (`EndToCome`); and while it is told of
  no close is under way (`ClosesLater`); no report of a connection follows one of an end (`EndIsLast`). A server is chosen only when nothing is up or reported, and by these there
  is then nothing stored.

`tlapm TunnelSetup_proofs.tla` proves for any addresses, replies, local networks, refusals and width:

- `ConnectedProvides`: `[]NothingRequestedMissing`. `IInv` is the conjunction of `Typed`, `Counted` (the answers match the
  queries), `OpeningLast` (`openTun` runs only for the last query), `Collected` (the fields hold all that the queries handled
  have asked for) and `Held` (what each kind of answer, device and last configuration says about the fields). `Provided` follows with it.
  The lemma `ScriptFacts` says at which positions of the script which queries are.
- `NoActionIsCurrent`: `[]KeptTunIsCurrent`, a part of `Held`.
- `SetupIsAtomic`: `Spec => ImplementsAtomicSetup`, the refinement. `NextAtomic` maps the step that ends a set-up to `Up` or `Fail`,
  and every query and answer to a stutter.
- `FreshSetupIsExact`: `[]ExactWhenFresh`, from `FreshInv`: the fields hold nothing but what was asked for, plus the local networks
  once `openTun` has begun.

`tlapm StatusRelay_proofs.tla` proves for any states and bounds `RelayTypes` (`[]TypeOK`, from `Typed` and `Places`) and
`OnlyGapLosesLines` (`[]LinesLostOnlyInGap`). That is not inductive: `Covered` speaks of a client from its copy of the log on, before it
is registered, and `Listening` says that a client registers only with a service that listens, so that a line logged
is posted; what the client clears it had. `ClientAgrees` (`[]AgreesWhenSettled`) is the subtler one, because the last update is sent ahead of older ones still in the
handler's queue and because the client's `VpnStatus` ignores WAIT and AUTH while it is connected. `Follows` says that the last
update in the queue is the service's state, `First` and `Once` that a client hears nothing before its registration and
registers once with a process; `OnTrack` says what is then true from the last update sent on: with no update queued,
the calls end with the service's state or have been handled; and if that state is one the client may ignore, each
CONNECTED among the updates is followed by one that the client does not ignore. What the client writes itself leaves this true only
while an update is still to come (`OnTrackOwn`); otherwise it goes `astray`.

`tlapm LogCache_proofs.tla` proves for any `MAXLOGENTRIES` and bounds `CacheTypes` (`[]TypeOK`: what is restored was logged, or is `Corrupted`) and `NoLineForgotten` (`[]CacheKeepsUp`). It
needs `Opening` (one LOG_INIT at most, the file is not open before it, something is to be written only while the thread
writes) and `OldLines` (before it is open the file has only lines of earlier processes, so that emptying it takes none of
this one's). `ReaderLimitHolds` (`[]FileWithinReaderLimit`) is about how far the thread may lag: trims of the buffer are queued as
TRIM_LOG_FILE behind the lines that made it too long. `Batch` is the set of lines sent between a place in the queue and the next trim; `MarkersFit` bounds
the batch behind each trim and behind LOG_INIT, `FrontFits` the one that the thread is about to write, less what is on disk already, by what the
buffer has room for: a batch that a trim ends is complete, the last one grows with the buffer (`Within`). `SettledInOrder`
(`[]InOrderWhenSettled`): a trim that the thread reaches late copies the buffer, with lines whose messages are still queued and are then
written again, so that lines repeat and are out of order for a while. `InOrder` says that buffer and `toWrite` are sorted
(`Sorted`), that a line behind the last trim is in the buffer (`UntrimmedIn`), and that with no trim queued each line of the file comes
after all older lines this process still knows of (`Ordered`, from `FirstInOrder`).

`tlapm NetworkSpace_proofs.tla` proves about the loop of `generateIPList`, for addresses of any width:

- the laws of powers of two (`PowerFacts`, `PowerProduct`, `PowerFactor`). `PowerOfTwo` is a recursive function; that one with its equation
  exists is an induction over the numbers, carried out on sets instead of operators (`AllNumbers`): the library has that `<` is
  well-founded and that a set has a least element. `Nested`: two aligned networks that overlap are one within the other. `QueueOfSet`,
  `AddedSet`, `RemovedSet` say what the bag of the queue keeps.
- `LoopInv` (`StartsSound`, `LoopStep`): all networks are aligned to their masks (`SpaceTyped`), and what is done is apart and ends before the
  current network begins, which is not behind any in the queue (`DoneApart`). It takes no assumption on what is excluded.
- `Carving` (`StartsCarving`, `CarvingStep`), if at most one network is excluded and no included one is within it (`OneException`): the
  queue is in order, the excluded network stays whole, no included one is within it, and the included ones together have every
  address outside of it and none that was not asked for. `Nests` is the assertion of the last branch (`NetworkSpace.java:292-294`), shown to hold under
  these conditions; `Carved` is the result.

`tlapm TunnelRoutes_proofs.tla` proves for `TunnelSetup` with any addresses, replies, local networks, refusals and width `TunnelTypes`
(`[]TypeOK`), `RoutesNeverOverlap` (`[]RoutesDisjoint`) and `RoutesFollowNetworks` (`[]RoutesMostSpecific`). `RoutesInv` adds to `IInv` the loop's `LoopInv`
and that the routes of each device are apart. `CarvingInv` says that while `openTun` runs over fields that exclude one network at most the loop
is carving these fields, and that each device follows the configuration it was made from. The fields do not
change while the loop runs, which is what `opening` is for: the management thread is inside `openTun` and handles no query.
`IncludesSimple` relates the definition by the most specific network to the simple form: in an included network and in no excluded one.

Only model-checked: liveness (`EventuallyRuns`, `SetupEnds`, `EventuallyUpToDate`, `CacheCatchesUp`), which is out of the
prover's reach. Every invariant and every action property of a passing run is a theorem.

## 5. Order of the work and what could follow

The modules were written in this order: `DeviceStateReceiver`, `ManagementHold`, `PauseResume`; `SessionLifecycle`; `ConnectionRecord`;
`NetworkSpace`, `TunnelSetup`, `AtomicSetup`; `StatusRelay`; `LogCache`; the proofs of each after its runs. What is worth doing
beyond them: an abstract ledger of records that the undisturbed `ConnectionRecord` implements; a composition of `PauseResume` and `SessionLifecycle` for a timer that outlives its session.

Races known and not stated as a run: `handleHold` reporting CONNECTRETRY over a USERPAUSE that
was shown in between; a release that overtakes the announcement of a hold, after which a pause does not reach the process
(`overtaken`, section 3); a service started again whose new session loses its record to the close of the old one; a client that shows its own
state until the service's next update (both section 3); a network switch while the screen is pending sets `screen` to DISCONNECTED without a
pause; the screen coming on removes the timer of a lost network, so that nothing pauses the VPN; a pause call while
the network or the screen is only pending names the user as its reason; a management thread whose process never connects waits in
`accept` for ever.

## 6. Not modelled

- *Traffic history*: averages lists of byte counts by wall-clock periods for a graph. One thread, and no decision depends on it.
- *Profile manager*: the service polls for the version of a profile the activity has written, and goes on with an older one
  when ten tries are over. What it reads is what the file system shows one process of the other's write; no code
  under `src/` determines that.
- *Orbot*: no code of this app sets `ProxyType.ORBOT` (`ConfigParser` sets SOCKS5 and HTTP), so the status callback and its
  time-out are never installed. The other proxy questions get one synchronous answer.
- *Configuration parser, credentials, native helpers*: transform data and keep no state that another component races on.
- *Pin entry, the other activities, the REST client, boot receiver*: user interface and I/O; what failures of the REST client do is in
  `ConnectionRecord`.
- *Vendored code*: OpenVPN 2 and 3, OpenSSL, mbedTLS, LZO and SpongyCastle are taken from upstream and make up nearly all of the lines under
  `src/`; of OpenVPN the hold, the signals, the network change and the queries of the tunnel are modelled, as the app drives them.
