# A TLA+ development of the Slang Playground

The Slang Playground compiles Slang shaders in the browser and runs them there
with WebGPU, or on an Android device with Vulkan. Between the tab and the device
stands a relay, the *bridge daemon*, which also keeps `adb reverse` tunnels and
the companion app ready on every device that is plugged in.

This directory models the parts of the program that run concurrently, fail, or
come and go: TLA+ modules translated from the source, TLC configurations that
check them on small instances, and proofs, checked by TLAPS, of what holds for
every value of the constants. `PROJECT.json` maps each definition to the lines it
translates, lists every run with its properties, every hazard with the properties
aimed at it, and a mutant for each property: a plausible bug in the code which
that property catches. Paths below are relative to the repository.

1. [The system](#1-the-system)
2. [The modules](#2-the-modules)
3. [The runs, and what they show](#3-the-runs-and-what-they-show)
4. [Fairness](#4-fairness)
5. [What is proved](#5-what-is-proved)
6. [Where the code and its documents differ](#6-where-the-code-and-its-documents-differ)
7. [What is not modelled](#7-what-is-not-modelled)
8. [The plan](#8-the-plan)

## 1. The system

```
 browser tab                  host                          Android device
 +--------------------+       +------------------------+    +----------------------+
 | editor -> compiler |       | bridge-cli             |    | RenderSurfaceView    |
 |    |          |    |       |  main, adb_watch ------+-adb+-> installs, starts,  |
 |    v          v    |       |                        |    |   reverse tunnel     |
 | RenderCanvas  bridge-client|  bridge-core           |    | RenderThread         |
 |  (WebGPU)        --+--ws---+-> one task per peer <--+-ws-+- BridgeClient        |
 |                    |       |  registry, 3 channels  |    | SwapchainRenderer    |
 +--------------------+       +------------------------+    +----------------------+
```

| component | state it keeps | operations | what is hard |
|---|---|---|---|
| **bridge-core** (`bridge/core`) | `current_target`; three broadcast channels of 16 messages (presence, perf, shader); one task per connection | accept, Hello, register and announce, subscribe, relay, clean up | the registry is changed under a lock and announced after it; slow receivers lag; peers vanish; a target takes over from another |
| **bridge-target-client** (`bridge/target-client`) | the WebSocket | connect, recv, send | the connection ends anywhere |
| **Android bridge thread** (`BridgeClient.kt`, `renderer/android/src/bridge.rs`) | `running`, the thread, the process-wide `SHUTDOWN_TX` slot | the reconnect loop, shutdown with join | a cancellation races with the call it cancels; Activities overlap but share the slot |
| **Android app** (`RenderThread.kt`, `RenderSurfaceView.kt`, `renderer/android`) | the renderer; mailboxes for a shader, a `DeviceInfo`, a `PerfSample` and touches | surface callbacks, the render loop, touches, the connection's poll | three threads, no common lock; surfaces, renderers and connections outlive each other in every order |
| **SwapchainRenderer** (`renderer/core`) | Vulkan objects, a fence, one command buffer | `set_compute_shader`, `set_shaders`, `render_frame`, `recreate`, drop | the GPU runs behind the CPU; a dozen calls fail one by one; the window changes size |
| **renderer-core's wrappers** (`renderer/core/src/lib.rs`), **renderer-capi** | Vulkan handles, each owned by one wrapper or held raw | create and drop instance, device, surface, buffers, images, pipelines; the compute sample; the headless triangle | any call fails half-way through a creation; `SwapchainRenderer::new` takes handles out of wrappers that are still in scope |
| **bridge-cli**, **adb commands** (`bridge/adb/src/cli.rs`) | `tunneled`; the devices' own state | follow `track-devices`, tunnel, install, launch, remove at exit | devices come and go between any two commands; the adb server restarts; two tasks share `tunneled` |
| **track-devices client** (`bridge/adb/src/{lib,ffi}.rs`) | the TCP stream and the frame being read | connect with a timeout, next snapshot, disconnect | TCP delivers frames in pieces, and the connection ends inside one; a server that accepts and says nothing |
| **browser bridge client** (`src/src/bridge/bridge-client.ts`, `App.vue`) | socket, timer, status, perf readout | connect, disconnect, callbacks, send | a superseded socket still calls back; messages of two channels in either order |
| **RenderCanvas** (`engine/playground-render-canvas`) | the render lock, the compiled code, its pipelines and resources, frame counter | run, step, pause, resize, frame | every `await` lets another handler change the module-level state |
| compiler engine, shared types, editor, language server, uniform panel, wire schema | none shared, or generated | calls from above | data, not control |

How they interact: the tab and the device are peers of the daemon over WebSockets;
the daemon passes `ShaderUpdate` from tabs to the target, `DeviceInfo` and
`PerfSample` from the target to tabs, and `PresenceUpdate` to tabs. Inside the app
the bridge thread and the UI thread talk to the render thread only through global
mailboxes, each behind its own mutex. The CLI reaches devices with `adb`
subprocesses and shares only the `tunneled` set between its two tasks.

What makes each of them correct, in a line:

- daemon: tabs show the registered target; the newest shader reaches it; nobody is
  disconnected for being slow, but a tab that misses presence changes;
- bridge thread: shutdown ends, whichever client's call is running;
- app: no drawing on a dead surface, the newest shader is drawn, a pointer is down
  while a finger is, and what is queued for the daemon arrives;
- renderer: nothing in use is destroyed, nothing leaks, a frame draws with objects of
  one size, and the fence it waits for will be signalled;
- wrappers: nothing is destroyed before what was made from it, nothing twice, and a failure
  loses raw handles only;
- track-devices client: snapshots come out whole, in order, each once, and a connect
  with a timeout returns;
- watcher: each usable device gets its tunnel and the right app, its record is true,
  a running app is left alone, and no tunnel outlives the daemon;
- tab: one connection, a status that tells the truth, no readout of a lost
  connection, and it always comes back;
- canvas: one renderer at a time, drawing one program, at last the newest one.

## 2. The modules

| module | source | actors and steps |
|---|---|---|
| `Broadcast` | `tokio::sync::broadcast` as `bridge/core` uses it (external) | a ring as the queue each receiver can still read, with the lag flag |
| `Relay` | abstract | what the daemon promises its peers: who is current, which updates a target is sent, what a tab is shown |
| `BridgeCore` | `bridge/core/src/{lib,ws}.rs` | one task per connection slot; a step ends where the task awaits or gives up the lock |
| `BridgeClient` | `BridgeClient.kt`, `MainActivity.kt`, `bridge.rs` | one bridge thread per Activity, the one UI thread, the slot |
| `TargetApp` | `RenderSurfaceView.kt`, `RenderThread.kt`, `renderer/android/src` | UI, render and bridge thread; a step goes up to the next access of a mailbox |
| `SwapchainRenderer` | `renderer/core/src/swapchain_renderer.rs` | the render loop's calls (each one step), the GPU, the window |
| `DeviceObjects` | `renderer/core/src/lib.rs`, `renderer/capi/src`, `core/tests/graphics_pipeline.rs`, creation and drop in `swapchain_renderer.rs` and `renderer/android` | a program is a sequence of creations, takeovers and drops, any that follow the rules of ownership (`FollowsRules`); any fallible call may fail, and then the scope unwinds |
| `SnapshotStream` | abstract | what a `track-devices` connection promises its caller |
| `TrackDevices` | `bridge/adb/src/{lib,ffi}.rs` | the caller's calls; each `read_exact` piece by piece; the adb server |
| `AdbWatch` | `bridge/cli/src`, `bridge/adb/src` as used there | the watcher, one step per command; main's removal; devices; the adb server |
| `BrowserTab` | `bridge-client.ts`, `App.vue` | one step per event handler; a daemon that keeps to `ws.rs` |
| `RenderCanvas` | `RenderCanvas.vue`, `pass_through.ts`, `compute.ts` | one step per stretch between awaits; the user; the window |
| `MC*` | | the instances TLC checks; `MCDeviceObjects` names the three programs of the source |
| the modules named `...Proofs` | | the proofs (section 5); `SwapchainRendererProofs` has those of both models of renderer-core |

Two abstract specifications say what a component promises, without saying how.

- `Relay`: the last target to register is the current one until it leaves or another
  registers; a departure clears only its own registration; a target is sent updates in
  the order of their arrival, each at most once, none older than its being served.
  Each change of the current target is announced once, by the target that made it. A tab is
  shown the current target and then every announcement made since it began to follow, in
  order and with none left out, until it is given up; and a tab that has nothing left
  to be shown is not given up for the next one.
  `BridgeCore` implements it (`ImplementsRelay`): a target has a lease from the change of
  the registry to its cleanup, is served while its task is in the `select!` loop, and
  what it was sent last is `got`; a tab follows from its subscription until its ring has lost
  something, and is shown the registry from the moment that is read. The sockets, the sessions of
  tabs, the rings and the perf channel are hidden. TLC checks it and `BridgeCoreProofs` proves it.
- `SnapshotStream`: snapshots come whole, in order and once; a lost connection loses the
  last ones only; its end is reported after the others were returned. `TrackDevices` implements
  it unit by unit (`ImplementsStream`), the queue being the frames whose last
  unit has arrived. The watcher is checked against the same module: the
  connection in `AdbWatch` is a `SnapshotStream` (`SeesStream`), so the
  client delivers what the watcher's model is built on. Both are proved.

The other models stand side by side and meet at their environments. `BridgeCore`
extends `Broadcast`. `TargetApp` leaves to `BridgeClient` how connections
begin and end and to `SwapchainRenderer` what a frame does with the GPU;
`DeviceObjects` has the creation of the device and the drop of everything around the
calls of `SwapchainRenderer`. Of a frame `TargetApp` keeps what concerns its threads:
whether it was submitted, and whether it failed with the fence reset, after which
`render_frame` never returns again (`Draw`, `"blocked"`). The daemon in
`BrowserTab` takes `BridgeCore`'s steps where a tab can tell them apart: it subscribes
a tab, then reads the registry, and sends what it read before what was announced
meanwhile; a target changes the registry in one step (`TargetRegisters`, `TargetLeaves`)
and announces it in another (`Announce`), so that two targets may cross. `due` counts the
announcements still to be made.

**How data is abstracted.** A `ShaderUpdate` is its number of arrival, a target its
session id, a `CompiledPlayground` the number of the `onRun` that brought it, a GPU
object its kind with the call and the window size it was made for, a frame of `track-devices`
its four length digits and one unit for each line. The wire of `TrackDevices` keeps the units
in the messages the server wrote, so that the model can tell what of which message is left; the client
sees a unit at a time and never where one message ends and another begins. Payloads, layout
and wording are left out. In `BridgeCore` a peer is a connection slot that can be
used again under a fresh session id; `socket` turns `broken` when the peer is gone and
the task notices it at its next read or write.

**History variables** occur only in properties: `announced` (the last presence
broadcast), `failed` (the Vulkan calls that failed so far), `leaked` in `DeviceObjects` (the raw
handles a failure lost), `unlucky` (devices for
which a command failed while they were there, which left unseen, or whose tunnel `main`'s
copy of the record missed), `missed` and `torn` in `RenderCanvas` (the last resize fell into a
setup; one threw half-way), `announced` in `BrowserTab`, and `received`, `taken`, `reported`, `dropped` in
`TargetApp`.

## 3. The runs, and what they show

Eight modules have a `TypeOK` that documents what their variables range over; all eight are
proved (section 5). The runs:

| run | instance | properties | what it shows |
|---|---|---|---|
| `BridgeCore` | 1 tab, 2 targets, ring of 1, 3 sessions, 2 shaders, 2 samples | `ImplementsRelay`, `ViewsFollowAnnouncements`, `ShaderUpToDate`, `SessionEndsOnlyOnLoss` | takeovers, crossing departures and lag on every channel |
| `BridgeCoreLive` | the same, no shaders, 1 sample | `ViewsConverge`, `DeadTargetUnregistered` | tabs come to show the target; a dead one leaves the registry |
| `BridgeClient` | 3 Activities | `SlotNamesRunningCall`, `OnlyLiveCallBlocksShutdown` | one slot for all of them: never a stale sender; a shutdown ends unless it came before the call it should cancel |
| `Swapchain` | 2 sizes, 3 creating calls, 2 resizes, each kind of failure | `PendingFrameAlive`, `FrameOfOneExtent`, `OwnsWhatIsLive`, `FenceWillSignal`, `SizeCatchesUp` | every early return of an update, a recreation and a frame |
| `DeviceObjects` | the 3 programs of the source, nothing bounded | `NothingNeededIsDestroyed`, `DestroyedOnce`, `EndsClean` | the order of destruction, wherever a program fails |
| `RenderCanvas` | 3 runs, 2 steps, 2 frames, 2 sizes, one below the least | `OneRenderer`, `LoopDrawsOneRun`, `ScreenTexturesFollowWindow`, `NoFrameOfSupersededRun`, `NewestRunDrawn` | runs, steps, pauses, resizes and failures across each other's awaits |
| `BrowserTab` | 3 sockets, 2 devices, 2 connects, 1 disconnect, 1 message on each channel, 1 departure to announce | `OneConnection`, `StatusOfConnection`, `ReadoutOfConnection`, `ComesBack` | lost and superseded connections, two channels, targets that announce in crossing order |
| `TargetApp` | 2 sizes, 2 shaders (setting the first fails), 2 touches | `NoRenderingWithoutSurface`, `NewestShaderKept`, `PointerDownMeansFinger`, `PendingShaderDrawn`, `DeviceInfoReported`, `SurfaceDestroyedReturns` | surfaces, connections, touches and failing frames in any order |
| `TrackDevices` | 2 serials, 4 lists, 3 sends, 2 dials | `ImplementsStream`, `ConnectReturns`, `SnapshotsReturned` | frames cut and lost anywhere, refusals, silence |
| `AdbWatch` | 2 devices, 2 changes, 1 lost server | `RecordMatchesTunnels`, `UsableDeviceTunneled`, `AppReady`, `RunningAppUndisturbed`, `SeesStream`, `ShutdownRemovesTunnels` | devices, failures and the shutdown between any two commands |
| `BridgeCoreStaleView` | ring of 2 | `NoStaleView`, **violated** | announcements reordered |
| `SwapchainIdleBuffer` | no failures | `TransitionResetsIdleBuffer`, **violated** | a command buffer reset while it executes |

Why the bounds are enough for the questions asked:

- *`Capacity = 1`, 2 shaders, 2 samples.* The ring of 16 matters through three
  facts only: a receiver can be behind, it can overflow, the newest message stays.
  Capacity 1 makes all of them happen with two messages; the theorems of section 5
  hold for every capacity. *2 targets, 3 sessions*: a takeover needs two targets, and the
  third session lets one of them return while the other is still leaving. A UI's task shares
  nothing with another UI's but the read-only registry, so one UI stands for all.
- *4 lists, 3 sends, 2 dials.* The lists are none, one usable device, one usable beside one that
  is not, and only entries that the parser or the watcher drops: a frame of length 0, of one
  line and of two, and every verdict on an entry. Three sends are an answer and two
  frames, or a refusal with its two frames; the second dial follows a connection that ended in any way.
- *Symmetry.* `BridgeCore` is checked up to a permutation of its targets, which nothing tells apart; its
  properties are invariants and step properties, for which that is sound.
- *The 3 programs.* What a program does wrong by itself, such as a missing `mem::forget`, breaks one
  of the rules of ownership: TLC evaluates them on the three (`ProgramsAssumption`) before it runs them. What a
  failure then does is the run's, and the proofs' for all other programs.
- *3 Activities.* A slot conflict involves the call that is in it and the one which replaces or
  clears it; the third shuts down meanwhile.
- *3 creating calls, 2 resizes.* An update, a recreation and another update, in any
  order, is the shortest history in which an object made by one call and kept by
  another is destroyed by a third. Which calls fail is a constant; the run leaves
  out `sampler`, `blitSets` and `compPipe`, which behave as their neighbours in the
  sequence.
- *3 runs.* One is drawing, one waits for the lock, one overwrites it. Run 2
  has `CALL::ONCE` commands only and no `outputTexture`, the others draw an image in every
  frame: the kinds of program that the loop and the resize tell apart, each following and
  followed by the other.
- *Rejected shaders.* Whether `set_compute_shader` fails on an update, and why, is a constant: each
  update is set at most once (`NewestShaderKept`), so this loses nothing. The run's first
  update fails, with the blit pass to be created or after it, and the second must be drawn.
- *Sizes 1 and 3.* The canvas clamps what it is given (`Clamped`): 1 becomes 2, so that a resize to a size
  the window has already is in the run. `MaxTexture` is larger than both; the theorems have any.
- *2 connects, 1 disconnect.* `App.vue` makes one and none; the second connect and the
  disconnect show that liveness does not rest on that, while the safety properties
  say that they do (`ConnectedOnce`).
- *2 changes, 1 loss.* A device leaves and returns while the watcher is busy with it or
  disconnected from the adb server; every starting state of the two devices is
  tried.

Where a property names an exception (`dropped`, `failed`, `unlucky`, `announced #
currentTarget`, ...), that exception is a weakness of the code, found by running
the property without it, and described in section 6. Each property is as strong as
the code allows.

Deadlock is checked in `BridgeCore`, `BridgeCoreLive`, `BridgeCoreStaleView`, `RenderCanvas`
and `TargetApp`. The other systems may stop: a joined client, a dropped
renderer, a program that ends, a caller that dials no more, a daemon that has exited, a tab that was
disconnected.

## 4. Fairness

Fairness is assumed of the program's own scheduling and of nothing that a peer, a user
or a network does, with the exceptions named here.

- `BridgeCore`: tokio polls every task that was woken, and `select!` picks among its
  ready arms at random, so an arm that stays ready is taken: weak fairness for each arm
  of each task. Peers owe nothing, so Hello and the messages of peers are not fair.
- `BridgeClient`: both threads are scheduled, a fired `shutdown_rx` is polled, and
  `Thread.sleep` ends. The daemon owes nothing: a connection may stay for ever.
- `TargetApp`: the render thread runs, until it is blocked for ever in `wait_for_fences`
  (`swapchain_renderer.rs:1324`), from where nothing leads; `join()` returns once the thread has ended; the
  interval of `perf_poll` ticks. Surfaces, touches and connections are not fair. Of the driver
  it is assumed that not every frame fails or finds the swapchain out of date: a shader which is drawn again
  and again is submitted once (strong fairness of `DrawsShader`, which `PendingShaderDrawn` needs and
  `SurfaceDestroyedReturns` does not).
- `SwapchainRenderer`: the GPU ends what it executes; the loop goes on calling; a
  recreation which is tried again and again succeeds once; a driver that is handed
  a stale swapchain again and again answers `OUT_OF_DATE` once. The last two are
  strong fairness of the driver, and `SizeCatchesUp` needs them: the code ignores
  `SUBOPTIMAL`, so nothing would be recreated under a driver that says no more.
- `TrackDevices`: the caller calls for the next snapshot again, as `watch_and_tunnel` does; a timeout
  that was set expires; bytes that have arrived are read. The server owes nothing.
- `AdbWatch`: the commands of the watcher return (with or without success) and the server
  is found again. Devices are not fair.
- `BrowserTab`: timers fire, and an attempt to connect that is repeated for ever succeeds,
  in its two steps (opening, `HelloAck`): strong fairness of the daemon, without
  which no client can promise to come back.
- `RenderCanvas`: promises settle and the browser calls animation frames, as it does while
  the page is visible. What the user does is not fair.

## 5. What is proved

TLC checks small instances; the following hold for every value of the constants that
satisfies the modules' assumptions: disjoint peers (`PeersAssumption`), a ring of at least one message
(`CapacityAssumption`), device lists that are sequences of lines (`ListsAssumption`), programs that
follow the rules of ownership (`ProgramsAssumption`), bounds that are numbers, model values that
are not elements of the sets they stand beside. The bounds cut behaviours off but are
themselves arbitrary.

**`BridgeCoreProofs`**

- `TypeCorrect`: `Spec => []TypeOK`, from the types of the ring operators
  (`ReceiverTypes`, `PublishType`).
- `RegistrySound`: the registry names a target whose task has registered and not yet cleaned up.
  Not inductive as it stands: a task that returned has session 0, and 0 means "no target" in the
  registry as well. `RegistryInv` adds `SessionHeld` (a task has an id exactly between Hello
  and its return). `RegistryOwned` follows with one look at each step: only `Unregister`
  writes 0 over an id, since `Register` writes an id that `SessionHeld` keeps from being 0.
  Both follow from the refinement below as well, which is what the run checks.
- `NewestShaderDelivered`: a target that has read all it can was given the newest
  shader sent since it subscribed, for every capacity of the ring. The invariant
  `ShaderInv` says why: as long as a receiver is open, the last message of its
  queue is the newest shader there is; an empty queue means the newest was written, and
  was not followed by a lag. The lemmas `LastIsNewest`, `LastOfTail` and `TakenKeepsLast`
  say it of the ring's operators: overwriting drops the head and never the last.
- `ServedUntilLost`: the loop of a session is left only when its socket broke, or by a tab that
  lagged on presence.

- `ViewsAreCurrent`: subscribing before reading the registry loses nothing. A tab with nothing left to
  read need not show the last announcement: none may have come since it subscribed, and then it shows the registry
  as it read it. `ViewInv` says so of every state: the last message of an open queue is the newest
  announcement (`NewestAnnouncedLast`), and where the queue is empty and no announcement is
  pending, the tab shows, or is about to write, the newest announcement or the registry as it
  still is (`ShownIsRecent`). A change of the registry makes an announcement pending, and
  making it fills every open queue.
- `DaemonImplementsRelay`: `Spec => ImplementsRelay`, for any number of tabs and targets and
  any capacity. `InitImplements` and `StepImplements` map the initial states and the
  steps: registration, announcement, subscription, delivery, the end of the loop and the two
  cleanups, on the side of a tab the subscription, the reading of the registry, the
  delivery and the return, to one step of `Relay` each, and everything else (`SameTargets`,
  `SameTabs`, `Stutters`) to none.
  They rest on `RelayInv`. `SessionsDistinct`: ids are handed out once, so a target that
  registers does not take a lease another holds, and `current = lease[t]` says the same as the
  code's comparison of ids. `ShadersInOrder`: the queue of a receiver is increasing and newer
  than what was written last, which overwriting, skipping a lag and subscribing
  preserve (`EnqueueInOrder`, `TailInOrder`); so the update that is written next is
  newer than the one before it. `PublishAnnounces`: a broadcast is one step of `Relay` for all tabs
  at once, whatever their rings do, because a ring that does not lag has gained the
  message at its end and one that begins to had something in it (`EnqueueOrLag`).

**`BridgeClientProofs`**

- `TypeCorrect` and `SlotSound`, for any number of overlapping Activities: the slot holds
  the sender of a running call that nobody cancelled. `TypeInv` adds that a thread which was not
  started is `new`. The proof is that every write of the slot, by whichever client,
  orphans the receiver of the sender it replaces and no other.

**`TargetAppProofs`**

- `TypeCorrect`; `SurfaceOutlivesRendering` (no render thread once `surfaceDestroyed` has
  returned: the flag is cleared by `Joined` only, whose guard is the thread's end);
  `NewestTaken` (the mailbox keeps the newest and hands none out twice), also where a frame fails or
  blocks its thread. `RenderedType` and `UpdatedType` say what a frame and an update leave alone, whatever fails in them.
- `PointerFollowsFinger`, for any length of the touch queue. `PointerDownMeansFinger`
  speaks of an empty queue and is not inductive; `PointerInv` says of every state that
  the pointer *as it will be once the queue is applied* (`Pressed`) is down only
  while a finger is, or when a release was dropped.

**`SwapchainRendererProofs`**, for any sizes, any number of calls and any set of calls that
may fail (`FailuresAssumption`: some of those the code checks).

- `TypeCorrect` says in particular that a compute stage has one object of each kind, though updates
  and recreations put it together differently: `PartsAreNewKinds` shows that the sequence in which
  `set_compute_shader` creates its objects is one of the kinds it does not keep, without repetition, and
  `UpdatedStageComplete` and `ResizedStageComplete` that what is kept and what is new make a stage.
- `OwnedIsLive` and `FrameAlive` from `OwnInv`, which is both with `Aged`: what the fields name is no
  younger than the last call, so an object which a call creates is none of those that exist, and destroying what
  it replaces destroys nothing else. Each action is then a computation with the sets of live, owned
  and used objects; wherever something is destroyed, the wait before it has ended the frame.
- `FenceSignals` is inductive with the types. `DrawsOneExtent` is not: it speaks of the frame
  when it was recorded. `ExtentInv` says of the fields (`FieldsOfOneExtent`) that they have the swapchain's size,
  and of the frame in flight (`FrameSized`) that its objects have one size, which is no longer the swapchain's when
  that was replaced meanwhile.

The same module has the proofs about `DeviceObjects`, for any programs that follow the rules of
ownership. The rules (`FollowsRules`) are what one reads off the source: of the next step of
a program that has not failed, what exists and has an owner by then; and that no raw handle is left
when it succeeds (`LeavesNothingRaw`). They do not speak of what an unwinding destroys, nor when; of
failures they say that no `Device` is without its wrapper at a call that may fail.

- `NeededObjectsKept`, `OwnersDisjoint` and `WrappersLeaveNothing`: wherever a program fails, nothing
  is destroyed before what was made from it, nothing twice, and what is left is what it had in raw
  handles. All three follow from `ObjectsInv`. Until something fails, `alive` and `owners` are functions
  of how far the program is (`OnSchedule`, with `AliveAfter` and `OwnersAfter`, which the lemmas
  `AliveAfterNext` and `OwnersAfterNext` compute step by step); so the rules apply.
  What the unwinding needs is an order: `ChildrenFirst` says that of two owned objects the one made from the
  other is dropped first, within a wrapper and across wrappers, and `OwnedOnce` that no
  object has two places in that order. The drop of the newest wrapper's first object then destroys
  nothing that another in scope needs (`DropOwners`). Exempt from the order is an `Instance` and
  its `Device`: `InstanceKept` says instead that the `Arc` keeps the instance as long as the device is there.
  `GpuAwaited` keeps the frame in flight: a wrapper whose program has drawn begins its drop with the wait.

**`RenderCanvasProofs`**, for any number of runs, steps and frames and any sizes.

- `LockAdmitsOne` from `LockInv`: besides the lock, the run that waits is the newest and has not begun
  (`WaitsOnce`), and a renderer that was not told to abort is the newest run's (`NewestUnlessAborted`).
  `ReleaseLock` is used for every way a run ends: whoever lets go had the lock. `SupersededStaysIdle` is
  an action property and follows from the same invariant.
- `OneRunDrawn` and `TexturesFollow` from `DrawInv`: as the renderer is alone, the
  code is its own from the start, the pipelines from its setup on and the resources in its loop
  (`CodeOfRenderer`); and the textures, or those being allocated, have the window's size unless a
  resize was missed or threw (`TexturesOfWindow`).

**`BrowserTabProofs`**, for any number of sockets, devices, targets and connects.

- `ConnectionIsSingle`, `StatusIsTrue` and `ReadoutIsCurrent` from `TabInv`: for a tab that connects
  once, a socket that is not closed is the client's and the timer runs only without one (`SocketOfTab`); what is
  shown is of a connection that has answered (`ShownOfSocket`); and the newest message under way to a connection, or
  what it shows once there is none, is the target attached or the one announced last, unless an announcement is still due
  (`ToldOfTarget`, `Told`, `Pending`). The condition
  `ConnectedOnce` is about the past, and `StaysConnectedOnce` shows that it can be used at
  both ends of a step.

**`AdbWatchProofs`**, for any set of devices and any number of changes and lost connections.

- `RecordIsTrue` and `ShutdownRemoves` from `TunnelInv`: the last snapshot under way is of the devices there are
  (`SnapshotsAreCurrent`); a device that is recorded has its tunnel or is missing from a snapshot that is still
  to be read or applied (`RecordLeaves`); one with a tunnel is recorded or will come up again (`TunnelRecorded`);
  `main` has still to remove what it can know of (`TunnelsLeft`).
- `AppsUndisturbed`: `install` is reached with an outdated app only, and nobody but the watcher changes that.
- `WatcherSeesStream`: `Spec => SeesStream`, the refinement of `SnapshotStream`, step by step.

**`TrackDevicesProofs`**, for any device lists, any number of connections and of lists sent on them.

- `TypeCorrect`, from what the wire is after one unit was read (`ShortenedWire`) and after it was cut (`CutWire`).
- `ClientImplementsStream`: `Spec => ImplementsStream`. The abstract queue needs that a unit ends a frame
  exactly when the client takes it for the last one, which no single variable says. `WireInv` says it through
  `ReadsInStep`: there is one list such that the buffer holds the next units of its frame, the first message on the wire
  the ones after them, and the payload's length is the list's; each further message is a whole frame
  (`Framed`), but for the last of a connection that was lost. `ReadsExactly` ties the buffer to the length
  wanted, `Dialogue` the client's place to the server's, `Refusal` keeps an answer that refuses from being
  read as "OKAY", and `EndIsLast` an end from being reported before the last snapshot.
- The proof is in two layers. Lemmas about a wire alone say what one step does to the queue (`QueueGrows`,
  `QueueShrinks`, `FramedTake`, `FramedCut`); one lemma per action then shows that it keeps the
  invariant and is one step of `SnapshotStream`, or none: `Accept` opens, `SendList` sends, `Close` loses, the last
  unit of a frame returns (`ReadPayload`, and `ReadLength` for an empty list), the end is reported by
  `ReadEnd`, and whoever hangs up drops.

**Left to TLC.** Liveness under fairness and `ENABLED` are beyond the prover, so every
`~>` property is model-checked only, and so is `SnapshotsReturned`. Every invariant that a
run checks, every action property and all three refinements are theorems.

## 6. Where the code and its documents differ

Two differences are shown by runs of their own, and listed as findings in `PROJECT.json`:

1. `BridgeCoreStaleView`. `ws.rs:171-172` registers under the lock and announces after it. Two
   targets that register in one order and announce in the other leave every tab
   showing the superseded one, though `v1.proto:31-34` promises an update "whenever
   the connected target changes".
2. `SwapchainIdleBuffer`. The first `set_compute_shader` resets the command buffer that the last
   frame may still be executing (`swapchain_renderer.rs:680`, "idle at this point").

The others are the exceptions that the passing properties name, or facts met on the
way:

- *Daemon.* What a tab sends between a target's announcement (`ws.rs:172`) and its
  subscription (`ws.rs:174`) is dropped, although the tab already shows the target;
  `ShaderUpToDate` counts from the subscription. A superseded target stays
  subscribed and is still fed (`ws.rs:178`), and when the newer one leaves, the registry is
  empty although the older is still connected (`ws.rs:229`).
- *Bridge thread.* A `shutdown()` between the loop's look at `running` and the
  storing of `SHUTDOWN_TX` (`bridge.rs:83`) cancels nothing, and `join()`, on
  the UI thread, lasts as long as the daemon keeps the connection, although `BridgeClient.kt:52-55`
  "Covers both places this thread can be blocked": the exception of `OnlyLiveCallBlocksShutdown`.
- *Renderer.* A failed update leaks what it had created ("torn down on failure
  automatically", `swapchain_renderer.rs:824-827`): `OwnsWhatIsLive` holds up to such a
  failure. A recreation that fails at the views leaves a destroyed swapchain in the
  field (`:1351`). A frame that fails between the reset of its fence and the submission (`:1370`)
  makes the next one wait for ever (`:1324`): the exception of `FenceWillSignal`. On Android
  the render thread then never returns from `nativeRenderFrame`, no later shader is drawn, and
  `surfaceDestroyed`, which joins it on the UI thread, does not return either: `PendingShaderDrawn` and
  `SurfaceDestroyedReturns` except it (`rt = "blocked"`), and nothing else.
- *Wrappers.* When a creation fails after its first object exists, nobody owns that object (`lib.rs:364`
  and the creations after it), and the device, then the instance, are destroyed under it:
  `leaked`. `Renderer::new` on Android loses the surface and the swapchain in the same way, so the
  comments at `lib.rs:274-275` and `:474-477` hold of programs that succeed only.
- *track-devices.* A connection that ends inside the four digits of a length is reported as a
  clean end; `bridge/adb/src/lib.rs:104-105` says "closed cleanly before any bytes of a new
  frame arrived". Nothing is lost by it that could have been returned.
- *Canvas.* `onRun` resets `frameID` before it has the render lock
  (`RenderCanvas.vue:519`), and the older run's last frame increments it: the new
  run starts at frame 1, `Help.vue:80` says 0. `setFrame` renders outside of the lock (`RenderCanvas.vue:99-100`): beside a frame
  of the loop it lands one frame further, and the index passes through -1. A step which
  is still drawing when a new run is set up mixes the two, its printf strings included (`:505`). A resize
  during a run's setup is lost (`:744`): `missed`. A resize can throw at any of its textures: `Array(size * elementSize)`
  (`:247`) takes no fraction, and scales are any numbers. The textures before it have then
  been replaced and the ones that the bind groups name destroyed (`:266`), the ones after it keep their size, and no
  bind group is renewed until a resize goes through or another run is set up: `torn`, which both
  `LoopDrawsOneRun` and `ScreenTexturesFollowWindow` except. Without an `outputTexture` a resize throws before it renews
  the bind groups (`:275`): `LoopDrawsOneRun` asks for them of `ImageRuns` only.
- *Tab.* `disconnect()` leaves the status it had. The readout of a device that another replaced
  is kept until the new one reports (`App.vue:110-113`), and a sample the daemon relayed
  last is shown after its target left. Two targets that announce in crossing order leave the
  tab with the one that is not attached, as in 1: `StatusOfConnection` says "attached or announced last". A socket
  that a second `connect()` superseded goes on setting the status and the readout (`bridge-client.ts:165-177`),
  and closes without a word (`:180`): `ConnectedOnce`. A shader can be sent when the device has left
  (`bridge-client.ts:140-145`), and of two runs that wait for spirv-tools to load the older
  one's may go out last (`App.vue:432`).
- *App.* `DeviceInfo` is taken from its mailbox before it is sent: a connection that breaks loses it,
  and it is not resent on reconnection (`v1.proto:88-91`); `DeviceInfoReported` is about connections that last.
  A sample's `frame_id` is not the `FRAME_ID` the shader saw
  (`v1.proto:138-140`). A press whose release came without a surface stays down: `dropped`.
- *Watcher.* A device replugged while the connection to the adb server is down is taken for
  one that still has its tunnel, and a failed `adb reverse` waits for another device
  change: `unlucky`. A tunnel made after `main` has copied `tunneled` stays
  (`main.rs:37-40`).

## 7. What is not modelled

- The compiler engine (`compiler.ts`, `playgroundCompiler.ts`, `compilationUtils.ts`): sequential,
  around a wasm compiler; next in the plan, as pure operators.
- The parsing of adb's output and the retry on a busy executable (`cli.rs`), which no
  other step can observe; the arrays of devices that `ffi.rs` hands to C, which have one owner
  at a time; the example `send_shader.rs`.
- Protobuf and WebSocket framing, and the decoding in `bridge/target-client`: in the models
  a message arrives whole or its connection ends.
- What the GPU computes, and the bytes the compute sample and the headless triangle read back.
- Sending a shader from the tab (`sendShaderUpdate`, `App.vue:431-518`), which tests the socket and changes no state.
- What a render thread blocked for ever leads to: Android ends an app that does not respond.
- printf in `RenderCanvas`, the editor, the language server, the uniform panel, the rest of `App.vue`, help and
  demos: presentation.
- Memory models: each mailbox is behind a mutex and `running` is `@Volatile`, so sequential
  consistency is what the code has.
- Time: a timeout or an interval is a step that can come at any moment.

## 8. The plan

Done: the daemon and the relay it implements towards targets and tabs, the device's two threads, the
renderer and the ownership of its objects, the `track-devices` client and the stream it implements,
the watcher with the shutdown, the tab and the canvas, each with its safety and liveness
properties; the proofs of section 5, which have every safety property of the passing runs.

Next, in this order:

1. The compiler's layout algorithms (uniform offsets, resource commands, the order of call
   commands) as pure operators against reference definitions.
2. A composition of daemon and tab, in which `BrowserTab`'s daemon is `BridgeCore`'s.
3. printf in `RenderCanvas` (the strings of `compiledCode` after the await, `RenderCanvas.vue:505`).
