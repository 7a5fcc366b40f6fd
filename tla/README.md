# Verification of pve-lxc-syscalld

`pve-lxc-syscalld` runs system calls for unprivileged LXC containers. The
kernel stops a container process at `mknod`, `mknodat` or `quotactl` (seccomp
user notification); the container's lxc monitor forwards the notification over
a `SOCK_SEQPACKET` Unix socket; the daemon forks, takes on the caller's
environment, performs the call, and sends the result back.

This directory holds TLA+ models of that daemon, TLC runs on small instances,
and TLAPS proofs for every value of the constants. `PROJECT.json` maps every
definition to source lines and lists runs, mutants, hazards and theorems.

    tlc -workers 2 -config Fork.cfg MCFork           # a run
    tlapm ForkProofs.tla                             # the proofs of a module

## The system: inventory

| Part | Source (`src/src/`) | State | Operations | What is hard |
|---|---|---|---|---|
| forked calls | `fork.rs` | child pid, pipe, descriptors of every process | `Fork::new`, `get_result`, `wait`, `Drop` | `fork()` in a threaded process copies other calls' pipe ends; `waitpid()` blocks a worker; early returns |
| result pipe | `io/pipe.rs` | pipe contents, readiness | `pipe_fds`, `try_from`, `poll_read` | end of file depends on every copy of the write end |
| connections | `client.rs` | one task and one buffer per connection | `main_do`, `handle_syscall`, `wrap_error` | children hold copies of the sockets; errors and panics end a task differently |
| message buffer | `lxcseccomp.rs` | header, request, response, cookie, pidfd, memory fd | `recv`, `set_len`, `prepare_response`, `respond`, argument accessors | the buffer is reused; descriptors arrive before the message is validated |
| socket | `io/seq_packet.rs`, `io/cmsg.rs` | queue of messages, control data | accept, recvmsg, sendmsg, shutdown | truncation of data and of descriptors |
| readiness | `io/mod.rs` | tokio's readiness flags | `wrap_read`, `wrap_write` | lost wake-ups |
| quotactl | `sys_quotactl.rs` | the kernel's quotas, shared by containers | nine sub-commands | ids are mapped, widths change, enumeration in host order |
| id maps | `process/id_map.rs` | map entries | `map_into`, `map_from` | range boundaries |
| mknod | `sys_mknod.rs`, `syscall.rs` | none in the daemon | `mknod`, `mknodat`, device filter, system call table | `dev_t` bit fields, negative descriptors, 4096-byte strings |
| process information | `process/pid_fd.rs`, `process/cgroups.rs`, `nsfd.rs` | files under `/proc/<pid>` | `get_status`, `get_cgroups`, `get_uid_gid_map` | the process may change or exit between reads |
| credentials | `process/user_caps.rs`, `capability.rs`, `apparmor.rs` | the child's credentials | `UserCaps::new`, `apply` | order of steps; calls that fail silently |
| main loop | `main.rs` | listener, tasks | accept loop, exit, restart by systemd | an accept error ends the daemon while its children go on |
| rest | `seccomp.rs`, `tools.rs`, `macros.rs`, `poll_fn.rs` | none | structures, size check, wrappers | the size check runs late |

A message flows: main loop accepts -> a connection's task receives into its
buffer -> the handler reads arguments (and the id map) -> `forking_syscall()`
forks; the child applies the credentials and performs the call -> the result
comes back through the pipe -> the task replies from the same buffer.

## Modules

| Module | Models |
|---|---|
| `SyscallResult` | the values a closure and `forking_syscall()` return |
| `ForkedSyscall` | abstract: what `forking_syscall()` promises a handler |
| `Fork` | `fork.rs` and the pipe: several calls in one process with `NWorkers` threads |
| `ForkProofs` | theorems about `Fork` |
| `Client` | `client.rs`, the message buffer and the socket; uses `ForkedSyscall` for the calls |
| `ClientSteps`, `ClientProofs` | the invariant of `Client`, its proof, and the theorems |
| `IdMap` | `map_into()`, `map_from()` |
| `QuotaView` | abstract: the private quota tables a container believes it has |
| `Quotactl` | `sys_quotactl.rs` for several containers on one file system |
| `QuotactlProofs` | theorems about `IdMap` and `Quotactl` |
| `Mknod` | `sys_mknod.rs`, its arguments, and what C library and kernel make of them |
| `MknodProofs` | theorems about `Mknod` |
| `UserCaps` | `process/user_caps.rs`, `process/pid_fd.rs`, `capability.rs`, `apparmor.rs`, `nsfd.rs` |
| `UserCapsProofs` | theorems about `UserCaps` |
| `AsyncIo` | `io/mod.rs` and `poll_read()` against edge-triggered readiness |
| `AsyncIoProofs` | theorems about `AsyncIo` |
| `Daemon` | `main.rs` over several instances, with the listener and orphaned children |
| `DaemonProofs` | theorem about `Daemon` |
| `MCFork`, `MCClient`, `MCQuotactl`, `MCMknod`, `MCUserCaps` | constants for TLC |

The composition is by layers: `Fork` is shown to implement `ForkedSyscall`, and
`Client` is built on `ForkedSyscall`, so it need not know pipes. `UserCaps` and
`Mknod` or `Quotactl` look inside the closure that `Fork` runs; `AsyncIo` looks
inside the awaits of `Fork` and `Client`; `Daemon` looks at what outlives a
connection.

**Fork.** `pc[c]` is the point in `Fork::new()`, `get_result()`, `wait()` or
`Drop` that call `c` has reached; `child[c]` is its process. `fds[p]` is the
set of pipe ends open in process `p`; `ForkChild` copies the daemon's whole set.
Failures of `pipe2`, `fork` and the registration of the read end, a panic in
the child and a kill from outside at any point are all actions. A task
occupies a worker except while it awaits the pipe. `EINTR` from `waitpid()` is
a retry without effect and is left out.

**Client.** `buf[k]` is the reused `ProxyMessageBuffer`: a received message
overwrites it only as far as it reaches (`Filled`). Lengths count header,
request and response as one unit each. `inherits[c]` is the set of connection
sockets that the child of call `c` holds. `msgFds` and `leaked` count received
descriptors with and without an owner. The monitor is external: it sends
messages of the given `Shapes` and may close at any time.

**Quotactl.** A request is one step, because the only shared state, the
kernel's quota, is touched by one system call in the child. `Checks` lists the
early returns in the order of the code. Integers have the width `IntMax`
gives: `ArgUint`, `AsInt` and `AsU64` are the conversions of `arg_int()` and
`id as u64`. The kernel's side (`NextSet`, `KernelId`) is external. Any call
may also be turned down by the kernel (`KernelFails`).

**Mknod.** A request is one step. `Early` is the sequence of early returns of
`mknod()` and `mknodat()`; `LibcMknodat` is the child's call. `dev_t` keeps the C
library's five fields and their order; how many values each takes is a constant
(`Minors`, `Majors`, `Mids`, `Highs`, `Tops`), small in the runs, so every number can
be enumerated, and arbitrary in the proofs. The kernel's own number has the lower
three fields. A string is the bytes mapped from the pointer on, so it can end
before, at or after the last byte that `get_c_string()` reads.

**UserCaps.** `pc` follows `UserCaps::new()` (three files, three steps) and
`apply()` (six steps, of which changing the label is one). `snap` is the `UserCaps` value, `child` the credentials and
surroundings of the forked child. Each credential call is an operator from
credentials to credentials with the kernel's rule for it (`setegid`, `seteuid`,
`capset`, ...); `Try` is `c_try!`. A host has the `mounts` below
`/sys/fs/cgroup`, in any combination, and the labels that the daemon's own may change
to (`enters`). A step may also fail because descriptors or memory ran out
(`RunsShort`, the outcome "short"). Between any two steps the caller may change its
credentials (after a signal), its threads their root, cwd and umask, somebody its
cgroup, and it may become a zombie and go. `held` records all values it had since
the request.

**AsyncIo.** One descriptor of each `kind`: receiving and sending on a
connection, the listener, a result pipe. `edge` and `flight` are the event in
epoll and in the runtime's driver, `ready` and `tick` the runtime's mark. Epoll
and the driver are external. `Blocking` says which descriptors the code leaves
in blocking mode.

**Daemon.** `gen` counts the instances systemd starts. A connection is reduced
to its socket and the child of its one request. `held[k]` are the sockets that
child inherited; with the listener (`ListenerOpen`) they live as long as the
child, also after the daemon has exited.

## Runs

| Run | Shows | Bounds |
|---|---|---|
| `fork` | `ReturnedMeansReaped`, `OwnResult`, `WaitIsShort`, `PidIsOurs`, `Refinement`, `EveryCallReturns`, `DeliveredIsReturned`, `DeadIsReturnedUnlessHeld` | 2 calls, 2 workers, one closure may hang |
| `client_buffer` | `RepliesAreTrue`, `EffectBeforeReply`, `DescriptorsBounded` | 1 connection, 3 messages, 12 layouts |
| `client_shared` | `RepliesAreTrue`, `DescriptorsBounded`, `DroppedIsSeen`, `AnsweredOrHungUp`, `OthersAreServed` | 2 connections, 1 message each, one call may hang |
| `quota` | `OnlyOwnIds`, `PrivateTables` | 2 containers and the host, `int` of 3 bits |
| `quota_commands` | `OnlyOwnIds` | every sub-command, user and project quotas |
| `quota_sync` | violated: see Findings | as above |
| `mknod` | `NodesAreListed`, `MadeAsAsked`, `ListedIsMade` | every 11-bit `dev_t`, strings up to 4 bytes with 3 read, every kind of descriptor |
| `mknod_negative` | violated: see Findings | every descriptor register |
| `user_caps` | `EnteredIsTheCallers`, `RefusedForCause` | 4 kinds of host, 2 requests, 2 changes, death |
| `user_caps_fs_ids` | violated: see Findings | one host with a strict label |
| `async_io` | `NoLostWakeup`, `WorkersNeverBlock`, `EveryUnitIsUsed`, `ClosingIsSeen` | 3 units, 3 events for the other direction |
| `daemon` | `HangupIsFinal`, `NobodyWaitsForever`, `ComesBack` | 2 connections, one call may hang, 3 instances, 1 crash, 2 free descriptors |

Why the bounds are enough:

- Two calls are what inheritance of a pipe end needs (one forks while the other
  has its pipe open); the proofs cover any number.
- Two workers are the fewest the daemon has, and with one no pipe end is ever
  inherited, since `Fork::new()` does not yield. A closure in `Hung` may hang or
  return, so one run has both kinds of behaviour. That a hung closure never
  occupies a worker is `WaitIsShort`, proved for any number of them.
- Three messages cover a buffer that was filled, answered and filled again
  partially. The twelve layouts include every early return of `recv()`.
- Two connections are what inheriting a socket needs.
- A 3-bit `int` has ids on both sides of its sign bit; the maps put a range's
  end next to the neighbour's start and one id past the greatest `int`. The host
  sets quotas for that id and for the one after it, which is nobody's, so an
  enumeration also ends with `ERANGE`.
- For `mknod` each field of a `dev_t` takes at least two values, and the listed numbers
  (major up to 5, minor up to 9) fit the fields below the kernel's end, as they
  do in the code.
- One change per kind of state is enough to make a read stale; two let a value
  change and change again between two reads. Two requests show whether anything
  is left over from the first. Three hosts have the layouts of systemd, the fourth a
  named version 1 hierarchy beside version 2, where the guessed mount point is
  wrong, and a label that cannot be entered.
- Three units and events let one arrive between `WouldBlock` and `clear_ready()`
  after another was used, and one more after that.
- Two leaked descriptors fill the daemon's table of two, so an accept fails with
  a connection in flight; a crash may hit the instance before or after.

Deadlock is checked in `mknod` and `mknod_negative`. CHECK_DEADLOCK is off in
the others: calls, messages, changes and instances are bounded, so their
behaviours come to a legitimate end. That nothing stops earlier is what the
liveness properties state.

### Fairness

- Tasks: weak fairness, since tokio polls every woken task. The steps that need a
  free worker get strong fairness in `Fork`, because a ready task stays in the
  run queue while workers come and go.
- Children: weak fairness of the kernel's scheduler, except a closure in `Hung`,
  which may return or not. `EveryCallReturns` and `AnsweredOrHungUp` have the
  premise that none hangs for ever.
- `AsyncIo`: epoll, the driver and the polling of woken tasks are weakly fair;
  nothing is assumed of the other side.
- `Daemon`: weak fairness of the main thread, of tasks, of systemd
  (`Restart=on-failure` in `etc/pve-lxc-syscalld.service.in`) and of children, except
  those in `Hung`, which may never end, not even after `SIGKILL`.
- `Client` assumes that `forking_syscall()` returns when its closure does; that
  is `EveryCallReturns`, checked in `fork`.
- Panics, crashes, kills and anything a monitor does are never assumed.

### Exceptions the code really has

- When the read end cannot be registered, the child is killed and not waited for
  (`abandoned`): it may still take effect, and stays a zombie.
- A call whose child died without a result waits as long as a *hung* child of
  another call holds a copy of its write end (`DeadIsReturnedUnlessHeld`).
- A panic in a handler closes the socket without `shutdown()`, so the monitor sees
  it only after the children that inherited the socket are gone
  (`OthersAreServed` excludes a panicked task).
- A message that is rejected leaks up to two descriptors, and so does an empty
  one; the connection ends with it (`DescriptorsBounded`).
- A child whose system call hangs keeps the listener and the sockets it inherited
  after the daemon has exited. Monitors queued on that listener, or waiting on such a
  socket for an answer, wait until it ends (`Delays` in `NobodyWaitsForever`).
- Where version 2 cgroups are mounted is guessed (the FIXME at
  `process/user_caps.rs:78`). The guess is right in the three layouts of systemd
  (`SystemdLayout`); elsewhere, such as a version 2 host with a named version 1
  hierarchy, every call is refused. So is a call whose label cannot be entered
  (`Cause`).
- Supplementary groups and the user namespace are not switched, so
  `EnteredIsTheCallers` does not speak of them.
- A label that refuses `SETUID` or `SETGID` takes away what the switch of the ids
  needs (`LetsIdsSwitch`).
- A listed device is still refused for a descriptor that is not an open
  directory, even where an absolute path makes the kernel ignore it
  (`ListedIsMade`).
- Only `accept4()` may sleep in the kernel: the listener is a blocking descriptor
  whose mark is still set after the last waiting connection was accepted. It
  sleeps in the main thread, which has nothing else to do.
- `poll_read()` returns `Pending` without a waker after `WouldBlock`; the blocking
  pipe never gives `WouldBlock`, so it does not happen.
- When the kernel's structures have other sizes, the panic ("refusing to run",
  `lxcseccomp.rs:85`) is in the first connection's task: the daemon has already
  reported READY and goes on accepting connections, each of which ends at once.

### Findings

- `quota_sync`: the header of `sys_quotactl.rs` (line 40) promises `-EOPNOTSUPP`
  for `Q_SYNC` without `special`; `q_sync()` answers `EINVAL` (line 350).
- `mknod_negative`: the comment in `arg_fd()` (`lxcseccomp.rs:399`) says that
  negative descriptors are passed as they are; `OwnedFd::from_raw_fd(-1)` panics,
  also where an absolute path makes the kernel ignore the descriptor.
- `user_caps_fs_ids`: the documentation of `UserCaps` (`process/user_caps.rs:26`)
  says that the file system ids are switched; `setfsuid()` and `setfsgid()` report
  no failure (lines 110 and 112), so the call can be made with other ones.

## Proofs

`ForkProofs`, for any set of calls, any number of workers and any set of hung
calls (assumptions `ForkAssumption`, `ErrnoAssumption`, `NoneAssumption`):

- `TypeCorrect`, `NoChildLeft`, `HandlersGetTheirOwnResult`, `WaitNeverHangs`,
  `PidNeverStale`: the invariants of the run `fork`;
- `ForkRefines`: `Fork` implements `ForkedSyscall`.

The four safety invariants are not inductive. `ForkInv` adds, per call, that a
child before its `_exit()` holds its write end (so end of file means it is
past its closure, hence `WaitIsShort`), that the pipe holds the encoding of
what this call's closure returned (hence `OwnResult`), and what a task in
`wait` or `drop` has read. The proof is local: a step of call `d` leaves
everything the invariant says of `c # d` alone, except that it may add or
remove copies of `c`'s pipe ends in `d`'s own process (`UntouchedInv`,
`OtherStep`); `OwnStep` treats the call's own actions one by one. `DecodeEncode`
is the lemma that the wire format loses nothing a handler can see.

`WaitIsShort` has a consequence worth knowing when `Drop` is changed: at every early
return the child is already past its closure, so without `Drop` children would
remain as zombies (`ReturnedMeansReaped`), but none would take effect late.

`ClientProofs`, for any number of connections and messages, any message layouts
and any set of hung calls (`ClientAssumption`, `ErrnoAssumption`, `NoneAssumption`;
the calls are those of `ForkedSyscall`, which `ForkRefines` justifies):

- `TypeCorrect`; `RepliesStayTrue`: `RepliesAreTrue`; `EffectsComeFirst`:
  `EffectBeforeReply`; `DescriptorsStayBounded`: `DescriptorsBounded`;
  `DropsAreSeen`: `DroppedIsSeen`.

Nothing in `RepliesAreTrue` says why the i-th reply is about the i-th message.
`ClientInv` (in `ClientSteps`) adds, per connection, that the messages received
are those answered plus the one being served, that the inbox continues from
there and that the buffer is about that one (`LineInv`); that no call was made
for a later message and that a call is under way only while its task waits for
it (`WorkInv`, hence `EffectBeforeReply`); and that a handler's result is the
truth about its call when it is about to be sent (`Tells`). `PerformStep` is the
delicate step: a child that was abandoned may still run its closure after the reply,
and the reply stays true because it reported a failure of an abandoned call.
`ClientSteps` shows that a step of one connection leaves the others alone
(`OthersUntouched`) and treats accepting, receiving and ending; `ClientProofs`
treats the handler, `forking_syscall()`, the reply and the closure.

`QuotactlProofs` (assumption `QuotaAssumption`: the kernel only accepts maps
whose entries do not overlap and whose ids are 32 bit numbers):

- `MapRoundTrip`, `MapRoundTripHost`: the two directions of an id map are inverse,
  for maps of any length, from `OneEntry` (at most one entry covers an id);
- `QuotaIsolation`: `OnlyOwnIds` for any containers, maps and width of `int`;
- `QuotaTyped`: `TypeOK`, after every conversion of an id between widths;
- `TablesArePrivate`: `Quotactl` implements `QuotaView` (`PrivateTables`), when
  `PrivateMaps` holds.

`PrivateMaps` is a real condition. The kernel finds the next quota in the order
of host ids, and `q_getnextquota()` answers `ERANGE` when that one is not the
container's. With ranges that do not ascend on both sides, or with foreign
host ids between two of them, an enumeration ends early or out of order; when two
containers share host ids they share quotas. So the theorem asks that the map be
`Orderly` and its host ids be nobody else's. A map of one range, what LXC sets up
by default, is `Orderly` (`OneRangeIsOrderly`), and TLC evaluates `PrivateMaps` for the
maps of the runs (`MCPrivate`). Nothing is asked of the other containers' maps, nor of
what the host sets. The refinement goes by who acts: a request of
somebody else leaves this container's table alone (`OthersStep`), a refused one is
a refusal in the view (`RefusedStep`), and `GetStep`, `SetStep` and `GetNextStep`
are the three that touch an id. In the last, the least host id with a quota is
the image of the least id of the container with one, since the map keeps the order.

`UserCapsProofs`, for any hosts, credentials, labels and cgroups and any number of
requests and changes (`CapsAssumption`: the daemon is root with an unrestricted label;
`BoundAssumption`). Nothing is assumed of the mounts or of the labels that can be
entered:

- `UserCapsTyped`: `TypeOK`; `EnteredAsTheCaller`: `EnteredIsTheCallers`;
  `NeverRefusedWithoutCause`: `RefusedForCause`.

Both properties speak of the end of `apply()` only. The inductive invariant
`Inv` says of every point in between what has been read so far and that the
caller held it (`ReadHeld`), what the child has entered so far (`ChildEntered`)
and what the label and the switch of the ids have left (`ChildSwitched`). Two parts are
less obvious. The umask of a zombie is read as a default it never had; the invariant
lets that stand until `setns()`, which a zombie does not get past. And
"it was moved to another cgroup" is a cause that a later move back could seem to undo:
`Cause` states it over `held`, which only grows until the next request.
`CgroupsEntered` is the lemma about the guess: in a layout of systemd the mount
point is right, and whenever the step succeeds the child is in the cgroups that were
read.

`MknodProofs`, for fields of a `dev_t` of any size, any `int`, any read length, any memory
contents and any descriptors (`FieldAssumption`: no field is empty;
`ArgAssumption`: registers are unsigned, `AT_FDCWD` is below -1):

- `OnlyListedNodes`: `NodesAreListed`; `NodesAreMadeAsAsked`: `MadeAsAsked`;
  `ListedNodesAreMade`: `ListedIsMade`.

A request is one step, so the three together are inductive (`Inv`); the argument is
about data. `SplitsAgree`: for a number that fits the kernel's, the C library's
`major()` and `minor()` and the kernel's are the same; others the C library
refuses. `StringIsRead` and `ReadIsString`: `get_c_string()` returns the
bytes before the first zero exactly when the kernel finds that zero within the
read's length, looking only at the bytes that were read.
`DirIsKernels` and `PathIsKernels` conclude that directory and path are the ones
the kernel would use, `EarlyPasses` and `LibcPasses` that a good request for a listed
device passes every early return.

`AsyncIoProofs`, for any number of units and events (`AsyncIoAssumption`):

- `WakeupsAreKept`: `NoLostWakeup`; `OnlyAcceptSleeps`: `WorkersNeverBlock`.

`AsyncInv` adds that what is there is marked or its event is on the way, also when
a task is about to clear the mark, unless its tick is out of date (`Marked`), and that a
pipe is marked only while it has its result or is closed (`PipeReady`): the
second is why the blocking read never sleeps.

`DaemonProofs`, for any connections, limits, faults and instances
(`DaemonAssumption`):

- `NoEffectAfterHangup`: `HangupIsFinal`. A child at work belongs to a request
  without an answer and holds its own connection's socket (`OwnSocketHeld`), so
  that socket cannot have ended; the backlog never has a connection twice
  (`QueueWaits`), so accepting one does not disturb another's child.

Every invariant, action property and refinement that a passing run checks is proved. Only
model-checked are the liveness properties: `EveryCallReturns`,
`DeliveredIsReturned`, `DeadIsReturnedUnlessHeld`, `AnsweredOrHungUp`,
`OthersAreServed`, `EveryUnitIsUsed`, `ClosingIsSeen`, `NobodyWaitsForever` and
`ComesBack` (fairness and `ENABLED` are outside what TLAPS 1.4.5 can do). The
three violated properties are false, so there is nothing to prove.

## Not modelled

- The command line, logging and the text of `/proc` files: only the outcome of
  parsing matters. Maps, cgroups and status appear as values.
- Code that is never called: the `AsyncWrite` of `Pipe`, `pipe()`, `poll_fn.rs`,
  `disable_uid_change()`, `disable_cgroup_change()`, unused argument accessors.
- `tools.rs` and `rw_traits.rs`: type wrappers without state.
- The query of the structure sizes in `seccomp.rs`: only its outcome (`sizesOk`).
