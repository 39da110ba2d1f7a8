# TLA+ models of the LSPosed dex2oat wrapper

These modules model the dex2oat interception pipeline of this repository:
- the wrapper launcher, which replaces `dex2oat`;
- the trusted server's JNI side, which detects the root backend and answers deny-list questions;
- the header interceptor `liboat_hook`, which rewrites the `dex2oat-cmdline` field of the OAT header.

Every definition is translated from the C/C++ sources under `src/`. `PROJECT.json` holds three things:
- `map`, which names the source lines each definition stands for;
- `runs`, which lists the TLC runs;
- `hazards`, which lists what is hard to test in this code.

## 1. Inventory

### Components and the state they keep

| Component | Source | State | Operations |
|---|---|---|---|
| Header Interceptor | `src/dex2oat/src/main/cpp/oat_hook.cpp` | `g_binary_path`; the hook table (which OatHeader symbol is redirected); the OAT key/value store, with a 4-byte size before it | `initialize` (constructor: scan the maps, register the `GetKeyValueStore` hook, fall back to `ComputeChecksum`); the two hooked functions; `SpoofKeyValueStore` (walk, in-place rewrite, or rebuild with `WriteKeyValueStore`); `process_cmd` |
| Root Backend Detector / Denylist | `src/daemon/src/main/jni/dex2oat.cpp` l.120-494 | process-wide `root_impl`, `path_to_magisk`, `is_using_sulist` | `isInDenylist`; `ksu_get_existence`, `magisk_get_existence`, `apatch_get_existence`; `ksu_is_in_denylist`, `magisk_is_in_denylist`, `apatch_uid_should_umount` with `_apatch_get_package_config`; `exec_command` (fork, execv, read the pipe, wait) |
| Mount Installer | `src/daemon/src/main/jni/dex2oat.cpp` l.33-81 | the mount table of the init mount namespace | `doMountNative(enabled, r32, d32, r64, d64)`: fork; the child enters pid 1's namespace and does bind+remount-ro or umount per path, then `exit(1)` |
| Wrapper Launcher (legacy) | `src/dex2oat/src/main/cpp/dex2oat.c` | its fds (`sock_fd`, `stock_fd`, `hooker_fd`), argv, env | `main`: fetch the stock fd (op 1), parse `--classpath-dir=`, ask the denylist (op 2), fetch the hook fd, then `fexecve` the stock fd with `LD_PRELOAD` |
| Wrapper Launcher (new) | `src/dex2oat/src/main/cpp/dex2oat.cpp` | the same | `main`: fetch the stock and hook fds (bare id, then a sync int), then `execve` the linker with `[linker, /proc/self/fd/N, argv[1..], --inline-max-code-units=0]`, `LD_PRELOAD` and `DEX2OAT_CMD` |
| Descriptor Transport server | Java `Dex2OatService` (not in `src/`) | pre-opened binaries | answers one request per connection |
| `setSockCreateContext`, `getSockPath` | daemon `dex2oat.cpp` l.83-113 | none that persists | write an SELinux context; return a constant |

### How the components interact

The launcher connects to the server's abstract socket once per request. The server answers denylist requests by calling `isInDenylist`. It does this on its binder/socket threads, so several calls run at once and share the detector's globals. The launcher then execs the real compiler, and `liboat_hook` is preloaded into it.
- `liboat_hook`'s constructor installs a PLT hook.
- ART calls the hooked function one or more times per OAT header.
- Each call re-parses the same store in memory.

The launcher passes `DEX2OAT_CMD`, and the hook reads it to rebuild the original command path.

### What is hard

- **Concurrent detection.** Several `isInDenylist` calls race on `root_impl` and `path_to_magisk`, with no lock.
- **Failures inside `exec_command`.** Any of these can fail: the pipe, the fork, the exec in the child, or the read.
- **One child table for the whole daemon.** `exec_command`'s `wait(NULL)` reaps any child, also the `doMountNative` child; its pipe is not `O_CLOEXEC`, so every fork of the daemon copies the write end, and the read sees end of file only when all the copies are closed.
- **Undefined behaviour:**
  - a read of uninitialised bytes (`atoi` after a failed `apd -V`);
  - a use after free of `app_name`;
  - `getenv` returning NULL into a `std::string`.
- **Untrusted binary layout.** The store walk meets padding, the end of the store, and the bytes behind it.
- **Repeated hook calls.** The hooked getter is called again after an earlier call has already rewritten the store.
- **Partial failures in the launcher.** The fetch of one of two fds fails.

### Properties that make each component correct

- **Interceptor:**
  - after any sequence of hooked calls, the store holds the same pairs as ART wrote, with only the command line cleaned;
  - the walk never reads outside `[store, store_end)`;
  - a rebuild never grows the region;
  - every hooked call returns.
- **Detector:**
  - each answer equals the deny-list policy of the device's one backend (KernelSU: umount flag of the uid; Magisk: deny-list, or not-in-SuList; APatch: exact name, first row);
  - detection runs at most once (spec §3).
- **Launcher:**
  - the stock fd is valid whenever an exec uses it;
  - a deny-listed package runs the stock compiler with the original argv;
  - a non-deny-listed package runs through the linker with the flag and the preload;
  - the exit codes are 1 and 2 as spec §6 says.
- **Mount:**
  - after `Disable` the path resolves to the original binary, whatever `Enable`s came before (spec §4.5 idempotence).

## 2. Modules and runs

### `OatHook.tla` (Header Interceptor)

**State**
- `mem` is the store followed by a few bytes behind it.
- `size` is the 4-byte size field.
- `hook` is the symbol that `initialize` redirected.
- `pc` is the control point: `load`, then `idle` or `parse`.
- `ptr`, `storeEnd`, `newMap` and `modified` are the locals of `SpoofKeyValueStore`.
- `calls` counts hooked calls, up to `MaxCalls`.
- `before` holds the pairs ART wrote, and is used only by the properties.
- `oob` records a read past `store_end`.

**Actions**

| Action | Code it models |
|---|---|
| `initialize` | the constructor |
| `CallHooked(sym)` | ART calling one of the two OatHeader functions; it starts `SpoofKeyValueStore` only if that symbol is the hooked one |
| `ParseEntry` | one iteration of the `while` loop, including the padding skip |
| `SpoofInPlace` | the in-place branch and its `return true` |
| `EndParse` | the rebuild with `WriteKeyValueStore` and the new size |

**Operators**
- `process_cmd` is split (`SplitBySpace`, RECURSIVE), replace argv[0], filter, join (`FoldLeft`).
- `Serialize` writes the map in `std::map` key order.

**Data abstraction**
- Bytes are one-character strings, and `"0"` is NUL.
- The injected flag is the one-byte token `f`, the command key is `k`, and `BinaryPath` is `pp`.
- Lengths are scaled: the fd path (1 byte) is shorter than `BinaryPath` (2 bytes), and `BinaryPath` is shorter than the fd path plus the flag. This matches `/proc/self/fd/N` and `/system/bin/dex2oat`.

**Runs**
- **`oathook_spoof`** (pass) uses `MC_OatHook.cfg`.
  - Stores are laid out as ART writes them: an optional non-deterministic key `a` with 0-1 bytes of padding, the command line `k` with 0-2 bytes of padding, and a last deterministic key `r`.
  - Command lines have 0-1 user arguments, and one of them may be a flag-like token.
  - There are up to 2 hooked calls, which is enough for the re-parse of a rewritten store.
  - Properties: `TypeOK`, `SpoofPreservesStore`, `ParseStaysInStore`, `CmdLineRestored`, `RebuildFitsRegion` (action property). Termination of the parse loop is not kept as a property: every iteration of l.112-163 breaks, returns or moves `ptr` past the value, so it follows from `NextPtr` alone.
  - `CmdLineRestored` checks the whole rewrite against a reference that does not use the code's operators. `ArgvString` joins words with single spaces, as dex2oat records its argv. After a hooked call, a cmdline recorded as `fd-path args flag` must read `DEX2OAT_CMD args`. `SpoofPreservesStore` compares the store with `process_cmd`'s own output; this property compares it with what installd ran.
- **`oathook_padded_last`** (violation) uses the same stores without the trailing key, and the checksum hook.
  - The first call rewrites the command line in place.
  - On the second call, the padding skip at `oat_hook.cpp:159` runs past `store_end` into the bytes behind the store.
  - In ART the command-line key is not the last one today, so this is latent. It still contradicts spec §3: parsing must stop at the declared region end.
- **Seen while modelling, not kept as a run:** when an installd argument is the flag itself, `CmdLineRestored` fails. `std::remove` in `process_cmd` drops every token equal to `--inline-max-code-units=0`, including one the user passed through `dalvik.vm.dex2oat-flags`.

### `Denylist.tla` (Root Backend Detector)

**State**
- The globals `root_impl`, `path_to_magisk` and `is_using_sulist`.
- Per request: `pc`, `app`, `uid`, `answer`, `failed` (some `exec_command` or file read failed).
- `dev` is the device, fixed at Init. It holds which backend binaries exist, what they answer, the uid of each app's data dir, and the APatch config rows.

**Actions**

| Action | Code it models |
|---|---|
| `Begin` | lines 429-455 up to the detection |
| `KsuProbe` | `ksu_get_existence` |
| `MagiskProbe` | `magisk_get_existence` |
| `ApatchProbe` | `apatch_get_existence` |
| `Dispatch` | lines 461-494 with the backend query |
| `NewCall` | the server calling again (spec-modelled: the caller is Java) |

- Each probe is one step, so two requests can interleave between probes as binder threads do.
- `exec_command` has three outcomes: returns true with output, returns false (pipe or fork failed), or returns true with an empty buffer (the child's execv failed).

**Undefined behaviour is modelled as nondeterminism**
- The version read after an empty `apd -V` is any member of `GarbageVersions`.
- With `FreedNameReused`, the freed `app_name` may read as the name of a config row strdup'ed after it.

**Refinement (`DenylistAbstract.tla`).** This module is the service the spec describes (spec 3, 4.4 and 7), with no threads and no system calls:
- `cache` is the backend, written once: `Detect` moves it from `"none"` to the device's active backend in one step.
- `Reply(r)` answers atomically: the policy of the active backend for the package, or a fail-open `FALSE`. A `TRUE` is only given once `cache` holds the backend.
- `Ask(r)` is the next call.
- Every call returns: `Reply` is weakly fair.
- `ActiveBackend` and `Policy`, the spec's deny-list rules, live here. `Denylist` uses them through its instance `Abs`.

`Denylist` maps onto it:
- `cache` is `root_impl` named by `BackendName`;
- a request is `"done"` once `pc` is `"done"`, and `"busy"` before;
- `dev`, `app` and `answer` map to themselves.

Under this mapping, every probe step that writes `root_impl` for the first time is `Detect`. A later write of the same value by a concurrent probe is a stuttering step. Every return is a `Reply`, and every other step is stuttering. `ImplementsAbstract` (`Abs!Spec`) says three things that `AnswerMatchesPolicy` does not:
- the detection cache is write-once, even with concurrent probes;
- answers on failed paths are fail-open;
- every call returns, under the per-request fairness of the code.

**Runs** (all with two concurrent requests and two apps)
- **`denylist`** (pass): devices with no backend, KernelSU, Magisk (deny-list mode), or APatch at 10655 or 10000. Uid maps cover distinct uids, a shared uid, a missing data dir and a root-owned dir. Config files cover: empty, one row, two rows, duplicate names, and an incomplete row. Properties: `TypeOK`, `AnswerMatchesPolicy`, `ImplementsAbstract`. This run has no symmetry reduction, because it checks liveness.
- **Violation runs**, each of `AnswerMatchesPolicy`:
  - `denylist_sulist`: Magisk in SuList mode. `is_using_sulist` is never set, so the deny-list table is queried.
  - `denylist_uaf`: the freed `app_name` chunk is reused by the strdup of a config row, and the query matches that row.
- **Seen while modelling, not kept as runs:**
  - With apps `a` and `ab`, APatch's shorter-length compare matches a prefix. Spec 9 already documents this.
  - An in-range garbage version caches APatch as the backend for every later call. `ImplementsAbstract` fails on the `Detect` step of the mapping.
  - With no backend, every call probes again, because only a found backend is cached. Spec 3 says detection happens at most once.

### `Launcher.tla` (Wrapper Launcher, both variants)

**Variants.** `variant = "legacy"` is `dex2oat.c` and `"new"` is `dex2oat.cpp`. The build is chosen in `Init` from the constant `Variants` and never changes, so one run can check both builds, one per behaviour.

**State**
- `argv` and `ldpath` (whether `LD_LIBRARY_PATH` is set) come from Init.
- `open` is the set of descriptors open in the process.
- `stock` and `hooker` are the received fds.
- `pkg` and `answer` come from the denylist exchange.
- `failure` is the first step that failed.
- `exec` is the image the process became (fd or linker, argv, preload).
- `exit` is the exit code.
- `variant` is the build that runs.

**Actions.** There is one action per block of `main()`:

| Variant | Actions |
|---|---|
| legacy | `LegacyConnect`, `LegacyFetchStock`, `LegacyScan`, `LegacyDeny`, `LegacyFetchHook`, `LegacyRelaunch` |
| new | `NewFetchStock` and `NewFetchHook` (both `NewFetch`), `NewExec` |

**The daemon.** The Java `Dex2OatService` is not in this repository. Its replies are the outcomes spec 4.1 allows:
- connect fails (`ConnectMayFail`);
- the `recvmsg` of a fetch brings a descriptor, a malformed message, or fails (`RecvOutcomes`);
- the int read gets the reply, an error, or end of stream (`ReadOutcomes`).

Denylist answers follow `Denied`.

**What the code does with a failed receive or read**
- `dex2oat.cpp`'s `recv_fds` returns NULL when `recvmsg` fails, so `recv_fd` gives -1 (`NewRecvFd`).
- `dex2oat.c`'s `recv_fds` ignores `recvmsg`'s result. On failure the kernel leaves `msg_controllen` at the buffer size, and the checks read the uninitialised `cmsgbuf`. That buffer is on the stack at the same place as the previous `recv_fd`'s. `LegacyRecvFd` gives -1, or the descriptor the earlier call received (`stock_fd` for the hook fetch).
- Legacy `read_int` loops on `read()` returning 0, so end of stream is a state with no successor (`spin`).
- `fexecve` of a closed or `-1` fd fails.
- `execve` of the linker succeeds whatever fd path it is given.

**Argvs** (`MC_Launcher`):
- argv[0] is `dex2oat` or `dex2oatd`; the id sent depends on it.
- Classpath dirs have the Android 11+ app layout, an APEX layout or an unknown layout.
- Some argvs have no classpath, or two classpath arguments.
- `MC_OldArgvs` adds an Android 10 app dir.
- Package `pa` is deny-listed.

**Runs**
- **`launcher`** (pass; 383 states, both builds): `TypeOK`, plus `LegacyDeniedNeverHooked`, which is `DeniedNeverHooked` of the `dex2oat.c` build. A malformed reply or a failed `recvmsg` may come for any fetch, but the daemon never closes a connection without replying. `dex2oat.cpp` fails `DeniedNeverHooked` (`launcher_new_no_denylist` below), so only its typing is checked here.
- The new variant's pass run is `pipeline` (below).
- **`launcher_legacy_eof`** (`Variants = {"legacy"}`) (violation, `LauncherTerminates`): `read_int` in `dex2oat.c` never returns at end of stream.
- **`launcher_new_invalid_fd`** (violation, `ExecInputsValid`): `dex2oat.cpp` checks neither fd, so it execs the linker on `/proc/self/fd/-1`.
- **`launcher_new_no_denylist`** (violation, `DeniedNeverHooked`): `dex2oat.cpp` never asks the daemon, against spec 4.2 step 3.

**Seen while modelling, not kept as runs:**
- With the `launcher` cfg, `ExecInputsValid` fails for `dex2oat.c`. The hook fetch's failed `recvmsg` (l.60) leaves the control buffer of the stock fetch, so `hooker_fd` is the stale `stock_fd`, and `LD_PRELOAD` names the compiler binary in place of `liboat_hook`. This is a finding without a run of its own.
- `dex2oat.c` leaks the socket of l.129 into the compiler, against spec 5 (no socket survives the exec).
- A failed hook fetch in `dex2oat.c` ends in exit code 2, a relaunch failure by spec 6, although the cause was the transport.
- For `dex2oat.cpp` the socket closes, the exit codes and termination hold by construction: `main()` is straight-line, and each exit names its cause. They are therefore not kept as properties.
- An Android 10 app dir gives a wrong package name. `DeniedNeverHooked` fails with `MC_OldArgvs`.

### `Pipeline.tla` (Wrapper Launcher and Header Interceptor together)

One dex2oat invocation end to end. The wrapper and the hook meet at the relaunch contract of spec 6:
- what the wrapper passes to `execve` (argv and `DEX2OAT_CMD`) becomes the command line that dex2oat records;
- the same `DEX2OAT_CMD` is the hook's `g_binary_path`.

**Composition.**
- `L == INSTANCE Launcher WITH pc <- lpc` is the wrapper.
- `HI(cmd, stores, fdarg, args)` instantiates `OatHook` with `pc <- hpc`. The hook's constants that come from the wrapper are parameters: `BinaryPath` is `g_binary_path`, and `InitStores` is the store dex2oat builds.
- The hook steps bind those parameters to `HookIn(exec)`, which is computed from the image the wrapper started.
- `stage` records which side runs: `"wrapper"`, then `"compile"`, `"stock"`, `"failed"` or `"crashed"`.

**Actions**
- `WrapperStep` is `L!Next`.
- `HookStep` is the hook's `Next`: `initialize`, ART's calls, and the parse loop.
- `Start` is the image starting:
  - the linker maps the executable and the preload, or stops with "CANNOT LINK EXECUTABLE" when either descriptor is not open (`Loadable`);
  - without a preload, the compiler runs unhooked;
  - with an unset `DEX2OAT_CMD`, the hook's namespace-scope initialiser (`oat_hook.cpp` l.24) builds a `std::string` from NULL and crashes;
  - otherwise dex2oat has its store, with the cmdline pair holding its argv.

**The environment, modelled from spec 6 and not from code of this repository.**
- `CompilerArgv` is the linker's argv shift.
- `CmdLine` is dex2oat's space-joined argv.
- `StoreWith` and `Stores` place the cmdline pair among other pairs (`Layouts`).

**Bounds** (`MC_Pipeline`):
- argv[0] is `dex2oat` or `dex2oatd`, plus zero to two other arguments, one of which holds the flag's text;
- the cmdline has 0 to 2 bytes of NUL padding (the in-place and the rebuild path), with or without a padded pair before it;
- the daemon may fail every exchange, as in `launcher`, and may also close without replying.

**Run**
- **`pipeline`** (pass; 1,199 states): `InvocationIndistinguishable`, which has two parts:
  - a hooked compile never crashes;
  - after each hooked call, the store's `dex2oat-cmdline` is exactly the command installd ran, argv[0] included. This holds across both write paths, a repeated call, and an argument that contains the flag's text.

**Seen while modelling, not kept as a run:** with `Variants = {"legacy"}`, every hooked relaunch by `dex2oat.c` ends in `"crashed"`. `dex2oat.c` never exports `DEX2OAT_CMD`, so `InvocationIndistinguishable` fails. No build file in the repository says whether `dex2oat.c` is still built alongside this `liboat_hook`.

### `Mount.tla` (Mount Installer)

**State**
- `mounts` maps each path to its stack of wrapper bind mounts in pid 1's namespace. Each mount records whether it is read-only.
- `enabled` is the Java service's flag.
- `call` is the running call: the on/off request, the next path, the next step, the mount namespace of the process taking the child's branch (`ns`), and that process (`proc`): the child, or the daemon itself when `fork()` failed.
- `asked` holds what the last finished call asked, and is used only by the properties.

**Actions**
- `Enter` is the child's prologue (l.42-50). It opens `/proc/1/ns/mnt` and calls `setns`, ignoring both results. With `SetnsMayFail`, it may stay in the daemon's namespace; its mount syscalls then change nothing installd sees (`InPid1`). It then calls `GetStringUTFChars` in the forked child of a multi-threaded JVM. With `JniMayHang`, that call may block for good, on a lock another thread held at fork.
- `ChildStep` is one `mount`/`umount` syscall of the child. With `UmountMayFail`, an `umount` may fail with EBUSY. With `MountMayFail`, a bind or a read-only remount may fail (`MountCall`). The child ignores the result (l.72-75), so the mount stays and the child goes on to the next path.
- `ChildExit` is the `exit(1)` of l.78-79. In the child, the child becomes a zombie and its inherited descriptors close. In the daemon (a failed fork), the daemon ends with all its threads, and the call is `dead` until `Restart`.
- `Waitpid` is the parent's `waitpid(pid)` (l.40). It returns once the child is a zombie, or at once with ECHILD when an `exec_command` `wait(NULL)` reaped it first.
- `Toggle` also forks the child (l.39), which inherits the pipe write ends the daemon holds at that moment. With `ForkMayFail`, `fork()` returns -1 and the daemon runs the child's branch itself: its `setns` fails (EINVAL, since its threads share one fs context), so its mounts stay in its own namespace.
- `Thread(t)` and `Kid(t)` are the steps of `ExecCommand` on binder thread `t` and of its child; they leave the mount state alone.
- `Toggle` is the caller calling only when its flag changes.
- `Restart` is a daemon restart, between calls or after the daemon's own `exit(1)`. The flag is lost and the mounts stay. An `exec_command` call that was cut short is made again. The caller side of `Toggle`, and `Restart`, are spec-modelled.

**Runs**
- **`mount`** (pass, 200,754 states): 5 calls, 1 restart, `umount` may fail, `fork()` of `doMountNative` may fail, and one binder thread runs an `exec_command` call whose pipe or fork may fail. Property: `ExecReturns`, a liveness property: the `exec_command` call returns unless the daemon exits under it, also when the mount child holds a copy of its pipe's write end and when `wait(NULL)` reaps the mount child. `MountMayFail`, `SetnsMayFail` and `JniMayHang` are FALSE here.
- With every fault switch off, the mount table's own invariants (every enabled path bound, every bind read-only) restate the child's loop, so they are not kept as properties. The faults that break them are listed below in terms of `ResolvesAsAsked`.
- **`mount_restart`** (violation, `ResolvesAsAsked`): every `umount` succeeds. Enable, restart, enable, disable leaves the wrapper mounted. Spec 4.5 says each operation is idempotent per path.

**Seen while modelling, not kept as runs** (the `mount` cfg with one fault switched on; for `ResolvesAsAsked`, with no restart and every `umount` succeeding):
- `SetnsMayFail = TRUE`: `ResolvesAsAsked` fails. The child binds the wrapper in the daemon's namespace, and pid 1's path still shows the stock dex2oat.
- `MountMayFail = TRUE`: `ResolvesAsAsked` fails on a failed bind. A failed remount leaves a writable bind of the wrapper.
- `ForkMayFail = TRUE`: `ResolvesAsAsked` holds, but the daemon ends in its own `exit(1)`: the call never returns, and every binder thread dies with it.
- `JniMayHang = TRUE`: the parent's `waitpid` never returns, and the service can make no further call. `ExecReturns` fails: a mount child forked while the thread held its write end hangs with the copy, and the thread's `read` never sees end of file.
- In the `mount` run as it is, the thread's `wait(NULL)` can reap the mount child. `waitpid` then gets ECHILD and the call returns, but the thread's own child stays a zombie after both calls are done: one leaked process per such race.

### `ExecCommand.tla` (`exec_command`, composed into Mount)

**State**
- `tpc`: the next step of each thread's call (`pipe`, `fork`, `close`, `read`, `wait`, `done`).
- `kid`: the daemon's child table. Each thread's child and each slot of `OtherKids` (the mount child) is `none`, `run` or `zombie`.
- `wend`: for each thread's pipe, the processes holding its write end (`daemon` and children).
- `wrote` and `result`: whether the child wrote output, and what the call returned (`out`, `empty`, or `fail`).

**Actions** (l.120-162): `Pipe` and `Fork`, each of which may fail with `ExecMayFail`. `Fork` copies every write end the daemon holds into the child (`Inherit`). Then `CloseWrite`, and `Read`, which returns on output or when no write end is left. `Wait` reaps any zombie or fails at once when there is no child. `KidWrite` and `KidExit` (`Exited`) are the child's steps. `Mount` extends the module. `Toggle` forks into the same table. The threads stop when the daemon exits, and `Restart` starts their cut-short calls again.

`Denylist` keeps `exec_command` as its three outcomes. Composing these steps into its requests and devices is out of TLC's reach.

### Fairness

- **OatHook:** `ParseEntry`, `SpoofInPlace` and `EndParse` are weakly fair. The loop of `SpoofKeyValueStore` runs on the thread that called the hook, with nothing to wait for. ART's calls (`CallHooked`) are not fair: the compiler may stop calling.
- **Denylist:** each request's internal steps are weakly fair: each runs on its own binder thread, and nothing it does blocks on another request. New calls are not fair. This fairness is what lets `ImplementsAbstract` show `WF(Reply(r))` of the abstract specification.
- **Launcher:** `WF_vars(Next)`. `main()` is one thread that waits only on the daemon, and the daemon's failure to answer is an explicit outcome, not unfairness.
- **Pipeline:** `WrapperStep`, `Start` and the parse loop are weakly fair. `Start` stands for the kernel and the linker continuing an exec. ART's calls are not fair, as in `OatHook`.
- **Mount:** the child's steps (`Enter`, `ChildStep`, `ChildExit`) and the parent's `Waitpid` are weakly fair; so is the daemon running the child's branch after a failed fork. The child is a process of its own, which the kernel schedules, and the parent waits for it. Each thread's `exec_command` steps, and its child's exit, are weakly fair for the same reason. The child's write is not fair, because a binary may print nothing. The caller and restarts are not fair.

## 3. Plan

Most important first. Each run answers its own question. New properties join the run that asks the same question.

1. **Done: `OatHook`.** The header interceptor, 40% of the system by spec 2.
2. **Done: `Denylist`.** The shared detection state and the only real thread-level concurrency.
3. **Done: `Launcher`.** Both wrapper variants, against a spec-modelled daemon.
4. **Done: `Mount`.** `doMountNative` across daemon restarts.
5. **Done: the command rewrite against a reference.** `CmdLineRestored` in `oathook_spoof` compares the store, after each hooked call, with the command installd ran, built by `ArgvString` and not by the code's operators. A flag passed by the user shows the `std::remove` divergence. Idempotence (spec 8.3) is not kept as a property: no plausible change to `process_cmd` breaks it.
6. **Done: `Pipeline`.** `Launcher` and `OatHook` composed by INSTANCE. `InvocationIndistinguishable` checks end to end that the stored `dex2oat-cmdline` equals the original invocation (spec 8.7). Its run replaces `launcher_new` and keeps that run's properties.
7. **Done: `DenylistAbstract`.** Refinement with a write-once cache and fail-open answers, checked as `ImplementsAbstract` in the `denylist` run.
8. **Done: Mount failures.** A failing `umount` (EBUSY) is an outcome of the `mount` run. A failed bind or remount (`MountCall`), a failed `setns` and a child hung in JNI (`Enter`) are outcomes behind switches, and a failed `fork()` is an outcome of the `mount` run.
9. **Done: `ExecCommand`.** The `exec_command` calls share the daemon's child table and descriptors with the mount child, composed into `Mount`. `ExecReturns` is the liveness of the call.

## 4. Not modelled

- The trusted Java server's own code. It is not in `src/`, and only the spec's contract for it will be modelled.
- Two `exec_command` calls at once. Their product with the mount child's four paths takes TLC hours. The checked instance has one call beside the mount child, which covers `wait(NULL)` reaping a foreign child and an inherited write end, but not two calls reaping each other's children or ECHILD in `exec_command`.
- Logging; `setSockCreateContext` and `getSockPath`, which have no state a property could tell apart.
- The real byte strings, such as paths, names and the SQL text. They are abstracted to one-character tokens, which keep the length relations that the code's decisions depend on.
- ELF scanning and the PLT patching inside lsplt. Only their outcome is modelled: which symbol is hooked, or none.
