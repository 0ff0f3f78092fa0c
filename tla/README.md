# Verification of node-opencl

node-opencl binds the OpenCL C API to Node.js, one JavaScript function per C
function. The compute work is the driver's; what this code adds, and what can go
wrong in it, is

- **who owns which reference to a driver object** (`Handles`, `HandlesBalance`,
  `Devices`),
- **how the driver's callbacks reach JavaScript** (`EventCallback`,
  `BuildCallback`),
- **what commands wait for, and what the main thread waits for**
  (`CommandQueues`),
- **who frees memory the two sides share** (`HostMemory`), and
- **whether numbers, kernel arguments and binaries arrive as they were given**
  (`Conversions`, `KernelArgs`, `ProgramBinaries`).

Paths are relative to the repository (`src/types.h` is the file of that name in
its `src` directory).

## 1. Inventory

| component | code | state it keeps | operations |
|---|---|---|---|
| Handle wrappers | `src/types.h`, one `.cpp` per kind | `raw`, `released` per wrapper; the driver's reference counts | `create*`, `retain*`, `release*`, `get*Info` answering a handle, the destructor |
| Exit handling | `lib/opencl.js`, `src/types.cpp` | none | SIGINT handler, `exit` handler, `releaseAll` |
| Event callbacks | `src/event.cpp` | `NoCLEventWorker`: `uv_async_t`, `mCLCallbackStatus`, Persistents | `setEventCallback`, `setUserEventStatus`, `notifyCB`, dispatch, `HandleOKCallback`, destructor |
| Build and SVM callbacks | `src/program.cpp`, `src/svm.cpp` | `NoCLProgramWorker`, `NoCLSVMWorker` | `buildProgram`, `compileProgram`, `linkProgram`, `enqueueSVMFree`, `notifyPCB`, `notifySVMCB` |
| Command queues | `src/commandqueue.cpp`, `src/event.cpp` | in the driver: queued commands, wait lists | `enqueue*`, `flush`, `finish`, `waitForEvents` |
| Host memory, map and unmap | `src/memobj.cpp`, `src/commandqueue.cpp`, `src/common.cpp` | pointers into ArrayBuffers held by the driver | `createBuffer` with a host pointer, reads and writes, `enqueueMap*`, `enqueueUnmapMemObject` |
| Shared virtual memory | `src/svm.cpp` | pointers wrapped as ArrayBuffers | `SVMAlloc`, `SVMFree`, `enqueueSVM*` |
| Kernel arguments | `src/kernel.cpp` | in the driver: argument values | `setKernelArg`, `PrimitiveTypeMapCache`, `setKernelArgSVMPointer` |
| Devices and sub-devices | `src/device.cpp` | in the driver: sub-device counts | `createSubDevices`, `retainDevice`, `releaseDevice`, `getDeviceInfo` |
| Program binaries | `src/program.cpp` | binaries wrapped with no release | `getProgramInfo`, `createProgramWithBinary` |
| Conversions and errors | `src/common.h`, `src/common.cpp` | none | `REQ_ARGS`, `CHECK_ERR`, `getPtrAndLen` |
| Platform and plain queries, constants | `src/platform.cpp`, `src/addon.cpp`, ... | none | queries, registration |

How they interact. All handlers run to completion on Node's main thread, and so
do destructors (V8 calls them between or inside handlers that allocate). Driver
threads run `notifyCB`, `notifyPCB` and `notifySVMCB`. The uv pool runs the empty
`Execute()` of every worker. The uv loop calls back into JavaScript. Handles and
callbacks share one thing: a worker's Persistents keep the event, program or
queue wrapper it will pass to JavaScript from being collected.

What is hard. Reference counts change at moments V8 chooses; addresses are
reused; a wrapper gives back its reference once, however often it is asked;
the driver's threads race the loop, the end of the process and libuv's own
counters; a refused call leaves half of its work behind; calls that block the
main thread may wait for what only JavaScript can do; memory is shared with the
driver longer than a call lasts.

What makes each part correct.

- Wrappers: every reference the driver counts belongs to exactly one owner;
  an owner's object is alive and of the right kind; a program that pairs its
  calls loses no object.
- Callbacks: called once, after the fact, with the right status; the worker is
  destroyed after its last use; the process neither ends while a call is owed
  nor stays when none is.
- Queues: a blocking call returns unless it waits for something only JavaScript
  can do; wait lists reach the driver and are respected.
- Devices: a sub-device's count is what the program was given and did not give
  back; a wrapper that was given with a reference names a live sub-device.
- Host memory: there are rules a program can follow so that the driver never uses
  memory V8 has freed and JavaScript never uses memory the driver has taken back.
- Conversions, binaries, kernel arguments: what reaches the other side is what
  was given, and it is known exactly when it is not.

## 2. Modules

| module | what it is |
|---|---|
| `Handles` | wrappers, handlers that create, retain, release and query, collection, the driver's counts and destruction |
| `HandlesBalance` | extends `Handles` with what a program's calls add up to, and the end of the process |
| `HandlesProofs` | theorems on `Handles` |
| `HandlesBalanceProofs` | theorems on `HandlesBalance` |
| `CallbackOnce` | abstract specification of a JavaScript callback: once, afterwards, not lost |
| `EventCallback` | `setEventCallback` from registration to call; implements `CallbackOnce` |
| `EventCallbackProofs` | theorems on `EventCallback`, with the safe part of the refinement |
| `BuildCallback` | callbacks of build, compile, link and SVM free; implements `CallbackOnce` with one reservation |
| `BuildCallbackProofs` | theorems on `BuildCallback`, with the safe part of the refinement |
| `CommandQueues` | the `enqueue*` handlers, wait lists, user events, and the calls that block the main thread |
| `CommandQueuesProofs` | theorems on `CommandQueues` |
| `HostMemory` | ArrayBuffers, memory objects, SVM, mapped memory and kernel arguments: which block each uses and who frees it |
| `HostMemoryProofs` | theorems on `HostMemory` |
| `Devices` | sub-devices, their counts and wrappers, and the queries that answer devices |
| `DevicesProofs` | theorems on `Devices` |
| `Conversions` | widths of numbers in both directions, origins and regions |
| `KernelArgs` | `setKernelArg` as a function of declared type, type name and value |
| `ProgramBinaries` | builds, the two reads of `getProgramInfo`, `createProgramWithBinary` |
| `MCHandles`, `MCHandlesBalance`, `MCHostMemory`, `MCDevices` | symmetry sets and bounds for TLC |
| `MCMarshalling` | puts `ProgramBinaries`, `KernelArgs` and `Conversions` into one run |
| `MarshallingProofs` | theorems on the three |

`ProgramBinaries` and `KernelArgs` extend `Conversions`. `HandlesBalance` composes the counting calls of `Handles` with the exit handler;
`EventCallback` and `BuildCallback` instantiate `CallbackOnce` under a refinement
mapping.

### Handles

| TLA+ | code |
|---|---|
| `raw`, `released` | the fields of `NoCLWrapper` |
| `type[w]` | which template instance the wrapper is (`prototype(id)`), `"none"` for a place with no wrapper in it |
| `kind`, `context`, `assoc`, `refs` | the driver's objects: kind, context, the object they depend on, reference count |
| `extra` | history variable: references added by `retain*` |
| `Unwrap` | `NOCL_UNWRAP` and the driver's check of the handle |
| `Create`, `Acquire`, `Release`, `WrapRetained` | `NOCL_WRAP` of a new object, `acquire()`, `release()`, retain-and-wrap of `get*Info` |
| `Create...`, `Retain...`, `Release...`, `Get...Info` | the handlers of those names |
| `EnqueueWithEvent` | an `enqueue*` handler asked for an event (`RETURN_EVENT`) |
| `Collect` | V8 collects a wrapper: `~NoCLWrapper` |
| `DriverDestroy` | the driver frees an object with count zero and no dependents |

A handler the driver refuses, or whose arguments fail a check, throws and changes
nothing: a stuttering step. Two things the driver does are taken from how the
code uses it and from OpenCL's rules, not from code of the repository: it frees an
object only when its count is zero and nothing that was made from it is left, and
it may give the address to the next object. `released` wrappers stay usable in
the model as in the code: `Unwrap` does not look at the flag.

Not in the model: platform, device, binary and mapped-pointer wrappers (their
acquire and release are `noop`), and the branch of `Unwrap` that takes a typed
array for a handle.

### HandlesBalance

`balance[o]` is what the program's own calls add up to: plus one for each handle
it was given and each `retain*`, minus one for each `release*` that returned
`CL_SUCCESS` and each wrapper collected before a release. `GiveBack` is the
release of a program that pairs its calls: it releases only while its balance
is positive. `ReleaseAll` and `Exit` are the `exit` handler, during which V8 may
collect.

### CallbackOnce

A registration is idle, waiting, refused or called. A waiting one may become
ready, a ready one may be called, and the process does not end by itself while
one waits. Under weak fairness of `Call`, a ready registration is called unless
the process ends.

### EventCallback

| TLA+ | code |
|---|---|
| `handle[w]` | the worker's `uv_async_t`: active after `uv_async_init`, closing after `uv_close`, freed by `delete_async_handle` |
| `notifier[w]` | the driver's side of the registration: armed, status stored, wake-up sent |
| `stored[w]`, `passed[w]` | `mCLCallbackStatus`, and the number JavaScript received for it: `JS_INT` makes an unsigned one of it (`src/event.cpp:224`, `src/common.h:45`) |
| `pending[w]`, `work[w]` | the wake-up flag of the async handle, the `uv_work_t` of `AsyncQueueWorker` |
| `running`, `exited` | what the main thread does; how the process ended |
| `NotifyStore`, `NotifySend` | `notifyCB`, in two steps |
| `Dispatch`, `Execute`, `HandleOKCallback` | the members of `NoCLEventWorker` |
| `ReturnToLoop` | the callback returns and Nan destroys the worker |
| `NaturalExit`, `ForcedExit` | the loop runs dry; `process.exit()` |

### BuildCallback

The same path without an async handle: the driver's thread itself calls
`AsyncQueueWorker`. `reqs` is the count libuv keeps of requests out. The update
from the driver's thread is two steps (`NotifyLoad`, `NotifyStore`) and a third
that posts the request (`NotifyPost`). Updates from the main thread are as little
atomic and two steps as well: `Start` (when the driver calls back from inside the
call), `StartRequest` and `Complete` load the count into `loaded`, `StartStore` and
`CompleteStore` write it. In between, `updating` names the request and the main
thread does nothing else. `overlapped` is a
history variable: some update of the count came between a load and its store, on
whichever thread.
`Step` is what the code does and `Overlap` keeps that record beside it; fairness is
stated over `system`, the variables without it. `Requests` are other
requests of the process, `keeper` an active handle such as a timer. A count that
reaches zero too early makes libuv's assertion fail (`exited = "aborted"`).

### CommandQueues

| TLA+ | code |
|---|---|
| `Enqueue...` | the `enqueue*` handlers of `src/commandqueue.cpp` and `src/svm.cpp`; those with a blocking argument have one here |
| `Append`, `Enqueue` | `GET_WAIT_LIST_AND_EVENT`, the driver's call, `RETURN_EVENT` |
| `list[c]`, `after[c]` | the wait list the driver got; the earlier commands of the queue that OpenCL orders before `c` |
| `given[c]`, `asked[c]` | history variables: the list JavaScript passed; everything it thereby made `c` come after |
| `sent[c]` | the queue was flushed after `c` was enqueued |
| `fence[q]` | the last barrier in `q` |
| `status[e]` | execution status of commands and user events; every error is `"failed"` |
| `blocked`, `awaited` | the main thread is inside a call that waits, and for which events |
| `Return` | that call comes back, with `CL_SUCCESS` or by throwing |
| `Execute` | the device runs a command; it may fail |

`blocked` guards every action of the main thread: while a handler waits in the
driver no JavaScript runs, so no user event is set and no queue flushed. Which
commands the driver may run is OpenCL's rule and external to the code. JavaScript
is taken to ask for the event of every command, which gives it the most to wait
for. `enqueueNativeKernel` always throws; `enqueueMarker`, `enqueueBarrier` and
`enqueueWaitForEvents` are compiled out with OpenCL 1.2 and later. Which memory
a command uses is in `HostMemory`.

### HostMemory

| TLA+ | code |
|---|---|
| `Blocks`, `kind` | allocations: V8's, the driver's, or SVM; `"spent"` is freed SVM |
| `view`, `external` | the memory an ArrayBuffer is over, and whether V8 is told not to free it |
| `held` | ArrayBuffers and wrappers JavaScript can reach |
| `object`, `storage`, `own` | memory objects, where their contents are, and whether the driver allocated that |
| `arg` | the kernel's argument as the driver holds it |
| `queue`, `calling` | commands in flight with the memory and objects they use; the main thread inside a blocking call |
| `careless` | history variable: the program broke one of the rules |
| `CreateBuffer`, `CreateBufferOnHost` | `createBuffer` and `createImage` without and with `CL_MEM_USE_HOST_PTR` |
| `EnqueueTransfer` | the six read and write handlers |
| `EnqueueOnObjects` | fill, copy and migrate, which pass objects only |
| `EnqueueMap`, `EnqueueUnmapMemObject`, `SVM...`, `EnqueueSVM...`, `SetKernelArg...`, `EnqueueNDRangeKernel` | the handlers of those names |
| `CollectBuffer`, `CollectMem` | V8 collects an ArrayBuffer or a wrapper |

No handler keeps an ArrayBuffer past its return: the lines of `createBuffer` that
would are commented out (`src/memobj.cpp:48`). So whether memory is there when the
driver uses it is left to the program, and the module says what the program has
to do: `MayPass`, `MayUse`, `MayDropBuffer`, `MayLetGo`, `MayFree`,
`MayQueueFree` and `MayRun`. Every action that could break one is still taken, and
only recorded in `careless`; `KeptIsSafe` is about the programs that never do.
Each conjunct of the rules is needed, in that dropping it lets TLC violate
`KeptIsSafe` (the one exception is `m \in held` in `MayUse`, which the handlers
demand as well). A block is an allocation and not an address: it is used again
only when nothing points to it, so that a command on freed memory stays visible as
one. The queue is in order and there is one kernel with one argument.

### Devices

| TLA+ | code |
|---|---|
| `live`, `refs` | the driver's sub-devices and their counts; a root device has none |
| `devices[c]` | the devices of a context, and of the queues and programs in it |
| `named[w]` | the raw handle of a `NoCLDeviceId` wrapper |
| `owed`, `spare`, `lost` | history: wrappers that came with a reference, references of `retainDevice`, references whose wrapper was collected |
| `careless`, `short` | history: JavaScript released what it did not have; `createSubDevices` wrapped an id nobody wrote |
| `Wrap`, `WrapRetained` | `NOCL_WRAP` of each device, after `clRetainDevice` in the queries |
| `CreateSubDevices`, `CreateOneSubDevice` | `createSubDevices`, for a partition in two and in one |
| `RetainDevice`, `ReleaseDevice` | the handlers: they call the driver for a sub-device only, which they recognize by its parent |
| `Get...` | the queries of `device.cpp`, `context.cpp`, `program.cpp`, `commandqueue.cpp` that answer devices |
| `Collect` | `~NoCLWrapper`; acquire and release of a device are `noop` |

`createSubDevices` takes the length of its array from a partition into 3 and 1 units
that it asks for itself, not from the caller's (`src/device.cpp:292`). A partition
in two is then answered as meant, one in more than two is refused, and one in a
single device wraps a second id that is whatever the memory held:
`CreateOneSubDevice` lets it be any device or none. That a wrapper of a deleted
sub-device may by reuse name another is part of the model.

### Conversions, KernelArgs, ProgramBinaries

`Conversions` has one operator per way a number takes: what `getDeviceInfo` and the
others answer (`UintInfo`, `SizeInfo`, `DeviceSizeInfo`, `UlongInfo`), how sizes are
read (`BufferSize`, `TransferSize`, `SignedSize`), and the loop that reads origins
and regions (`Triple`). Widths are constants: TLC
takes all values of a small one, the theorems hold for all of them.

`KernelArgs` follows `setKernelArg`: `ByDeclaration` is the path without a type
name, where the kernel is asked for the parameter's type, `Named` the path with
one; `Convert` is the table `PrimitiveTypeMapCache`, with `Accepts` for the check
of a value and `Converted` for the cast. A cast to `cl_float`
(`src/kernel.cpp:136`) rounds: `Holds` says which integers a significand and an
exponent make, `Fraction` stands for the numbers like 1.5 that a float and a half
have, `FineFraction` for those like 0.1 that only a double has. `Driver` is `clSetKernelArg`: it refuses a
size that is not the declared type's and a handle of another kind. `Bits` is the
size of a type, `Modulus` how many values one has; each width is twice the one
before, as 8, 16, 32 and 64 are, since which type fits in the place of another
(a bool in that of three chars) depends on it.

`ProgramBinaries` has a program whose binaries are replaced as builds end, on the
driver's thread when `buildProgram` has a callback. `GetBinarySizes` is
`getProgramInfo` of the sizes; of the binaries it is two actions,
`AllocateBinaries` and `CopyBinaries`, as it asks the driver twice.
`CreateProgramWithBinary` is an operator: what the driver would be given if
JavaScript passed on what it holds; `Kept` are the places of a positive length and
`Nth` the order in which `push_back` leaves them.

## 3. Runs

| run | module, cfg | shows |
|---|---|---|
| `handles` | `MCHandles`, `MCHandles.cfg` | three addresses, three wrappers, all seven kinds, counts to 2: `TypeOK`, `Accounting`, `LiveHandle`, `RetainPinsForever` |
| `handles_program` | `MCHandles`, `MCHandlesProgram.cfg` | four addresses for context, program and two kernels: `Accounting` with `createKernelsInProgram` |
| `handles_balance` | `MCHandlesBalance`, `MCHandlesBalance.cfg` | a paired program loses no object it has a reference to |
| `one_to_one` | `MCHandlesBalance`, `MCHandlesOneToOne.cfg` | *violation*: the driver's count is not what the calls add up to |
| `exit_releases_all` | `MCHandlesBalance`, `MCHandlesExit.cfg` | *violation*: references are left when the process is gone |
| `command_queues` | `CommandQueues`, `MCCommandQueues.cfg` | three commands in two queues, a user event: order, failure, calls that never return and calls that do |
| `event_callback` | `EventCallback`, `MCEventCallback.cfg` | status, lifetime, no callback lost, the process ends, `CallbackOnce` implemented |
| `build_callback` | `BuildCallback`, `MCBuildCallback.cfg` | each callback once, the worker freed after it, the loop's count wrong only after an overlap, `CallbackOnce` implemented while the process goes on |
| `build_lost` | `BuildCallback`, `MCBuildLost.cfg` | *violation*: the process ends while a build callback is owed |
| `host_memory` | `MCHostMemory`, `MCHostMemory.cfg` | the rules on shared memory are enough, and what holds without them |
| `devices` | `MCDevices`, `MCDevices.cfg` | counts of sub-devices through queries, releases, collections and reused addresses |
| `marshalling` | `MCMarshalling`, `MCMarshalling.cfg` | numbers, kernel arguments and binaries against what was given |

Every run sets `CHECK_DEADLOCK FALSE`: with its bounds reached a program of
`Handles`, `Devices` or `HostMemory` may have nothing to do, the main thread of
`CommandQueues` may wait for good (`HopelessForever`), `MCMarshalling` ends with
the last build, and the callback models really stop when the process has ended.

### The properties

Handles and devices.

- `Accounting`: driver's count = wrappers that own the object + references of
  `retain*`. It relates what all handlers, collections and the driver did to the
  object, and fails at the first lost or doubled reference.
- `LiveHandle`: an unreleased wrapper names a live object of its own kind, also
  after addresses were reused; so `clRelease*` in the destructor cannot fail.
- `RetainPinsForever`: nothing gives back what `retain*` added. It is the
  action-level form of a behaviour of this design (see disagreement 1).
- `NoEarlyFree`: the count is never below what a paired program holds.
- `SubDeviceAccounting`: for a program that releases only what it has, a
  sub-device's count = wrappers that came with a reference + `retainDevice` + what
  was lost with collected wrappers. `OwedIsLive`: such a wrapper's sub-device
  exists.
- `Stranded`: once JavaScript has no wrapper of a sub-device, no step takes a
  reference from it or ends its life: what the collector loses is lost.

Callbacks.

- `DeliveredStatus`: JavaScript is told the level it asked for, and the event has
  reached it, or its event has failed, and then the number is not the driver's
  negative status but that plus 2^32, beyond every level.
- `FreedAfterLastUse`: neither driver, loop nor pool still points to a worker that
  is being destroyed.
- `NoCallbackLost`, `RefusedHoldsTheLoop`, `QuietProcessEnds`: what holds the
  loop, and that nothing else does.
- `ImplementsOnce`, `ImplementsOnceUntilExit`: refinement of `CallbackOnce`, with
  its liveness. In the second every end of the process is mapped to a forced one,
  since a natural end may come too early there.
- `CalledOnceThenFreed`: a build's callback runs at most once, after the driver
  and the pool are done with the worker, and the worker is freed after that.
- `WrongOnlyByOverlap`: as long as no update of the loop's count came inside
  another, the count is exact and libuv's assertion holds. `src/event.cpp:233`
  gives the rule that `AsyncQueueWorker` is called on the main thread;
  `notifyPCB` (`src/program.cpp:210`) and `notifySVMCB` call it from the driver's.
  The property says that this, and nothing else, is what can break the count,
  whether a driver's update falls into one of another driver's thread or of the
  main thread, or the main thread's into a driver's.

Queues.

- `RunsAfter`: a command ends after all that JavaScript made it come after,
  through chains of lists, in-order queues, markers and barriers. It compares what
  JavaScript asked with what the driver did, so a list lost in a handler breaks it
  some commands later.
- `FailureSpreads`: no command completes when one of its wait list failed.
- `HopelessForever`, `CallReturns`: a call waits in vain exactly when what it waits
  for comes after a user event JavaScript has not set, or after a command in a
  queue neither JavaScript nor the call has flushed. In that case it never
  returns; in every other case it does.

Memory.

- `KeptIsSafe`: a program that follows the rules has no command in flight on freed
  memory or on an object that is gone, no memory object on freed memory, and no
  ArrayBuffer over freed memory but for SVM it freed itself.
- `BlockingIsSafe`: whatever the program does, V8 frees no memory a blocking
  command was given.
- `OwnStorageLive`: whatever the program does, no ArrayBuffer over mapped memory
  gives the driver's memory back.
- `SVMPinned`: SVM that JavaScript has lost and not asked to free is never freed.

Marshalling.

- `InfoArrives`: every `cl_ulong` and `cl_uint` reaches JavaScript exactly; a
  `size_t` exactly below 2^32, and from `getDeviceInfo` below 2^31.
- `SizesArrive`: a buffer may be made of any size, a command reaches 2^32 - 1 bytes
  of it; sizes of local memory and binaries arrive up to 2^31 - 1.
- `TriplesArrive`: origins and regions of two or three elements arrive, with the
  default for a missing third; one element makes the second zero; more than three
  do not fit.
- `ArgumentsArrive`: of a value that is accepted, an element reaches the driver
  unchanged exactly if the declared type has it and it is neither a half other than
  zero nor a ulong of 2^63 or more. A number a float does not hold or an integer
  beyond the type arrives as another, with no error. A value of the type is
  accepted, unless it is a vector of three; one of another shape, or with an element
  that is no number, never is.
- `WaysToSet`: under which type names a parameter can be set: a sampler under
  none, a vector of three only as something of the size of four elements, an image
  only as memory object.
- `BinariesArrive`: binaries passed on as read belong to their devices exactly if
  every device had one of less than 2^31 bytes and no build ended between the
  reads. `WritesInside`: the driver writes past an array only if a build ended
  between the two questions of one `getProgramInfo`.

### Bounds

- `Handles`: `MaxRefs` bounds a count in the guards of `Acquire` and
  `WrapRetained`; two is enough for an object shared by two owners, three for
  retain beside two wrappers. Three wrappers and three addresses give a context, an
  object in it and a third that depends on both or reuses an address. Places of
  collected wrappers are used again, so the number of wrappers over time is not
  bounded.
- Callbacks: two registrations on two events cover two workers on one event, on
  different ones, and one refused beside one served. `Word` = 16 keeps the unsigned
  statuses apart from the levels, as 2^32 does. Two build workers and one
  other request are the least for a lost update between two driver threads or
  with the main thread.
- `CommandQueues`: three commands are the least for one before and one after a
  barrier, and for a chain over two queues; a user event makes two of them a call
  that waits through another queue. One queue is in order, one is not. Lists have
  one event; the theorems hold for any length.
- `HostMemory`: two blocks, two ArrayBuffers and two memory objects give a buffer
  on host memory beside one with its own, and a copy between them. `MaxQueue` = 2:
  a command behind another, so that a queued free waits. `MaxInPlay` = 3 (a
  constraint of the run) keeps commands in flight and memory objects together at
  three: two objects and a command, or one and two.
- `Devices`: two sub-devices are one call's; four wrappers are two of them answered
  twice. `MaxRefs` = 3: the creation's reference, a query's and `retainDevice`'s.
  `SmallHistories` (a constraint of the run) keeps `spare` and `lost` to `MaxRefs`,
  and to 1 once `careless` or `short` makes the invariants say nothing.
- `MCMarshalling`: `CharBits` = 1, `ShortBits` = 2, `IntBits` = 4 and twice that
  for a long keep the ratios of the widths in C and let TLC take every integer;
  significands of `HalfBits` = 1 and `FloatBits` = 2 bits leave integers of an int
  that a float holds and others it does not, as 11 and 24 do;
  the lengths 1, 9 and 17 of binaries are what an int of four bits holds, what only
  an unsigned one does, and what neither does. Two builds are the least for a rebuild
  between two reads, `MaxItem` = 2 for a triple with different elements. The
  theorems hold for every width.

Symmetry is used only in runs without liveness; `Stranded`, `RetainPinsForever`,
`BlockingIsSafe` and `SVMPinned` are step properties, for which it is sound.

### Fairness

JavaScript returns to the loop; the loop serves every source it polls and ends
when it is not alive; the pool has a thread; the driver delivers a notification it
owes and finishes a build. In `BuildCallback` the completion of a request is
strongly fair, since JavaScript and other completions may come between without
end; libuv takes completed requests from a queue in order. In `CommandQueues` the
device ends each command it may run and a call whose events have ended comes back:
without the first no blocking call of OpenCL returns, and the code has no timeout.
Elsewhere nothing makes a command finish. Nowhere is JavaScript made to set a user
event or flush a queue, or the process to exit by force.

## 4. Theorems

Proved with TLAPS for every value of the constants.

`HandlesProofs`, from `WrappersFinite` and `NoObjIsNoObject`:

- `TypeCorrect`, `AccountingHolds`, `LiveHandleHolds`, `RetainPins` are the
  properties of run `handles`; `ParentsHold` says that what an object was made
  from lives as long as it does.
- The inductive invariant is `TypeOK /\ UnusedPlaces /\ UnreleasedValid /\
  Accounting /\ ParentsOutliveChildren`. `Accounting` alone is not inductive: that
  a count does not go below zero needs that the releasing wrapper owns a
  reference to a live object (`UnreleasedValid`), and that `get*Info` wraps a
  live object of the kind it says needs that a context outlives what was made in
  it (`ParentsOutliveChildren`). A count changes with the cardinality of
  `Owners(o)`, by the library's facts on adding to and removing from a finite set.

`EventCallbackProofs`, from `NamesDiffer`, `UserEventsAreEvents` and
`WordHoldsStatuses`:

- `TypeCorrect`, `DeliveredStatusHolds`, `FreedAfterLastUseHolds`,
  `NoCallbackLostHolds`, `RefusedHoldsTheLoopHolds`, and `ImplementsOnceSafely`:
  every step maps to a step of `CallbackOnce` or a stutter.
- The strengthening is `OnePointer` (at each stage of its life exactly one of
  driver, loop, pool and main thread holds the pointer to the worker),
  `StoredStatus` (what is stored is right from the store on) and `DryAtEnd` (at a
  natural end no handle was active).

`CommandQueuesProofs`, from the assumptions of `CommandQueues`:

- `TypeCorrect`, `Ordered` (`RunsAfter`), `FailuresSpread` and `NoWayOut`
  (`HopelessForever`).
- `RunsAfter` is not inductive: that a command that ends now comes after all of
  `asked` needs that `asked` gathers what its immediate predecessors ask
  (`Linked`), that those were enqueued before it, so later commands cannot change
  what they ask (`Linked`, `Numbered`), and that they ended first (`EndsLate`).
  `NoWayOut` follows from `RunsAfter`: what `Return` needs ended cannot have.
- `EnqueueingAppends` reduces the handlers to one case.

`DevicesProofs`, from `HandlesDiffer` and `WrappersFinite`:

- `TypeCorrect`, `AccountingHolds`, `OwedIsLiveHolds` and `StrandedHolds`, for any
  devices, contexts, wrappers and bound.
- The inductive invariant is `TypeOK /\ ContextDevices /\ SubDeviceAccounting /\
  OwedIsLive`. Accounting and `OwedIsLive` need each other: a sub-device is deleted
  at count zero, which by accounting no wrapper is owed for; and a new one at the
  same address starts with no holders, since those named a live one.
  `ContextDevices` (a context's sub-devices live) is what lets a query retain what
  it answers. `WrapHolders` is the lemma on `NOCL_WRAP`: each sub-device gains
  one holder, an unused place, so its cardinality grows by one.

`HandlesBalanceProofs`, which extends `HandlesProofs`:

- `PairedProgramIsProgram`: a program that pairs its calls, with its exit, is a
  program of `Handles`, so all of the above holds of it. `BalanceTypeCorrect`,
  `NoEarlyFreeHolds`.
- `NoEarlyFree` is not inductive: it speaks of live objects, and an address may be
  given again. `Covered` says `refs[o] >= balance[o]` of every address, in use or
  free, so that a reused one starts without debt.

`BuildCallbackProofs`:

- `TypeCorrect`, `CalledOnceThenFreedHolds`, `WrongOnlyByOverlapHolds`, and
  `ImplementsOnceSafely`: every step maps to a step of `CallbackOnce`, every end of
  the process to a forced one.
- The invariant has two parts that do not need each other. `WorkerLife` is the
  life of one worker; it never mentions the loop's count, which is why a wrong
  count breaks neither it nor the refinement. For the count, `LoadedIsCount` says
  what a driver's thread or the main thread has loaded is still the count while no
  update came between; with it a store adds or takes one of a right count.
  `MainUpdate` says which request the main thread is at, and in what state it is.

`HostMemoryProofs`, from `NilIsNothing` and `KindsApart`:

- `TypeCorrect`, `KeptIsSafeHolds`, `OwnStorageLiveHolds`, `BlockingIsSafeHolds`,
  `SVMPinnedHolds`.
- The invariant is `Layout /\ (~careless => Kept)`. `Layout` holds whatever the
  program does: what kind of memory each object, ArrayBuffer and command uses, and
  that the storage of one memory object is nobody else's (`OwnApart`), from which
  `OwnStorageLive` follows. `Kept` is what the rules add: `KeptIsSafe`, and that it
  stays so when memory goes: what V8 may free has no user left (`DroppedUnused`),
  storage that goes with its object is used through that object only
  (`LetGoUnused`), and no command behind one that frees memory uses it
  (`FreedUnused`).
- `EnqueueKeeps` and `CommandKeeps` reduce the commands to one, any command whose
  memory `Allowed` lets it use. `KindChanges`, that memory changes hands in four
  ways only, gives both properties of steps.

`MarshallingProofs`, from the assumptions of `Conversions`, `KernelArgs` and
`ProgramBinaries`:

- All properties of run `marshalling`. `InfoArrives`, `SizesArrive` and
  `TriplesArrive` are statements about one number and follow from facts on division
  by `Word` and `Long` (`OfWord`, `OfLong`, `Halves`). The provers know nothing of
  powers; `WordIsEven` and `WordIsFourBytes` are all they are told of 2^32 and 2^8,
  consequences of `IntBitsIsPositive` and `WidthsDouble` that TLC evaluates, and
  `ZeroIsHeld` (a float and a half have a zero) all they are told of significands.
- `ArgumentsArrive` and `WaysToSet` are about one declared parameter and all values:
  `RepresentedAccepted` and `RepresentedArrives` for one element (that nothing
  arrives unchanged that the type does not have is `FitRange`: a cast ends within
  the type's range), `ConvertAnswers`
  for the table, `NamedData` and `Sizings` for which size and which handle each type
  name passes. They need that a kernel declares only what `Declared` lists
  (`DeclaredInvariance`).
- `WritesInside` and `BinariesArrive` are about histories. `BinariesInv`: an array is
  as long as the binary was in the version it was made for. `ListsInv` adds that
  sizes and binaries of one version belong together. That the `d`-th entry kept is
  the `d`-th device when none before it is left out (`NthOfFirst`) needs that there
  is a `d`-th entry at all: `NthExists`, by the least place up to which `d` are kept.

Only model-checked, since liveness and fairness are beyond this prover:
`QuietProcessEnds`, `CallReturns`, and the fair parts of `ImplementsOnce` and
`ImplementsOnceUntilExit`. Every invariant and every property of steps that a
passing run checks is a theorem.

## 5. Where code and documentation disagree

1. `README.md:99` calls the binding "a one-to-one low-level wrapper". After
   `retain*`, two `release*` of the same wrapper give back one reference
   (`src/types.h:115`), so a retained object is never freed. Run `one_to_one`.
2. `lib/opencl.js:24` says of the exit handler "this releases all allocated OpenCL
   objects". `releaseAll()` asks V8 for an idle collection; the releases are
   commented out (`src/types.cpp:41`). Run `exit_releases_all`.
3. `test/test.program.js:58` expects the callback of `buildProgram` to be called.
   Nothing holds the loop while the driver builds, so a process with nothing else
   to do ends first. Run `build_lost`.

Behaviours that no doc, comment or test speaks of are stated as properties and not
as disagreements: a refused `setEventCallback` leaves an async handle that keeps
the process from ending by itself (`RefusedHoldsTheLoop`); the loop's count is
changed from the driver's thread (`WrongOnlyByOverlap`); sub-devices are lost with
their wrappers (`Stranded`); no call sets a sampler argument (`WaysToSet`); a half,
a large ulong and a number a float does not hold arrive changed
(`ArgumentsArrive`); an error status reaches a callback as an unsigned number
(`DeliveredStatus`); sizes are cut to 32 bits
(`InfoArrives`, `SizesArrive`); binaries shift when a device has none
(`BinariesArrive`).

## 6. Plan

1. `HandlesCallbacks`: `Handles` with the Persistents of `EventCallback`: the event
   passed to a callback is still owned when JavaScript gets it, unless released.
   Its invariant would follow from those of `HandlesProofs` and
   `EventCallbackProofs`.

### Not modelled

- Platform queries, the strings and lists of `get*Info`, build logs, the tables of
  constants and error texts: they read the driver and keep no state.
- The contents of memory and the rectangles commands touch: which block is used
  is what the properties tell apart.
- The branch of `Unwrap` that takes a typed array for a handle (`src/types.h:72`): a
  program that uses it has no defined behaviour to state.
- Undefined behaviour of single expressions whose value is not used further: the
  empty type name (`src/kernel.cpp:304`), `&names.front()` of an empty vector
  (`src/program.cpp:345`); and a leaked array after a vector argument with an
  element that is no number (`src/kernel.cpp:157`).
- A build with `NDEBUG`, where the destructor's `assert(release())` would vanish.
- `enqueueNativeKernel`, which always throws, and the handlers of OpenCL 1.1.
