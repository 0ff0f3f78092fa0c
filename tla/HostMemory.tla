----------------------------- MODULE HostMemory -----------------------------
(***************************************************************************)
(* Memory that JavaScript and the OpenCL driver share: ArrayBuffers given  *)
(* to a memory object or to a command as a pointer, ArrayBuffers made over *)
(* memory of the driver by enqueueMapBuffer, enqueueMapImage and SVMAlloc, *)
(* and kernel arguments.                                                   *)
(*                                                                         *)
(* A handler takes the address of an ArrayBuffer (getPtrAndLen) and passes  *)
(* it on; nothing keeps the ArrayBuffer once the handler has returned: the *)
(* lines of createBuffer that would are commented out.  V8 frees the       *)
(* memory of an ArrayBuffer it allocated when it collects it; over foreign *)
(* memory it makes an external one and frees nothing.                      *)
(*                                                                         *)
(* `careless` records that the program broke one of the rules by which it  *)
(* can keep shared memory alive itself, as the code leaves that to it.     *)
(* There is one in-order queue and one kernel with one argument.  A block   *)
(* stands for an allocation, not for an address: it is used again when      *)
(* nothing points to it any more.                                          *)
(***************************************************************************)
EXTENDS Naturals, Sequences

CONSTANTS
  Blocks,      \* allocations
  Buffers,     \* places for JS ArrayBuffers
  Mems,        \* places for memory objects with their wrapper
  Nil,
  MaxQueue     \* bound on the commands in flight

ASSUME NilIsNothing == Nil \notin Blocks \cup Mems
ASSUME KindsApart == Blocks \cap Mems = {} /\ Buffers \cap Mems = {}
ASSUME MaxQueueIsNat == MaxQueue \in Nat

VARIABLES
  kind,       \* kind[b]: allocated by "v8", "driver" or for "svm"; "free"; "spent": SVM freed
  view,       \* view[a]: the block an ArrayBuffer is over, Nil: no ArrayBuffer
  external,   \* ArrayBuffers over memory that is not V8's to free
  held,       \* ArrayBuffers and wrappers JS can reach
  object,     \* object[m]: "none" or destroyed, "live", "released" by its wrapper
  storage,    \* storage[m]: the block with the contents of m
  own,        \* memory objects whose storage the driver allocated
  arg,        \* the kernel's argument: a memory object, an SVM pointer or Nil
  queue,      \* commands in flight, the oldest first
  calling,    \* the main thread is inside a blocking call
  careless    \* the program broke a rule (history variable)

vars == <<kind, view, external, held, object, storage, own, arg, queue,
          calling, careless>>

Command == [ptrs: SUBSET Blocks, mems: SUBSET Mems, frees: BOOLEAN, async: BOOLEAN]

TypeOK ==
  /\ kind \in [Blocks -> {"free", "v8", "svm", "driver", "spent"}]
  /\ view \in [Buffers -> Blocks \cup {Nil}]
  /\ external \subseteq Buffers
  /\ held \subseteq Buffers \cup Mems
  /\ object \in [Mems -> {"none", "live", "released"}]
  /\ storage \in [Mems -> Blocks \cup {Nil}]
  /\ own \subseteq Mems
  /\ arg \in Mems \cup Blocks \cup {Nil}
  /\ queue \in Seq(Command)
  /\ calling \in BOOLEAN
  /\ careless \in BOOLEAN

Init ==
  /\ kind = [b \in Blocks |-> "free"]
  /\ view = [a \in Buffers |-> Nil] /\ external = {} /\ held = {}
  /\ object = [m \in Mems |-> "none"] /\ storage = [m \in Mems |-> Nil] /\ own = {}
  /\ arg = Nil /\ queue = <<>>
  /\ calling = FALSE /\ careless = FALSE

-----------------------------------------------------------------------------
InFlight == {queue[i] : i \in DOMAIN queue}

Freed == {b \in Blocks : kind[b] \in {"free", "spent"}}

(* What a command reads, writes or frees.                                  *)
Memory(c) == c.ptrs \cup {storage[m] : m \in c.mems}

FreeQueued(b) == \E c \in InFlight : c.frees /\ b \in c.ptrs

(* Commands JS has to reckon with: those it did not wait for.              *)
Known == {c \in InFlight : c.async}

(* Live memory objects, other than m, that keep their contents in b.       *)
Hosts(b, m) == {n \in Mems \ {m} : object[n] = "live" /\ storage[n] = b}

(* Fresh places: unused, or left with nothing that points to them.         *)
FreshBlock(b) ==
  /\ b \in Freed
  /\ arg # b /\ \A c \in InFlight : b \notin Memory(c)
  /\ \A a \in Buffers : view[a] # b
  /\ \A m \in Mems : storage[m] # b

FreshMem(m) ==
  /\ object[m] = "none" /\ m \notin held /\ arg # m
  /\ \A c \in InFlight : m \notin c.mems

FreshView(a) == view[a] = Nil

-----------------------------------------------------------------------------
(* The rules                                                               *)

(* A pointer to give away: memory not freed and not about to be.           *)
MayPass(b) == b \notin Freed /\ ~FreeQueued(b)

(* A memory object to use: one JS has kept and not released.               *)
MayUse(m) == m \in held /\ object[m] = "live"

(* The last reference to an ArrayBuffer of V8's own: not while a command in *)
(* flight, a memory object or another ArrayBuffer is on its memory.        *)
MayDropBuffer(a) ==
  a \notin external =>
    /\ \A c \in Known : view[a] \notin Memory(c)
    /\ Hosts(view[a], Nil) = {}
    /\ \A x \in Buffers \cap held : x # a => view[x] # view[a]

(* A memory object with storage of its own: not while JS has the memory     *)
(* mapped, or has given the mapped address to a command or another object.  *)
MayLetGo(m) ==
  m \in own =>
    /\ \A c \in Known : storage[m] \notin c.ptrs \cup {storage[n] : n \in c.mems \ {m}}
    /\ Hosts(storage[m], m) = {}
    /\ \A a \in Buffers \cap held : view[a] # storage[m]

(* SVM memory to free at once; or in its turn after the commands in flight. *)
MayFree(b) == MayPass(b) /\ Hosts(b, Nil) = {} /\ \A c \in Known : b \notin Memory(c)
MayQueueFree(b) == MayPass(b) /\ Hosts(b, Nil) = {}

(* The kernel's argument: kept by JS from setKernelArg on.                 *)
MayRun ==
  /\ arg \in Mems => MayUse(arg)
  /\ arg \in Blocks => MayPass(arg) /\ \E a \in Buffers \cap held : view[a] = arg

Follows(rule) == careless' = (careless \/ ~rule)

-----------------------------------------------------------------------------
(* V8                                                                      *)

NewArrayBuffer(a, b) ==
  /\ ~calling
  /\ FreshView(a) /\ FreshBlock(b)
  /\ kind' = [kind EXCEPT ![b] = "v8"]
  /\ view' = [view EXCEPT ![a] = b]
  /\ external' = external \ {a}
  /\ held' = held \cup {a}
  /\ UNCHANGED <<object, storage, own, arg, queue, calling, careless>>

(* JS loses its last reference to an ArrayBuffer or to a wrapper.          *)
Drop(x) ==
  /\ ~calling
  /\ x \in held
  /\ held' = held \ {x}
  /\ Follows(IF x \in Mems THEN MayLetGo(x) ELSE MayDropBuffer(x))
  /\ UNCHANGED <<kind, view, external, object, storage, own, arg, queue, calling>>

(* V8 collects on the main thread, so never inside a call that blocks it.   *)
CollectBuffer(a) ==
  /\ ~calling
  /\ view[a] # Nil /\ a \notin held
  /\ kind' = IF a \in external THEN kind ELSE [kind EXCEPT ![view[a]] = "free"]
  /\ view' = [view EXCEPT ![a] = Nil]
  /\ external' = external \ {a}
  /\ UNCHANGED <<held, object, storage, own, arg, queue, calling, careless>>

(* ~NoCLWrapper releases the memory object.                                *)
CollectMem(m) ==
  /\ ~calling
  /\ object[m] = "live" /\ m \notin held
  /\ object' = [object EXCEPT ![m] = "released"]
  /\ UNCHANGED <<kind, view, external, held, storage, own, arg, queue, calling, careless>>

-----------------------------------------------------------------------------
(* Memory objects (memobj.cpp)                                             *)

ReleaseMemObject(m) ==
  /\ ~calling
  /\ m \in held /\ object[m] = "live"
  /\ object' = [object EXCEPT ![m] = "released"]
  /\ Follows(MayLetGo(m))
  /\ UNCHANGED <<kind, view, external, held, storage, own, arg, queue, calling>>

NewMem(m, b) ==
  /\ FreshMem(m)
  /\ object' = [object EXCEPT ![m] = "live"]
  /\ storage' = [storage EXCEPT ![m] = b]
  /\ held' = held \cup {m}

(* createBuffer, createImage without a pointer; with CL_MEM_COPY_HOST_PTR    *)
(* the driver copies from it during the call.                              *)
CreateBuffer(m, b) ==
  /\ ~calling
  /\ FreshBlock(b)
  /\ kind' = [kind EXCEPT ![b] = "driver"]
  /\ own' = own \cup {m}
  /\ NewMem(m, b)
  /\ UNCHANGED <<view, external, arg, queue, calling>>
  /\ \/ UNCHANGED careless
     \/ \E a \in Buffers \cap held : Follows(MayPass(view[a]))

(* With CL_MEM_USE_HOST_PTR the ArrayBuffer's memory is the storage.        *)
CreateBufferOnHost(m, a) ==
  /\ ~calling
  /\ a \in held
  /\ own' = own \ {m}
  /\ NewMem(m, view[a])
  /\ Follows(MayPass(view[a]))
  /\ UNCHANGED <<kind, view, external, arg, queue, calling>>

(* The driver destroys an object without references that no command uses.  *)
Destroy(m) ==
  /\ object[m] = "released"
  /\ \A c \in InFlight : m \notin c.mems
  /\ object' = [object EXCEPT ![m] = "none"]
  /\ kind' = IF m \in own THEN [kind EXCEPT ![storage[m]] = "free"] ELSE kind
  /\ storage' = [storage EXCEPT ![m] = Nil]
  /\ own' = own \ {m}
  /\ UNCHANGED <<view, external, held, arg, queue, calling, careless>>

-----------------------------------------------------------------------------
(* Commands (commandqueue.cpp, svm.cpp)                                    *)

(* Mutant: the driver is asked for a non-blocking command in every case.   *)
EnqueueNeverBlocks(ptrs, mems, frees, blocking) ==
  /\ ~calling
  /\ Len(queue) < MaxQueue
  /\ queue' = Append(queue, [ptrs |-> ptrs, mems |-> mems, frees |-> frees, async |-> ~blocking])
  /\ UNCHANGED calling

(* The driver takes the command; a blocking call does not return before it  *)
(* is done, which in an in-order queue is when nothing is left.            *)
Enqueue(ptrs, mems, frees, blocking) ==
  /\ ~calling
  /\ Len(queue) < MaxQueue
  /\ queue' = Append(queue, [ptrs |-> ptrs, mems |-> mems, frees |-> frees, async |-> ~blocking])
  /\ calling' = blocking

(* A wrapper JS has, whose object the driver still accepts.                *)
Accepted(m) == m \in held /\ object[m] # "none"

(* enqueueReadBuffer, enqueueReadBufferRect, enqueueWriteBuffer,            *)
(* enqueueWriteBufferRect, enqueueReadImage, enqueueWriteImage.            *)
EnqueueTransfer(m, a, blocking) ==
  /\ Accepted(m) /\ a \in held
  /\ Enqueue({view[a]}, {m}, FALSE, blocking)
  /\ Follows(MayUse(m) /\ MayPass(view[a]))
  /\ UNCHANGED <<kind, view, external, held, object, storage, own, arg>>

(* The fill, copy and migrate handlers, which pass objects only: a pattern  *)
(* is read during the call.                                                *)
EnqueueOnObjects(m, n) ==
  /\ Accepted(m) /\ Accepted(n)
  /\ Enqueue({}, {m, n}, FALSE, FALSE)
  /\ Follows(MayUse(m) /\ MayUse(n))
  /\ UNCHANGED <<kind, view, external, held, object, storage, own, arg>>

(* Mutant: the ArrayBuffer over the mapped memory is made V8's to free.     *)
EnqueueMapOwned(m, a, blocking) ==
  /\ Accepted(m) /\ FreshView(a)
  /\ Enqueue({}, {m}, FALSE, blocking)
  /\ view' = [view EXCEPT ![a] = storage[m]]
  /\ external' = external \ {a}
  /\ held' = held \cup {a}
  /\ Follows(MayUse(m))
  /\ UNCHANGED <<kind, object, storage, own, arg>>

(* enqueueMapBuffer, enqueueMapImage: an external ArrayBuffer over the      *)
(* contents, which does not keep the wrapper of m.                         *)
EnqueueMap(m, a, blocking) ==
  /\ Accepted(m) /\ FreshView(a)
  /\ Enqueue({}, {m}, FALSE, blocking)
  /\ view' = [view EXCEPT ![a] = storage[m]]
  /\ external' = external \cup {a}
  /\ held' = held \cup {a}
  /\ Follows(MayUse(m))
  /\ UNCHANGED <<kind, object, storage, own, arg>>

(* The ArrayBuffer stays as it is.                                         *)
EnqueueUnmapMemObject(m, a) ==
  /\ Accepted(m) /\ a \in held /\ view[a] = storage[m]
  /\ Enqueue({}, {m}, FALSE, FALSE)
  /\ Follows(MayUse(m))
  /\ UNCHANGED <<kind, view, external, held, object, storage, own, arg>>

-----------------------------------------------------------------------------
(* Shared virtual memory (svm.cpp)                                         *)

(* Mutant: the ArrayBuffer over SVM memory is made V8's to free.            *)
SVMAllocOwned(a, b) ==
  /\ ~calling
  /\ FreshView(a) /\ FreshBlock(b)
  /\ kind' = [kind EXCEPT ![b] = "svm"]
  /\ view' = [view EXCEPT ![a] = b]
  /\ external' = external \ {a}
  /\ held' = held \cup {a}
  /\ UNCHANGED <<object, storage, own, arg, queue, calling, careless>>

(* Mutant: a NULL from clSVMAlloc is wrapped as well.                        *)
SVMAllocUnchecked(a, b) ==
  /\ ~calling
  /\ FreshView(a) /\ FreshBlock(b)
  /\ held' = held \cup {a}
  /\ \/ kind' = [kind EXCEPT ![b] = "svm"] /\ view' = [view EXCEPT ![a] = b]
     \/ UNCHANGED <<kind, view>>
  /\ external' = external \cup {a}
  /\ UNCHANGED <<object, storage, own, arg, queue, calling, careless>>

(* clSVMAlloc and an external ArrayBuffer over it; a NULL throws.           *)
SVMAlloc(a, b) ==
  /\ ~calling
  /\ FreshView(a) /\ FreshBlock(b)
  /\ kind' = [kind EXCEPT ![b] = "svm"]
  /\ view' = [view EXCEPT ![a] = b]
  /\ external' = external \cup {a}
  /\ held' = held \cup {a}
  /\ UNCHANGED <<object, storage, own, arg, queue, calling, careless>>

(* clSVMFree and its queued form; they ignore a pointer that is not of SVM. *)
FreeSVM(B) == [b \in Blocks |-> IF b \in B /\ kind[b] = "svm" THEN "spent" ELSE kind[b]]

(* clSVMFree at once, whatever uses the memory; the ArrayBuffer stays.      *)
SVMFree(a) ==
  /\ ~calling
  /\ a \in held
  /\ kind' = FreeSVM({view[a]})
  /\ Follows(MayFree(view[a]))
  /\ UNCHANGED <<view, external, held, object, storage, own, arg, queue, calling>>

EnqueueSVMFree(a) ==
  /\ a \in held
  /\ Enqueue({view[a]}, {}, TRUE, FALSE)
  /\ Follows(MayQueueFree(view[a]))
  /\ UNCHANGED <<kind, view, external, held, object, storage, own, arg>>

EnqueueSVMMemcpy(a, x, blocking) ==
  /\ a \in held /\ x \in held
  /\ Enqueue({view[a], view[x]}, {}, FALSE, blocking)
  /\ Follows(MayPass(view[a]) /\ MayPass(view[x]))
  /\ UNCHANGED <<kind, view, external, held, object, storage, own, arg>>

(* The pattern is read during the call.                                    *)
EnqueueSVMMemFill(a) ==
  /\ a \in held
  /\ Enqueue({view[a]}, {}, FALSE, FALSE)
  /\ Follows(MayPass(view[a]))
  /\ UNCHANGED <<kind, view, external, held, object, storage, own, arg>>

EnqueueSVMMap(a, blocking) ==
  /\ a \in held
  /\ Enqueue({view[a]}, {}, FALSE, blocking)
  /\ Follows(MayPass(view[a]))
  /\ UNCHANGED <<kind, view, external, held, object, storage, own, arg>>

EnqueueSVMUnmap(a) ==
  /\ a \in held
  /\ Enqueue({view[a]}, {}, FALSE, FALSE)
  /\ Follows(MayPass(view[a]))
  /\ UNCHANGED <<kind, view, external, held, object, storage, own, arg>>

-----------------------------------------------------------------------------
(* Kernel arguments (kernel.cpp, svm.cpp): the driver keeps the value and   *)
(* no reference, and the wrapper of the kernel keeps neither.              *)

SetKernelArg(m) ==
  /\ ~calling
  /\ Accepted(m)
  /\ arg' = m
  /\ UNCHANGED <<kind, view, external, held, object, storage, own, queue, calling, careless>>

SetKernelArgSVMPointer(a) ==
  /\ ~calling
  /\ a \in held
  /\ arg' = view[a]
  /\ UNCHANGED <<kind, view, external, held, object, storage, own, queue, calling, careless>>

(* The driver refuses a kernel whose argument was never set.               *)
EnqueueNDRangeKernel ==
  /\ arg # Nil
  /\ Enqueue({arg} \cap Blocks, {arg} \cap Mems, FALSE, FALSE)
  /\ Follows(MayRun)
  /\ UNCHANGED <<kind, view, external, held, object, storage, own, arg>>

-----------------------------------------------------------------------------
(* The driver                                                              *)

Execute ==
  /\ queue # <<>>
  /\ queue' = Tail(queue)
  /\ kind' = IF Head(queue).frees THEN FreeSVM(Head(queue).ptrs) ELSE kind
  /\ UNCHANGED <<view, external, held, object, storage, own, arg, calling, careless>>

Return ==
  /\ calling /\ queue = <<>>
  /\ calling' = FALSE
  /\ UNCHANGED <<kind, view, external, held, object, storage, own, arg, queue, careless>>

-----------------------------------------------------------------------------
Next ==
  \/ \E a \in Buffers, b \in Blocks : NewArrayBuffer(a, b) \/ SVMAlloc(a, b)
  \/ \E x \in Buffers \cup Mems : Drop(x)
  \/ \E a \in Buffers :
       \/ CollectBuffer(a) \/ SVMFree(a) \/ EnqueueSVMFree(a) \/ EnqueueSVMMemFill(a)
       \/ EnqueueSVMUnmap(a) \/ SetKernelArgSVMPointer(a)
       \/ \E blocking \in BOOLEAN :
            EnqueueSVMMap(a, blocking) \/ \E x \in Buffers : EnqueueSVMMemcpy(a, x, blocking)
  \/ \E m \in Mems :
       \/ CollectMem(m) \/ ReleaseMemObject(m) \/ Destroy(m) \/ SetKernelArg(m)
       \/ \E b \in Blocks : CreateBuffer(m, b)
       \/ \E n \in Mems : EnqueueOnObjects(m, n)
       \/ \E a \in Buffers :
            \/ CreateBufferOnHost(m, a) \/ EnqueueUnmapMemObject(m, a)
            \/ \E blocking \in BOOLEAN : EnqueueTransfer(m, a, blocking) \/ EnqueueMap(m, a, blocking)
  \/ EnqueueNDRangeKernel \/ Execute \/ Return

Spec == Init /\ [][Next]_vars

-----------------------------------------------------------------------------
(* A command that would touch freed memory, or an object that is gone.     *)
Dangling(c) == Memory(c) \cap Freed # {} \/ \E m \in c.mems : object[m] = "none"

(* The rules are enough: a program that follows them has no command in      *)
(* flight and no memory object on freed memory, and its ArrayBuffers are    *)
(* over live memory, except those whose SVM memory it has freed itself.    *)
KeptIsSafe ==
  ~careless =>
    /\ \A c \in InFlight : ~Dangling(c)
    /\ \A m \in Mems : object[m] = "live" => storage[m] \notin Freed
    /\ \A a \in Buffers \cap held : kind[view[a]] # "free"

(* Whatever the program does, V8 frees no memory a blocking command was     *)
(* given: the call keeps its arguments, and the collector, out of it       *)
(* (commandqueue.cpp:268 and the other blocking handlers).                 *)
BlockingIsSafe ==
  [][\A c \in InFlight : ~c.async =>
       \A b \in c.ptrs : kind[b] = "v8" => kind'[b] = "v8"]_vars

(* Whatever the program does, contents the driver allocated live as long as *)
(* the object: no ArrayBuffer made over them gives them back.              *)
OwnStorageLive == \A m \in own : kind[storage[m]] = "driver"

(* SVM memory JS has lost its ArrayBuffers to, and not asked to free, is     *)
(* never given back: the collector does not do it for the program          *)
(* (svm.cpp:40).                                                           *)
SVMPinned ==
  [][\A b \in Blocks :
       kind[b] = "svm" /\ ~FreeQueued(b) /\ (\A a \in Buffers \cap held : view[a] # b)
         => kind'[b] = "svm"]_vars
=============================================================================
