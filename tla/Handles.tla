------------------------------ MODULE Handles ------------------------------
(***************************************************************************)
(* Reference ownership between the JavaScript wrappers of node-opencl      *)
(* (template class NoCLWrapper, src/types.h) and the reference counts the  *)
(* OpenCL driver keeps.                                                    *)
(*                                                                         *)
(* A wrapper is a JS object around one driver handle.  It is created       *)
(* holding one reference, gives it back at most once (its `released`       *)
(* flag), explicitly through release*() or from its destructor when V8     *)
(* collects it.  retain*() adds a reference that belongs to no wrapper.    *)
(* get*Info() that answers with a handle retains it and wraps it anew.     *)
(*                                                                         *)
(* All handlers run to completion on the main thread, so each is a single  *)
(* action.  A call the driver refuses throws and changes nothing: it is a  *)
(* stuttering step and has no action.  The driver frees an object some     *)
(* time after its count is zero and nothing depends on it, and may then    *)
(* give its address to a new object.                                       *)
(***************************************************************************)
EXTENDS Naturals, FiniteSets

CONSTANTS
  Objs,         \* driver addresses
  Wrappers,     \* places for NoCLWrapper instances that exist at one time
  NoObj,        \* the null handle
  Kinds,        \* the kinds of object the program uses
  MaxRefs       \* bound on a driver reference count

ASSUME WrappersFinite == IsFiniteSet(Wrappers)
ASSUME NoObjIsNoObject == NoObj \notin Objs
ASSUME KindsAreKinds ==
  Kinds \subseteq {"context", "queue", "mem", "sampler", "program", "kernel", "event"}
ASSUME MaxRefsIsNat == MaxRefs \in Nat

VARIABLES
  kind,       \* kind[o]: what lives at address o, "none" when it is free
  context,    \* context[o]: the context o was created in
  assoc,      \* assoc[o]: a kernel's program, a sub-buffer's buffer, an event's queue
  refs,       \* refs[o]: the count changed by clCreate*, clRetain*, clRelease*
  extra,      \* extra[o]: how many of them come from retain*() (history variable)
  raw,        \* NoCLWrapper::raw
  type,       \* the wrapper's template instance (its prototype id), "none": no wrapper
  released    \* NoCLWrapper::released

driverVars == <<kind, context, assoc, refs, extra>>
wrapperVars == <<raw, type, released>>
vars == <<kind, context, assoc, refs, extra, raw, type, released>>

TypeOK ==
  /\ kind \in [Objs -> Kinds \cup {"none"}]
  /\ context \in [Objs -> Objs \cup {NoObj}]
  /\ assoc \in [Objs -> Objs \cup {NoObj}]
  /\ refs \in [Objs -> Nat]
  /\ extra \in [Objs -> Nat]
  /\ raw \in [Wrappers -> Objs \cup {NoObj}]
  /\ type \in [Wrappers -> Kinds \cup {"none"}]
  /\ released \in [Wrappers -> BOOLEAN]

Init ==
  /\ kind = [o \in Objs |-> "none"]
  /\ context = [o \in Objs |-> NoObj]
  /\ assoc = [o \in Objs |-> NoObj]
  /\ refs = [o \in Objs |-> 0]
  /\ extra = [o \in Objs |-> 0]
  /\ raw = [w \in Wrappers |-> NoObj]
  /\ type = [w \in Wrappers |-> "none"]
  /\ released = [w \in Wrappers |-> FALSE]

Alive(o) == o \in Objs /\ kind[o] # "none"

(* The address holds an object of the kind the wrapper's type promises:    *)
(* what the driver checks before it serves a call on raw[w].               *)
Valid(w) == Alive(raw[w]) /\ kind[raw[w]] = type[w]

-----------------------------------------------------------------------------
(* NoCLWrapper (types.h)                                                   *)

(* NOCL_UNWRAP: the argument is a wrapper of the expected type, and the     *)
(* driver accepts its handle.  The `released` flag is not looked at.       *)
Unwrap(w, k) == type[w] = k /\ Valid(w)

(* NOCL_WRAP / NewInstance: a new JS object takes over one reference to o. *)
NewInstance(w, o, k) ==
  /\ type[w] = "none"
  /\ raw' = [raw EXCEPT ![w] = o]
  /\ type' = [type EXCEPT ![w] = k]
  /\ UNCHANGED released

(* A clCreate* or clEnqueue* call that succeeds: the driver returns a new   *)
(* object with one reference, created in context c and depending on a.     *)
Allocate(o, k, c, a) ==
  /\ k \in Kinds
  /\ kind[o] = "none"
  /\ kind' = [kind EXCEPT ![o] = k]
  /\ context' = [context EXCEPT ![o] = c]
  /\ assoc' = [assoc EXCEPT ![o] = a]
  /\ refs' = [refs EXCEPT ![o] = 1]
  /\ UNCHANGED extra

Create(w, o, k, c, a) == Allocate(o, k, c, a) /\ NewInstance(w, o, k)

(* acquire(): cl_acquire(raw), whatever `released` says.                   *)
Acquire(w, k) ==
  /\ Unwrap(w, k)
  /\ refs[raw[w]] < MaxRefs
  /\ refs' = [refs EXCEPT ![raw[w]] = @ + 1]
  /\ extra' = [extra EXCEPT ![raw[w]] = @ + 1]
  /\ UNCHANGED <<kind, context, assoc, wrapperVars>>

(* Mutant: the `released` flag is not looked at.                           *)
ReleaseIgnoresFlag(w) ==
  /\ released' = [released EXCEPT ![w] = TRUE]
  /\ refs' = [refs EXCEPT ![raw[w]] = @ - 1]
  /\ UNCHANGED <<kind, context, assoc, extra, raw, type>>

(* release(): nothing when already released; otherwise cl_release(raw).    *)
Release(w) ==
  \/ /\ released[w]
     /\ UNCHANGED vars
  \/ /\ ~released[w]
     /\ released' = [released EXCEPT ![w] = TRUE]
     /\ refs' = [refs EXCEPT ![raw[w]] = @ - 1]
     /\ UNCHANGED <<kind, context, assoc, extra, raw, type>>

(* release*() of JS: needs the right type, not a valid handle: a released   *)
(* wrapper may be released again.                                          *)
ReleaseHandle(w, k) == type[w] = k /\ Release(w)

(* Mutant: get*Info() wraps the handle without clRetain*.                   *)
WrapUnretained(w, o) ==
  /\ Alive(o)
  /\ NewInstance(w, o, kind[o])
  /\ UNCHANGED driverVars

(* get*Info() answering with the handle o: clRetain*, then NOCL_WRAP.      *)
WrapRetained(w, o) ==
  /\ Alive(o)
  /\ refs[o] < MaxRefs
  /\ refs' = [refs EXCEPT ![o] = @ + 1]
  /\ NewInstance(w, o, kind[o])
  /\ UNCHANGED <<kind, context, assoc, extra>>

-----------------------------------------------------------------------------
(* Handlers that create an object                                          *)

CreateContext(w, o) == Create(w, o, "context", NoObj, NoObj)
CreateContextFromType(w, o) == Create(w, o, "context", NoObj, NoObj)

CreateCommandQueue(w, o, c) ==
  Unwrap(c, "context") /\ Create(w, o, "queue", raw[c], NoObj)

CreateCommandQueueWithProperties(w, o, c) ==
  Unwrap(c, "context") /\ Create(w, o, "queue", raw[c], NoObj)

CreateBuffer(w, o, c) ==
  Unwrap(c, "context") /\ Create(w, o, "mem", raw[c], NoObj)

(* The driver refuses a sub-buffer of a sub-buffer.                         *)
CreateSubBuffer(w, o, b) ==
  /\ Unwrap(b, "mem") /\ assoc[raw[b]] = NoObj
  /\ Create(w, o, "mem", context[raw[b]], raw[b])

(* createImage, of its own or over the buffer named by desc.buffer.        *)
CreateImage(w, o, c, b) ==
  /\ Unwrap(c, "context")
  /\ \/ Create(w, o, "mem", raw[c], NoObj)
     \/ Unwrap(b, "mem") /\ Create(w, o, "mem", raw[c], raw[b])

CreatePipe(w, o, c) ==
  Unwrap(c, "context") /\ Create(w, o, "mem", raw[c], NoObj)

CreateSampler(w, o, c) ==
  Unwrap(c, "context") /\ Create(w, o, "sampler", raw[c], NoObj)

CreateSamplerWithProperties(w, o, c) ==
  Unwrap(c, "context") /\ Create(w, o, "sampler", raw[c], NoObj)

CreateProgramWithSource(w, o, c) ==
  Unwrap(c, "context") /\ Create(w, o, "program", raw[c], NoObj)

CreateProgramWithBinary(w, o, c) ==
  Unwrap(c, "context") /\ Create(w, o, "program", raw[c], NoObj)

CreateProgramWithBuiltInKernels(w, o, c) ==
  Unwrap(c, "context") /\ Create(w, o, "program", raw[c], NoObj)

(* linkProgram reads its input programs and depends on none of them after. *)
LinkProgram(w, o, c, p) ==
  /\ Unwrap(c, "context")
  /\ Unwrap(p, "program")
  /\ Create(w, o, "program", raw[c], NoObj)

CreateKernel(w, o, p) ==
  Unwrap(p, "program") /\ Create(w, o, "kernel", context[raw[p]], raw[p])

(* Mutant: clRetainKernel on each kernel, as in the line commented out.     *)
KernelsRetained(w1, w2, o1, o2, p) ==
  /\ Unwrap(p, "program")
  /\ "kernel" \in Kinds
  /\ w1 # w2 /\ type[w1] = "none" /\ type[w2] = "none"
  /\ o1 # o2 /\ kind[o1] = "none" /\ kind[o2] = "none"
  /\ kind' = [kind EXCEPT ![o1] = "kernel", ![o2] = "kernel"]
  /\ context' = [context EXCEPT ![o1] = context[raw[p]], ![o2] = context[raw[p]]]
  /\ assoc' = [assoc EXCEPT ![o1] = raw[p], ![o2] = raw[p]]
  /\ refs' = [refs EXCEPT ![o1] = 2, ![o2] = 2]
  /\ raw' = [raw EXCEPT ![w1] = o1, ![w2] = o2]
  /\ type' = [type EXCEPT ![w1] = "kernel", ![w2] = "kernel"]
  /\ UNCHANGED <<extra, released>>

(* createKernelsInProgram: one driver call creates every kernel of the      *)
(* program, here two, and each is wrapped without a further retain.        *)
CreateKernelsInProgram(w1, w2, o1, o2, p) ==
  /\ Unwrap(p, "program")
  /\ "kernel" \in Kinds
  /\ w1 # w2 /\ type[w1] = "none" /\ type[w2] = "none"
  /\ o1 # o2 /\ kind[o1] = "none" /\ kind[o2] = "none"
  /\ kind' = [kind EXCEPT ![o1] = "kernel", ![o2] = "kernel"]
  /\ context' = [context EXCEPT ![o1] = context[raw[p]], ![o2] = context[raw[p]]]
  /\ assoc' = [assoc EXCEPT ![o1] = raw[p], ![o2] = raw[p]]
  /\ refs' = [refs EXCEPT ![o1] = 1, ![o2] = 1]
  /\ raw' = [raw EXCEPT ![w1] = o1, ![w2] = o2]
  /\ type' = [type EXCEPT ![w1] = "kernel", ![w2] = "kernel"]
  /\ UNCHANGED <<extra, released>>

CreateUserEvent(w, o, c) ==
  Unwrap(c, "context") /\ Create(w, o, "event", raw[c], NoObj)

(* Any enqueue*() asked for an event: RETURN_EVENT wraps what the driver    *)
(* stored in `event`.                                                      *)
EnqueueWithEvent(w, o, q) ==
  Unwrap(q, "queue") /\ Create(w, o, "event", context[raw[q]], raw[q])

-----------------------------------------------------------------------------
(* retain*() and release*() of each kind                                   *)

RetainContext(w) == Acquire(w, "context")
RetainCommandQueue(w) == Acquire(w, "queue")
RetainMemObject(w) == Acquire(w, "mem")
RetainSampler(w) == Acquire(w, "sampler")
RetainProgram(w) == Acquire(w, "program")
RetainKernel(w) == Acquire(w, "kernel")
RetainEvent(w) == Acquire(w, "event")

ReleaseContext(w) == ReleaseHandle(w, "context")
ReleaseCommandQueue(w) == ReleaseHandle(w, "queue")
ReleaseMemObject(w) == ReleaseHandle(w, "mem")
ReleaseSampler(w) == ReleaseHandle(w, "sampler")
ReleaseProgram(w) == ReleaseHandle(w, "program")
ReleaseKernel(w) == ReleaseHandle(w, "kernel")
ReleaseEvent(w) == ReleaseHandle(w, "event")

-----------------------------------------------------------------------------
(* Queries that answer with a handle; getSamplerInfo never does.           *)

GetCommandQueueInfo(w, q) == Unwrap(q, "queue") /\ WrapRetained(w, context[raw[q]])

GetMemObjectInfo(w, m) ==
  /\ Unwrap(m, "mem")
  /\ \E o \in {context[raw[m]], assoc[raw[m]]} : WrapRetained(w, o)

(* CL_IMAGE_BUFFER.                                                        *)
GetImageInfo(w, m) == Unwrap(m, "mem") /\ WrapRetained(w, assoc[raw[m]])

GetProgramInfo(w, p) == Unwrap(p, "program") /\ WrapRetained(w, context[raw[p]])

GetKernelInfo(w, k) ==
  /\ Unwrap(k, "kernel")
  /\ \E o \in {context[raw[k]], assoc[raw[k]]} : WrapRetained(w, o)

(* A user event has no queue: clRetainCommandQueue(NULL) fails and throws.  *)
GetEventInfo(w, e) ==
  /\ Unwrap(e, "event")
  /\ \E o \in {context[raw[e]], assoc[raw[e]]} : WrapRetained(w, o)

-----------------------------------------------------------------------------
(* V8 and the driver                                                       *)

(* Mutant: the destructor calls cl_release whether or not released.         *)
CollectReleasesAgain(w) ==
  /\ type[w] # "none"
  /\ refs' = [refs EXCEPT ![raw[w]] = @ - 1]
  /\ raw' = [raw EXCEPT ![w] = NoObj]
  /\ type' = [type EXCEPT ![w] = "none"]
  /\ released' = [released EXCEPT ![w] = FALSE]
  /\ UNCHANGED <<kind, context, assoc, extra>>

(* No reference from JS or a Persistent is left: the collector runs         *)
(* ~NoCLWrapper, which releases, and the instance is gone.  The call        *)
(* stands in an assert(): this is a build without NDEBUG.                  *)
Collect(w) ==
  /\ type[w] # "none"
  /\ refs' = IF released[w] THEN refs ELSE [refs EXCEPT ![raw[w]] = @ - 1]
  /\ raw' = [raw EXCEPT ![w] = NoObj]
  /\ type' = [type EXCEPT ![w] = "none"]
  /\ released' = [released EXCEPT ![w] = FALSE]
  /\ UNCHANGED <<kind, context, assoc, extra>>

(* The driver frees an object without references or dependents.            *)
DriverDestroy(o) ==
  /\ kind[o] # "none" /\ refs[o] = 0
  /\ \A p \in Objs : kind[p] # "none" => context[p] # o /\ assoc[p] # o
  /\ kind' = [kind EXCEPT ![o] = "none"]
  /\ context' = [context EXCEPT ![o] = NoObj]
  /\ assoc' = [assoc EXCEPT ![o] = NoObj]
  /\ UNCHANGED <<refs, extra, wrapperVars>>

-----------------------------------------------------------------------------
Creation ==
  \E w \in Wrappers, o \in Objs :
    \/ CreateContext(w, o)
    \/ CreateContextFromType(w, o)
    \/ \E v \in Wrappers :
         \/ CreateCommandQueue(w, o, v)
         \/ CreateCommandQueueWithProperties(w, o, v)
         \/ CreateBuffer(w, o, v)
         \/ CreateSubBuffer(w, o, v)
         \/ CreatePipe(w, o, v)
         \/ CreateSampler(w, o, v)
         \/ CreateSamplerWithProperties(w, o, v)
         \/ CreateProgramWithSource(w, o, v)
         \/ CreateProgramWithBinary(w, o, v)
         \/ CreateProgramWithBuiltInKernels(w, o, v)
         \/ CreateKernel(w, o, v)
         \/ CreateUserEvent(w, o, v)
         \/ EnqueueWithEvent(w, o, v)
         \/ \E b \in Wrappers : CreateImage(w, o, v, b) \/ LinkProgram(w, o, v, b)
         \/ \E w2 \in Wrappers, o2 \in Objs : CreateKernelsInProgram(w, w2, o, o2, v)

Counting ==
  \E w \in Wrappers :
    \/ RetainContext(w) \/ RetainCommandQueue(w) \/ RetainMemObject(w)
    \/ RetainSampler(w) \/ RetainProgram(w) \/ RetainKernel(w) \/ RetainEvent(w)
    \/ ReleaseContext(w) \/ ReleaseCommandQueue(w) \/ ReleaseMemObject(w)
    \/ ReleaseSampler(w) \/ ReleaseProgram(w) \/ ReleaseKernel(w) \/ ReleaseEvent(w)

Query ==
  \E w, v \in Wrappers :
    \/ GetCommandQueueInfo(w, v) \/ GetMemObjectInfo(w, v) \/ GetImageInfo(w, v)
    \/ GetProgramInfo(w, v) \/ GetKernelInfo(w, v) \/ GetEventInfo(w, v)

Next ==
  \/ Creation
  \/ Counting
  \/ Query
  \/ \E w \in Wrappers : Collect(w)
  \/ \E o \in Objs : DriverDestroy(o)

Spec == Init /\ [][Next]_vars

-----------------------------------------------------------------------------
(* The wrappers that still own the reference on o they were created with.  *)
Owners(o) == {w \in Wrappers : raw[w] = o /\ ~released[w]}

(* Every reference the driver counts on an object belongs to exactly one    *)
(* wrapper that has not given it back or to one retain*(): no handler,      *)
(* error path or destructor leaks a reference or gives one back twice, and  *)
(* no wrapper owns a free address.                                         *)
Accounting ==
  \A o \in Objs :
    IF Alive(o) THEN refs[o] = Cardinality(Owners(o)) + extra[o]
    ELSE Owners(o) = {} /\ refs[o] = 0 /\ extra[o] = 0

(* A wrapper that has not been released names a live object of its own type *)
(* with a reference left, so the clRelease*() of release*() or of the       *)
(* destructor, whose failure aborts the process, cannot fail, even though   *)
(* the driver reuses addresses.                                            *)
LiveHandle ==
  \A w \in Wrappers :
    type[w] # "none" /\ ~released[w] => Valid(w) /\ refs[raw[w]] > 0

(* A wrapper gives back one reference, so nothing ever gives back the one a *)
(* retain*() added: a retained object keeps its address until the process  *)
(* ends, whatever is released or collected.                                *)
RetainPinsForever ==
  [][\A o \in Objs :
       extra[o] > 0 => kind'[o] = kind[o] /\ extra'[o] >= extra[o] /\ refs'[o] > 0]_vars

=============================================================================
