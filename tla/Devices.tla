------------------------------ MODULE Devices ------------------------------
(***************************************************************************)
(* Sub-devices, their reference counts and the device wrappers             *)
(* (src/device.cpp; the queries that answer devices in context.cpp,        *)
(* commandqueue.cpp and program.cpp).                                      *)
(*                                                                         *)
(* A root device has no count.  A sub-device is created with one           *)
(* reference.  Each query that answers a device retains it and makes a new *)
(* wrapper; acquire and release of a device wrapper are noop, so nothing   *)
(* but releaseDevice() gives a reference back, as often as it is called.   *)
(*                                                                         *)
(* The driver deletes a sub-device without references that no context      *)
(* uses, and may give its address to the next one.                         *)
(***************************************************************************)
EXTENDS Naturals, FiniteSets, Functions

CONSTANTS
  Roots,      \* devices of the platform
  Subs,       \* addresses for sub-devices
  Contexts,   \* places for contexts, each with its queues and programs
  Wrappers,   \* places for NoCLDeviceId wrappers
  NoDevice,   \* what a place without a wrapper names
  Garbage,    \* a handle that is no device
  MaxRefs     \* bound on the driver's count of a sub-device

ASSUME HandlesDiffer ==
  /\ Roots \cap Subs = {} /\ NoDevice # Garbage
  /\ {NoDevice, Garbage} \cap (Roots \cup Subs) = {}
ASSUME WrappersFinite == IsFiniteSet(Wrappers)

VARIABLES
  live,      \* sub-devices the driver has
  refs,      \* refs[s]: the driver's count
  devices,   \* devices[c]: the devices of a context, {} when there is none
  named,     \* named[w]: the raw handle of a wrapper
  owed,      \* wrappers JS got with a reference it has not given back (history)
  spare,     \* spare[s]: references JS added with retainDevice (history)
  lost,      \* lost[s]: references whose wrapper was collected (history)
  careless,  \* JS released a reference it did not have (history)
  short      \* createSubDevices wrapped an id nobody wrote (history)

vars == <<live, refs, devices, named, owed, spare, lost, careless, short>>
driverVars == <<live, refs, devices>>

TypeOK ==
  /\ live \subseteq Subs
  /\ refs \in [Subs -> Nat]
  /\ devices \in [Contexts -> SUBSET (Roots \cup Subs)]
  /\ named \in [Wrappers -> Roots \cup Subs \cup {NoDevice, Garbage}]
  /\ owed \subseteq Wrappers
  /\ spare \in [Subs -> Nat]
  /\ lost \in [Subs -> Nat]
  /\ careless \in BOOLEAN
  /\ short \in BOOLEAN

Init ==
  /\ live = {} /\ refs = [s \in Subs |-> 0]
  /\ devices = [c \in Contexts |-> {}]
  /\ named = [w \in Wrappers |-> NoDevice]
  /\ owed = {} /\ spare = [s \in Subs |-> 0] /\ lost = [s \in Subs |-> 0]
  /\ careless = FALSE /\ short = FALSE

-----------------------------------------------------------------------------
Unused == {w \in Wrappers : named[w] = NoDevice}

(* The driver accepts the handle of a wrapper.                             *)
Valid(w) == named[w] \in Roots \cup live

(* The handler asks for the parent, which only a sub-device has; of a bad    *)
(* handle the driver tells nothing and the parent stays NULL.              *)
IsSubDevice(w) == named[w] \in live

(* NOCL_WRAP of each device of D.                                          *)
Wrap(D) ==
  \E f \in Injection(D, Unused) :
    /\ named' = [w \in Wrappers |-> IF w \in Range(f) THEN CHOOSE d \in D : f[d] = w ELSE named[w]]
    /\ owed' = owed \cup {f[s] : s \in D \cap Subs}

(* Mutant: the devices a query answers are wrapped as they are.             *)
WrapUnretained(D) == D # {} /\ Wrap(D) /\ UNCHANGED <<refs>>

(* clRetainDevice, which does nothing to a root device, and NOCL_WRAP.      *)
WrapRetained(D) ==
  /\ D # {} /\ \A s \in D \cap Subs : refs[s] < MaxRefs
  /\ Wrap(D)
  /\ refs' = [s \in Subs |-> IF s \in D THEN refs[s] + 1 ELSE refs[s]]

-----------------------------------------------------------------------------
(* device.cpp                                                              *)

GetDeviceIDs ==
  /\ WrapRetained(Roots)
  /\ UNCHANGED <<live, devices, spare, lost, careless, short>>

(* The length of the array comes from a partition of 3 + 1 units, not from  *)
(* the one asked for: two ids.  A device that cannot do both, or a          *)
(* partition in more than two, throws.                                     *)
CreateSubDevices(w, s, t) ==
  /\ Valid(w)
  /\ s # t /\ {s, t} \cap live = {}
  /\ live' = live \cup {s, t}
  /\ refs' = [refs EXCEPT ![s] = 1, ![t] = 1]
  /\ spare' = [spare EXCEPT ![s] = 0, ![t] = 0]
  /\ lost' = [lost EXCEPT ![s] = 0, ![t] = 0]
  /\ Wrap({s, t})
  /\ UNCHANGED <<devices, careless, short>>

(* A partition in one writes one id; the other is what the memory held.     *)
CreateOneSubDevice(w, s, other) ==
  /\ Valid(w)
  /\ s \notin live /\ other # s
  /\ live' = live \cup {s}
  /\ refs' = [refs EXCEPT ![s] = 1]
  /\ spare' = [spare EXCEPT ![s] = 0]
  /\ lost' = [lost EXCEPT ![s] = 0]
  /\ Wrap({s, other})
  /\ short' = TRUE
  /\ UNCHANGED <<devices, careless>>

RetainDevice(w) ==
  LET s == named[w] IN
  /\ IsSubDevice(w)
  /\ refs[s] < MaxRefs
  /\ refs' = [refs EXCEPT ![s] = @ + 1]
  /\ spare' = [spare EXCEPT ![s] = @ + 1]
  /\ UNCHANGED <<live, devices, named, owed, lost, careless, short>>

(* Mutant: as with the other kinds, a wrapper gives back only once.         *)
ReleaseDeviceOnce(w) ==
  LET s == named[w] IN
  /\ IsSubDevice(w) /\ refs[s] > 0
  /\ refs' = IF w \in owed THEN [refs EXCEPT ![s] = @ - 1] ELSE refs
  /\ owed' = owed \ {w}
  /\ spare' = IF w \notin owed /\ spare[s] > 0 THEN [spare EXCEPT ![s] = @ - 1] ELSE spare
  /\ careless' = (careless \/ (w \notin owed /\ spare[s] = 0))
  /\ UNCHANGED <<live, devices, named, lost, short>>

(* Mutant: the driver's refusal is not looked at, nor its count.            *)
ReleaseDeviceUncounted(w) ==
  /\ IsSubDevice(w)
  /\ refs' = [refs EXCEPT ![named[w]] = @ - 1]
  /\ UNCHANGED <<live, devices, named, owed, spare, lost, careless, short>>

(* The driver takes one reference, whoever's it is.                        *)
ReleaseDevice(w) ==
  LET s == named[w] IN
  /\ IsSubDevice(w) /\ refs[s] > 0
  /\ refs' = [refs EXCEPT ![s] = @ - 1]
  /\ owed' = owed \ {w}
  /\ spare' = IF w \notin owed /\ spare[s] > 0 THEN [spare EXCEPT ![s] = @ - 1] ELSE spare
  /\ careless' = (careless \/ (w \notin owed /\ spare[s] = 0))
  /\ UNCHANGED <<live, devices, named, lost, short>>

-----------------------------------------------------------------------------
(* Contexts, with the queues and programs made in them                     *)

CreateContext(c, W) ==
  /\ devices[c] = {}
  /\ W # {} /\ \A w \in W : Valid(w)
  /\ devices' = [devices EXCEPT ![c] = {named[w] : w \in W}]
  /\ UNCHANGED <<live, refs, named, owed, spare, lost, careless, short>>

(* The context's last reference and those of its objects are given back.    *)
DestroyContext(c) ==
  /\ devices[c] # {}
  /\ devices' = [devices EXCEPT ![c] = {}]
  /\ UNCHANGED <<live, refs, named, owed, spare, lost, careless, short>>

(* CL_CONTEXT_DEVICES, CL_PROGRAM_DEVICES: all; CL_QUEUE_DEVICE: one.        *)
GetContextInfo(c) ==
  WrapRetained(devices[c]) /\ UNCHANGED <<live, devices, spare, lost, careless, short>>

GetProgramInfo(c) ==
  WrapRetained(devices[c]) /\ UNCHANGED <<live, devices, spare, lost, careless, short>>

GetCommandQueueInfo(c, d) ==
  /\ d \in devices[c]
  /\ WrapRetained({d})
  /\ UNCHANGED <<live, devices, spare, lost, careless, short>>

-----------------------------------------------------------------------------
(* V8 and the driver                                                       *)

(* Mutant: the destructor of a device wrapper releases it.                  *)
CollectReleases(w) ==
  /\ named[w] # NoDevice
  /\ named' = [named EXCEPT ![w] = NoDevice]
  /\ owed' = owed \ {w}
  /\ refs' = IF w \in owed /\ refs[named[w]] > 0 THEN [refs EXCEPT ![named[w]] = @ - 1] ELSE refs
  /\ UNCHANGED <<live, devices, spare, lost, careless, short>>

(* ~NoCLWrapper with noop for release.                                     *)
Collect(w) ==
  /\ named[w] # NoDevice
  /\ named' = [named EXCEPT ![w] = NoDevice]
  /\ owed' = owed \ {w}
  /\ lost' = IF w \in owed THEN [lost EXCEPT ![named[w]] = @ + 1] ELSE lost
  /\ UNCHANGED <<driverVars, spare, careless, short>>

Delete(s) ==
  /\ s \in live /\ refs[s] = 0
  /\ \A c \in Contexts : s \notin devices[c]
  /\ live' = live \ {s}
  /\ UNCHANGED <<refs, devices, named, owed, spare, lost, careless, short>>

-----------------------------------------------------------------------------
Next ==
  \/ GetDeviceIDs
  \/ \E w \in Wrappers :
       \/ \E s, t \in Subs : CreateSubDevices(w, s, t)
       \/ \E s \in Subs, other \in Roots \cup Subs \cup {Garbage} : CreateOneSubDevice(w, s, other)
       \/ RetainDevice(w) \/ ReleaseDevice(w) \/ Collect(w)
  \/ \E c \in Contexts :
       \/ \E W \in SUBSET Wrappers : CreateContext(c, W)
       \/ DestroyContext(c) \/ GetContextInfo(c) \/ GetProgramInfo(c)
       \/ \E d \in Roots \cup Subs : GetCommandQueueInfo(c, d)
  \/ \E s \in Subs : Delete(s)

Spec == Init /\ [][Next]_vars

-----------------------------------------------------------------------------
Holders(s) == {w \in owed : named[w] = s}

(* As long as JS gives back only references it has, and every id was        *)
(* written by the driver: the count of a sub-device is the wrappers that    *)
(* came with a reference, retainDevice's, and those lost with their         *)
(* wrappers, across queries, contexts and reused addresses                 *)
(* (device.cpp:298, context.cpp:174).                                      *)
SubDeviceAccounting ==
  ~careless /\ ~short =>
    \A s \in live : refs[s] = Cardinality(Holders(s)) + spare[s] + lost[s]

(* Then a wrapper with a reference names a sub-device that still exists.    *)
OwedIsLive == ~careless /\ ~short => \A w \in owed : named[w] \in live

(* A sub-device JS has lost its last wrapper for keeps its references and    *)
(* its life, whatever the program does: only a query that makes a new       *)
(* wrapper lets JS release it (types.h:175).                               *)
Stranded ==
  [][\A s \in live : (\A w \in Wrappers : named'[w] # s) =>
       refs'[s] >= refs[s] /\ (refs[s] > 0 => s \in live')]_vars
=============================================================================
