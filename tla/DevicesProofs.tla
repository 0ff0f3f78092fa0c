---------------------------- MODULE DevicesProofs ---------------------------
(***************************************************************************)
(* Proofs about Devices for any devices, contexts and wrappers.  The       *)
(* accounting is inductive together with OwedIsLive, since an address is     *)
(* reused only when no wrapper is owed for it and a new sub-device starts   *)
(* without holders, and with the life of the devices contexts answer.       *)
(***************************************************************************)
EXTENDS Devices, FiniteSetTheorems, TLAPS

(* The sub-devices of a context are there as long as it is.                 *)
ContextDevices == \A c \in Contexts : devices[c] \cap Subs \subseteq live

IInv == TypeOK /\ ContextDevices /\ SubDeviceAccounting /\ OwedIsLive

(* JS has only given back what it had, and every id was written.            *)
Orderly == ~careless /\ ~short

(* The step Stranded demands.                                              *)
Strands ==
  \A s \in live : (\A w \in Wrappers : named'[w] # s) =>
    refs'[s] >= refs[s] /\ (refs[s] > 0 => s \in live')

-----------------------------------------------------------------------------
(* The holders of a sub-device are wrappers, so they can be counted.        *)
LEMMA HoldersFinite ==
  ASSUME TypeOK, NEW s
  PROVE  IsFiniteSet(Holders(s)) /\ Cardinality(Holders(s)) \in Nat
<1>1. Holders(s) \in SUBSET Wrappers  BY DEF Holders, TypeOK
<1> QED  BY <1>1, WrappersFinite, FS_Subset, FS_CardinalityType

(* NOCL_WRAP keeps the types of the wrappers.                               *)
LEMMA WrapTypes ==
  ASSUME TypeOK, NEW D \in SUBSET (Roots \cup Subs \cup {Garbage}), Wrap(D)
  PROVE  /\ named' \in [Wrappers -> Roots \cup Subs \cup {NoDevice, Garbage}]
         /\ owed' \subseteq Wrappers
<1>1. PICK f \in Injection(D, Unused) :
        /\ named' = [w \in Wrappers |-> IF w \in Range(f) THEN CHOOSE d \in D : f[d] = w ELSE named[w]]
        /\ owed' = owed \cup {f[s] : s \in D \cap Subs}
  BY DEF Wrap
<1>2. f \in [D -> Unused]  BY DEF Injection
<1>3. ASSUME NEW w \in Wrappers, w \in Range(f)
      PROVE  (CHOOSE d \in D : f[d] = w) \in D
  BY <1>2, <1>3 DEF Range
<1>4. named' \in [Wrappers -> Roots \cup Subs \cup {NoDevice, Garbage}]
  BY <1>1, <1>3 DEF TypeOK
<1>5. owed' \subseteq Wrappers  BY <1>1, <1>2 DEF TypeOK, Unused
<1> QED  BY <1>4, <1>5

(* It gives each sub-device of D one holder more, and no other.            *)
LEMMA WrapHolders ==
  ASSUME TypeOK, HandlesDiffer, \A w \in owed : named[w] \in live,
         NEW D \in SUBSET (Roots \cup Subs \cup {Garbage}), Wrap(D)
  PROVE  /\ \A w \in owed' : (w \in owed /\ named'[w] = named[w]) \/ named'[w] \in D \cap Subs
         /\ \A s \in D \cap Subs : Cardinality(Holders(s)') = Cardinality(Holders(s)) + 1
         /\ \A s : s \notin D \cap Subs => Holders(s)' = Holders(s)
<1>1. PICK f \in Injection(D, Unused) :
        /\ named' = [w \in Wrappers |-> IF w \in Range(f) THEN CHOOSE d \in D : f[d] = w ELSE named[w]]
        /\ owed' = owed \cup {f[s] : s \in D \cap Subs}
  BY DEF Wrap
<1>2. f \in [D -> Unused] /\ \A a, b \in D : f[a] = f[b] => a = b
  BY DEF Injection, IsInjective
<1>3. \A w \in owed : w \in Wrappers /\ w \notin Unused
  BY DEF TypeOK, Unused, HandlesDiffer
<1>4. \A w \in owed : named'[w] = named[w]
  BY <1>1, <1>2, <1>3 DEF Range
<1>5. ASSUME NEW d \in D PROVE f[d] \in Unused /\ f[d] \in Wrappers /\ named'[f[d]] = d
  <2>1. f[d] \in Range(f) /\ f[d] \in Unused /\ f[d] \in Wrappers  BY <1>2 DEF Range, Unused
  <2>2. named'[f[d]] = CHOOSE e \in D : f[e] = f[d]  BY <1>1, <2>1
  <2>3. \E e \in D : f[e] = f[d]  OBVIOUS
  <2>4. named'[f[d]] \in D /\ f[named'[f[d]]] = f[d]  BY <2>2, <2>3
  <2> QED  BY <2>1, <2>4, <1>2
<1>w. owed' = owed \cup {f[s] : s \in D \cap Subs}  BY <1>1
<1>6. \A w \in owed' : (w \in owed /\ named'[w] = named[w]) \/ named'[w] \in D \cap Subs
  BY <1>w, <1>4, <1>5
<1>7. ASSUME NEW s \in D \cap Subs
      PROVE  Cardinality(Holders(s)') = Cardinality(Holders(s)) + 1
  <2>1. Holders(s)' = Holders(s) \cup {f[s]}
    BY <1>w, <1>4, <1>5 DEF Holders
  <2>2. f[s] \notin Holders(s)  BY <1>3, <1>5 DEF Holders
  <2> QED  BY <2>1, <2>2, HoldersFinite, FS_AddElement
<1>8. ASSUME NEW s, s \notin D \cap Subs PROVE Holders(s)' = Holders(s)
  BY <1>w, <1>4, <1>5, <1>8 DEF Holders
<1> QED  BY <1>6, <1>7, <1>8

-----------------------------------------------------------------------------
(* A query keeps the invariant: each device gains a wrapper and a reference. *)
LEMMA WrapRetainedKeeps ==
  ASSUME IInv, NEW D \in SUBSET (Roots \cup Subs), D \cap Subs \subseteq live, WrapRetained(D),
         UNCHANGED <<live, devices, spare, lost, careless, short>>
  PROVE  IInv'
<1>1. TypeOK'
  <2>1. refs' \in [Subs -> Nat]  BY DEF IInv, TypeOK, WrapRetained
  <2>2. named' \in [Wrappers -> Roots \cup Subs \cup {NoDevice, Garbage}] /\ owed' \subseteq Wrappers
    BY WrapTypes DEF IInv, WrapRetained
  <2> QED  BY <2>1, <2>2 DEF IInv, TypeOK
<1>a. ContextDevices'  BY DEF IInv, ContextDevices
<1>2. CASE Orderly
  <2> USE <1>2
  <2>1. \A w \in owed : named[w] \in live  BY DEF Orderly, IInv, OwedIsLive
  <2>2. Wrap(D)  BY DEF WrapRetained
  <2>3. /\ \A w \in owed' : (w \in owed /\ named'[w] = named[w]) \/ named'[w] \in D \cap Subs
        /\ \A s \in D \cap Subs : Cardinality(Holders(s)') = Cardinality(Holders(s)) + 1
        /\ \A s : s \notin D \cap Subs => Holders(s)' = Holders(s)
    BY <2>1, <2>2, HandlesDiffer, WrapHolders DEF IInv
  <2>4. SubDeviceAccounting'
    <3> SUFFICES ASSUME NEW s \in live
                 PROVE  refs'[s] = Cardinality(Holders(s)') + spare[s] + lost[s]
      BY DEF SubDeviceAccounting
    <3>1. s \in Subs /\ refs[s] \in Nat /\ spare[s] \in Nat /\ lost[s] \in Nat
      BY DEF IInv, TypeOK
    <3>2. refs[s] = Cardinality(Holders(s)) + spare[s] + lost[s]
      BY DEF IInv, SubDeviceAccounting, Orderly
    <3>3. Cardinality(Holders(s)) \in Nat  BY HoldersFinite DEF IInv
    <3>4. refs'[s] = IF s \in D THEN refs[s] + 1 ELSE refs[s]  BY <3>1 DEF WrapRetained
    <3>5. CASE s \in D
      <4>1. Cardinality(Holders(s)') = Cardinality(Holders(s)) + 1  BY <3>1, <3>5, <2>3
      <4> QED  BY <4>1, <3>1, <3>2, <3>3, <3>4, <3>5
    <3>6. CASE s \notin D
      <4>1. Holders(s)' = Holders(s)  BY <3>6, <2>3
      <4> QED  BY <4>1, <3>2, <3>4, <3>6
    <3> QED  BY <3>5, <3>6
  <2>5. OwedIsLive'  BY <2>1, <2>3 DEF OwedIsLive
  <2> QED  BY <1>1, <1>a, <2>4, <2>5 DEF IInv
<1>3. CASE ~Orderly
  BY <1>1, <1>a, <1>3 DEF IInv, SubDeviceAccounting, OwedIsLive, Orderly
<1> QED  BY <1>2, <1>3

-----------------------------------------------------------------------------
(* Two new sub-devices start with one reference and one holder each.        *)
LEMMA CreateKeeps ==
  ASSUME IInv, NEW w \in Wrappers, NEW s \in Subs, NEW t \in Subs, CreateSubDevices(w, s, t)
  PROVE  IInv'
<1> USE DEF CreateSubDevices
<1>1. TypeOK'
  <2>1. named' \in [Wrappers -> Roots \cup Subs \cup {NoDevice, Garbage}] /\ owed' \subseteq Wrappers
    BY WrapTypes DEF IInv
  <2> QED  BY <2>1 DEF IInv, TypeOK
<1>2. ContextDevices'  BY DEF IInv, ContextDevices
<1>3. CASE Orderly
  <2> USE <1>3
  <2>1. \A x \in owed : named[x] \in live  BY DEF Orderly, IInv, OwedIsLive
  <2>2. /\ \A x \in owed' : (x \in owed /\ named'[x] = named[x]) \/ named'[x] \in {s, t} \cap Subs
        /\ \A d \in {s, t} \cap Subs : Cardinality(Holders(d)') = Cardinality(Holders(d)) + 1
        /\ \A d : d \notin {s, t} \cap Subs => Holders(d)' = Holders(d)
    BY <2>1, HandlesDiffer, WrapHolders DEF IInv
  <2>3. OwedIsLive'  BY <2>1, <2>2 DEF OwedIsLive
  <2>4. SubDeviceAccounting'
    <3> SUFFICES ASSUME NEW d \in live'
                 PROVE  refs'[d] = Cardinality(Holders(d)') + spare'[d] + lost'[d]
      BY DEF SubDeviceAccounting
    <3>1. CASE d \in {s, t}
      <4>1. Holders(d) = {}  BY <2>1, <3>1 DEF Holders
      <4>2. Cardinality(Holders(d)') = 1  BY <4>1, <2>2, <3>1, FS_EmptySet
      <4>3. refs'[d] = 1 /\ spare'[d] = 0 /\ lost'[d] = 0  BY <3>1 DEF IInv, TypeOK
      <4> QED  BY <4>2, <4>3
    <3>2. CASE d \notin {s, t}
      <4>1. d \in live /\ d \in Subs  BY <3>2 DEF IInv, TypeOK
      <4>2. refs'[d] = refs[d] /\ spare'[d] = spare[d] /\ lost'[d] = lost[d]
        BY <3>2, <4>1 DEF IInv, TypeOK
      <4>3. Holders(d)' = Holders(d)  BY <3>2, <2>2
      <4> QED  BY <4>1, <4>2, <4>3 DEF IInv, SubDeviceAccounting, Orderly
    <3> QED  BY <3>1, <3>2
  <2> QED  BY <1>1, <1>2, <2>3, <2>4 DEF IInv
<1>4. CASE ~Orderly
  BY <1>1, <1>2, <1>4 DEF IInv, SubDeviceAccounting, OwedIsLive, Orderly
<1> QED  BY <1>3, <1>4

(* After an id nobody wrote only the types are promised.                    *)
LEMMA CreateOneKeeps ==
  ASSUME IInv, NEW w \in Wrappers, NEW s \in Subs,
         NEW other \in Roots \cup Subs \cup {Garbage}, CreateOneSubDevice(w, s, other)
  PROVE  IInv'
<1> USE DEF CreateOneSubDevice
<1>1. named' \in [Wrappers -> Roots \cup Subs \cup {NoDevice, Garbage}] /\ owed' \subseteq Wrappers
  BY WrapTypes DEF IInv
<1>2. TypeOK'  BY <1>1 DEF IInv, TypeOK
<1>3. ContextDevices'  BY DEF IInv, ContextDevices
<1> QED  BY <1>2, <1>3 DEF IInv, SubDeviceAccounting, OwedIsLive

(* retainDevice adds to what the driver and JS count alike.                 *)
LEMMA RetainKeeps ==
  ASSUME IInv, NEW w \in Wrappers, RetainDevice(w)
  PROVE  IInv'
<1> USE DEF RetainDevice, IsSubDevice
<1>1. TypeOK'  BY DEF IInv, TypeOK
<1>2. ContextDevices' /\ OwedIsLive'  BY DEF IInv, ContextDevices, OwedIsLive
<1>3. SubDeviceAccounting'
  <2> SUFFICES ASSUME Orderly, NEW d \in live
               PROVE  refs'[d] = Cardinality(Holders(d)') + spare'[d] + lost'[d]
    BY DEF SubDeviceAccounting, Orderly
  <2>1. d \in Subs /\ refs[d] \in Nat /\ spare[d] \in Nat /\ lost[d] \in Nat  BY DEF IInv, TypeOK
  <2>2. Cardinality(Holders(d)) \in Nat /\ Holders(d)' = Holders(d)
    BY HoldersFinite DEF IInv, Holders
  <2>3. refs[d] = Cardinality(Holders(d)) + spare[d] + lost[d]
    BY DEF IInv, SubDeviceAccounting, Orderly
  <2>4. /\ refs'[d] = IF d = named[w] THEN refs[d] + 1 ELSE refs[d]
        /\ spare'[d] = IF d = named[w] THEN spare[d] + 1 ELSE spare[d]
    BY <2>1 DEF IInv, TypeOK
  <2> QED  BY <2>1, <2>2, <2>3, <2>4
<1> QED  BY <1>1, <1>2, <1>3 DEF IInv

(* releaseDevice takes from the wrapper's reference, or from retainDevice's; *)
(* from neither only if JS was careless.                                   *)
LEMMA ReleaseKeeps ==
  ASSUME IInv, NEW w \in Wrappers, ReleaseDevice(w)
  PROVE  IInv'
<1> USE DEF ReleaseDevice, IsSubDevice
<1>1. TypeOK'
  <2>1. refs' \in [Subs -> Nat] /\ spare' \in [Subs -> Nat]  BY DEF IInv, TypeOK
  <2> QED  BY <2>1 DEF IInv, TypeOK
<1>2. ContextDevices' /\ OwedIsLive'  BY DEF IInv, ContextDevices, OwedIsLive
<1>3. SubDeviceAccounting'
  <2> SUFFICES ASSUME Orderly', NEW d \in live
               PROVE  refs'[d] = Cardinality(Holders(d)') + spare'[d] + lost'[d]
    BY DEF SubDeviceAccounting, Orderly
  <2>0. Orderly /\ (w \in owed \/ spare[named[w]] # 0)  BY DEF Orderly
  <2>1. d \in Subs /\ refs[d] \in Nat /\ spare[d] \in Nat /\ lost[d] \in Nat  BY DEF IInv, TypeOK
  <2>2. IsFiniteSet(Holders(d)) /\ Cardinality(Holders(d)) \in Nat  BY HoldersFinite DEF IInv
  <2>3. refs[d] = Cardinality(Holders(d)) + spare[d] + lost[d]
    BY <2>0 DEF IInv, SubDeviceAccounting, Orderly
  <2>4. Holders(d)' = Holders(d) \ {w}  BY DEF Holders
  <2>5. refs'[d] = IF d = named[w] THEN refs[d] - 1 ELSE refs[d]  BY <2>1 DEF IInv, TypeOK
  <2>6. CASE d # named[w]
    <3>1. Holders(d)' = Holders(d)  BY <2>4, <2>6 DEF Holders
    <3>2. spare'[d] = spare[d]  BY <2>6, <2>1 DEF IInv, TypeOK
    <3> QED  BY <3>1, <3>2, <2>3, <2>5, <2>6
  <2>7. CASE d = named[w] /\ w \in owed
    <3>1. w \in Holders(d)  BY <2>7 DEF Holders
    <3>2. Cardinality(Holders(d)') = Cardinality(Holders(d)) - 1
      BY <3>1, <2>2, <2>4, FS_RemoveElement
    <3>3. spare'[d] = spare[d]  BY <2>7
    <3> QED  BY <3>2, <3>3, <2>1, <2>2, <2>3, <2>5, <2>7
  <2>8. CASE d = named[w] /\ w \notin owed
    <3>1. Holders(d)' = Holders(d)  BY <2>4, <2>8 DEF Holders
    <3>2. spare'[d] = spare[d] - 1  BY <2>0, <2>1, <2>8 DEF IInv, TypeOK
    <3> QED  BY <3>1, <3>2, <2>1, <2>2, <2>3, <2>5, <2>8
  <2> QED  BY <2>6, <2>7, <2>8
<1> QED  BY <1>1, <1>2, <1>3 DEF IInv

(* A reference of a collected wrapper moves to the lost ones.               *)
LEMMA CollectKeeps ==
  ASSUME IInv, NEW w \in Wrappers, Collect(w)
  PROVE  IInv'
<1> USE DEF Collect, driverVars
<1>1. TypeOK'
  <2>0. lost \in [Subs -> Nat]  BY DEF IInv, TypeOK
  <2>1. lost' \in [Subs -> Nat]
    <3>1. CASE named[w] \in Subs  BY <2>0, <3>1
    <3>2. CASE named[w] \notin Subs
      <4>1. [lost EXCEPT ![named[w]] = @ + 1] = lost  BY <2>0, <3>2
      <4> QED  BY <2>0, <4>1
    <3> QED  BY <3>1, <3>2
  <2> QED  BY <2>1 DEF IInv, TypeOK
<1>2. ContextDevices' /\ OwedIsLive'  BY DEF IInv, TypeOK, ContextDevices, OwedIsLive
<1>3. SubDeviceAccounting'
  <2> SUFFICES ASSUME Orderly, NEW d \in live
               PROVE  refs[d] = Cardinality(Holders(d)') + spare[d] + lost'[d]
    BY DEF SubDeviceAccounting, Orderly
  <2>1. d \in Subs /\ refs[d] \in Nat /\ spare[d] \in Nat /\ lost[d] \in Nat  BY DEF IInv, TypeOK
  <2>2. IsFiniteSet(Holders(d)) /\ Cardinality(Holders(d)) \in Nat  BY HoldersFinite DEF IInv
  <2>3. refs[d] = Cardinality(Holders(d)) + spare[d] + lost[d]
    BY DEF IInv, SubDeviceAccounting, Orderly
  <2>4. Holders(d)' = Holders(d) \ {w}  BY DEF Holders, IInv, TypeOK
  <2>5. CASE d = named[w] /\ w \in owed
    <3>1. w \in Holders(d)  BY <2>5 DEF Holders
    <3>2. Cardinality(Holders(d)') = Cardinality(Holders(d)) - 1
      BY <3>1, <2>2, <2>4, FS_RemoveElement
    <3>3. lost'[d] = lost[d] + 1  BY <2>1, <2>5 DEF IInv, TypeOK
    <3> QED  BY <3>2, <3>3, <2>1, <2>2, <2>3
  <2>6. CASE ~(d = named[w] /\ w \in owed)
    <3>1. Holders(d)' = Holders(d)  BY <2>4, <2>6 DEF Holders
    <3>2. lost'[d] = lost[d]  BY <2>1, <2>6 DEF IInv, TypeOK
    <3> QED  BY <3>1, <3>2, <2>3
  <2> QED  BY <2>5, <2>6
<1> QED  BY <1>1, <1>2, <1>3 DEF IInv

(* A deleted sub-device has no references, so no holders.                   *)
LEMMA DeleteKeeps ==
  ASSUME IInv, NEW s \in Subs, Delete(s)
  PROVE  IInv'
<1> USE DEF Delete
<1>1. TypeOK'  BY DEF IInv, TypeOK
<1>2. ContextDevices'  BY DEF IInv, ContextDevices
<1>3. SubDeviceAccounting'  BY DEF IInv, SubDeviceAccounting, Holders
<1>4. OwedIsLive'
  <2> SUFFICES ASSUME Orderly, NEW w \in owed PROVE named[w] \in live \ {s}
    BY DEF OwedIsLive, Orderly
  <2>1. named[w] \in live  BY DEF IInv, OwedIsLive, Orderly
  <2>2. refs[s] = Cardinality(Holders(s)) + spare[s] + lost[s]
    BY DEF IInv, SubDeviceAccounting, Orderly
  <2>3. Cardinality(Holders(s)) = 0
    <3>1. spare[s] \in Nat /\ lost[s] \in Nat /\ Cardinality(Holders(s)) \in Nat
      BY HoldersFinite DEF IInv, TypeOK
    <3> QED  BY <2>2, <3>1
  <2>4. Holders(s) = {}  BY <2>3, HoldersFinite, FS_EmptySet DEF IInv
  <2> QED  BY <2>1, <2>4 DEF Holders
<1> QED  BY <1>1, <1>2, <1>3, <1>4 DEF IInv

(* Contexts are made from devices that are there.                           *)
LEMMA ContextKeeps ==
  ASSUME IInv, NEW c \in Contexts,
         DestroyContext(c) \/ \E W \in SUBSET Wrappers : CreateContext(c, W)
  PROVE  IInv'
<1>1. UNCHANGED <<live, refs, named, owed, spare, lost, careless, short>>
  BY DEF DestroyContext, CreateContext
<1>2. /\ devices' \in [Contexts -> SUBSET (Roots \cup Subs)]
      /\ ContextDevices'
  BY <1>1, HandlesDiffer DEF DestroyContext, CreateContext, Valid, IInv, TypeOK, ContextDevices
<1> QED  BY <1>1, <1>2 DEF IInv, TypeOK, SubDeviceAccounting, OwedIsLive, Holders

-----------------------------------------------------------------------------
LEMMA InitEstablishes == Init => IInv
<1> SUFFICES ASSUME Init PROVE IInv  OBVIOUS
<1> USE DEF Init
<1>1. TypeOK  BY DEF TypeOK
<1>2. ContextDevices  BY DEF ContextDevices
<1>3. SubDeviceAccounting /\ OwedIsLive  BY DEF SubDeviceAccounting, OwedIsLive
<1> QED  BY <1>1, <1>2, <1>3 DEF IInv

LEMMA NextKeeps == IInv /\ [Next]_vars => IInv'
<1> SUFFICES ASSUME IInv, [Next]_vars PROVE IInv'  OBVIOUS
<1>1. CASE UNCHANGED vars
  BY <1>1 DEF vars, IInv, TypeOK, ContextDevices, SubDeviceAccounting, OwedIsLive, Holders
<1>2. CASE GetDeviceIDs
  BY <1>2, WrapRetainedKeeps, HandlesDiffer DEF GetDeviceIDs
<1>3. ASSUME NEW w \in Wrappers,
             \/ \E s, t \in Subs : CreateSubDevices(w, s, t)
             \/ \E s \in Subs, other \in Roots \cup Subs \cup {Garbage} : CreateOneSubDevice(w, s, other)
             \/ RetainDevice(w) \/ ReleaseDevice(w) \/ Collect(w)
      PROVE  IInv'
  BY <1>3, CreateKeeps, CreateOneKeeps, RetainKeeps, ReleaseKeeps, CollectKeeps
<1>4. ASSUME NEW c \in Contexts,
             \/ DestroyContext(c)
             \/ \E W \in SUBSET Wrappers : CreateContext(c, W)
      PROVE  IInv'
  BY <1>4, ContextKeeps
<1>5. ASSUME NEW c \in Contexts,
             \/ GetContextInfo(c) \/ GetProgramInfo(c)
             \/ \E d \in Roots \cup Subs : GetCommandQueueInfo(c, d)
      PROVE  IInv'
  <2>1. devices[c] \in SUBSET (Roots \cup Subs) /\ devices[c] \cap Subs \subseteq live
    BY DEF IInv, TypeOK, ContextDevices
  <2>2. CASE GetContextInfo(c) \/ GetProgramInfo(c)
    BY <2>1, <2>2, WrapRetainedKeeps DEF GetContextInfo, GetProgramInfo
  <2>3. ASSUME NEW d \in Roots \cup Subs, GetCommandQueueInfo(c, d) PROVE IInv'
    <3>1. {d} \in SUBSET (Roots \cup Subs) /\ {d} \cap Subs \subseteq live
      BY <2>1, <2>3 DEF GetCommandQueueInfo
    <3> QED  BY <3>1, <2>3, WrapRetainedKeeps DEF GetCommandQueueInfo
  <2> QED  BY <1>5, <2>2, <2>3
<1>6. ASSUME NEW s \in Subs, Delete(s) PROVE IInv'
  BY <1>6, DeleteKeeps
<1> QED  BY <1>1, <1>2, <1>3, <1>4, <1>5, <1>6 DEF Next

(* IInv holds in every reachable state.                                     *)
THEOREM Invariance == Spec => []IInv
<1>1. Init => IInv  BY InitEstablishes
<1>2. IInv /\ [Next]_vars => IInv'  BY NextKeeps
<1> QED  BY <1>1, <1>2, PTL DEF Spec

(* No count of a sub-device goes below zero, whatever JS releases, and every  *)
(* wrapper names a device or the id nobody wrote.                          *)
THEOREM TypeCorrect == Spec => []TypeOK
<1>1. IInv => TypeOK  BY DEF IInv
<1> QED  BY <1>1, Invariance, PTL

(* device.cpp:269-355 with the queries that wrap devices: the driver's count  *)
(* is what wrappers brought, retainDevice added and the collector lost.     *)
THEOREM AccountingHolds == Spec => []SubDeviceAccounting
<1>1. IInv => SubDeviceAccounting  BY DEF IInv
<1> QED  BY <1>1, Invariance, PTL

(* A reference JS has not given back keeps its sub-device.                  *)
THEOREM OwedIsLiveHolds == Spec => []OwedIsLive
<1>1. IInv => OwedIsLive  BY DEF IInv
<1> QED  BY <1>1, Invariance, PTL

(* No step takes a reference of a sub-device that has no wrapper: the noop   *)
(* release of types.h:175 and the handlers, which all need one.             *)
THEOREM StrandedHolds == Spec => Stranded
<1>1. IInv /\ [Next]_vars => [Strands]_vars
  <2> SUFFICES ASSUME IInv, Next, NEW s \in live, \A w \in Wrappers : named'[w] # s
               PROVE  refs'[s] >= refs[s] /\ (refs[s] > 0 => s \in live')
    BY DEF Strands
  <2>1. s \in Subs /\ refs \in [Subs -> Nat] /\ refs[s] \in Nat  BY DEF IInv, TypeOK
  <2>2. CASE GetDeviceIDs
    BY <2>1, <2>2 DEF GetDeviceIDs, WrapRetained
  <2>3. ASSUME NEW w \in Wrappers, NEW x \in Subs, NEW t \in Subs, CreateSubDevices(w, x, t)
        PROVE  refs'[s] >= refs[s] /\ (refs[s] > 0 => s \in live')
    BY <2>1, <2>3 DEF CreateSubDevices
  <2>4. ASSUME NEW w \in Wrappers, NEW x \in Subs, NEW other, CreateOneSubDevice(w, x, other)
        PROVE  refs'[s] >= refs[s] /\ (refs[s] > 0 => s \in live')
    BY <2>1, <2>4 DEF CreateOneSubDevice
  <2>5. ASSUME NEW w \in Wrappers, RetainDevice(w) \/ ReleaseDevice(w) \/ Collect(w)
        PROVE  refs'[s] >= refs[s] /\ (refs[s] > 0 => s \in live')
    BY <2>1, <2>5 DEF RetainDevice, ReleaseDevice, Collect, IsSubDevice, driverVars
  <2>6. ASSUME NEW c \in Contexts,
               \/ \E W \in SUBSET Wrappers : CreateContext(c, W)
               \/ DestroyContext(c) \/ GetContextInfo(c) \/ GetProgramInfo(c)
               \/ \E d \in Roots \cup Subs : GetCommandQueueInfo(c, d)
        PROVE  refs'[s] >= refs[s] /\ (refs[s] > 0 => s \in live')
    <3>1. ASSUME NEW D, WrapRetained(D) PROVE refs'[s] >= refs[s]
      BY <2>1, <3>1 DEF WrapRetained
    <3>2. live' = live /\ (refs' = refs \/ \E D : WrapRetained(D))
      BY <2>6 DEF CreateContext, DestroyContext, GetContextInfo, GetProgramInfo, GetCommandQueueInfo
    <3> QED  BY <2>1, <3>1, <3>2
  <2>7. ASSUME NEW x \in Subs, Delete(x)
        PROVE  refs'[s] >= refs[s] /\ (refs[s] > 0 => s \in live')
    BY <2>1, <2>7 DEF Delete
  <2> QED  BY <2>2, <2>3, <2>4, <2>5, <2>6, <2>7 DEF Next
<1> QED  BY <1>1, Invariance, PTL DEF Spec, Stranded, Strands
=============================================================================
