-------------------------- MODULE HostMemoryProofs --------------------------
(***************************************************************************)
(* Proofs about HostMemory for any sets of blocks, ArrayBuffers and memory  *)
(* objects and any length of the queue.  The inductive invariant has two    *)
(* parts: what holds whatever the program does (who allocated what, and     *)
(* what a blocking call waits for), and what the rules add while the        *)
(* program has kept them: that memory on its way to be freed, because its   *)
(* last reference is gone or its release is queued, has no other user.     *)
(***************************************************************************)
EXTENDS HostMemory, SequenceTheorems, TLAPS

(* An ArrayBuffer JS can reach is over a block, a memory object has storage *)
(* exactly as long as it exists, and nothing outlives its owner's place.   *)
Shape ==
  /\ \A a \in Buffers \cap held : view[a] \in Blocks
  /\ \A m \in Mems : object[m] = "none" <=> storage[m] = Nil
  /\ \A m \in own : object[m] # "none"

(* Out of a blocking call, JS has waited for no command in flight.          *)
AllKnown == ~calling => \A c \in InFlight : c.async

(* Storage of the driver's has one memory object.                           *)
OwnApart == \A m, n \in own : storage[m] = storage[n] => m = n

(* An ArrayBuffer V8 frees the memory of is over V8's memory, and alone in  *)
(* that: the others over it are external.                                   *)
V8Views ==
  /\ \A a \in Buffers : view[a] # Nil /\ a \notin external => kind[view[a]] = "v8"
  /\ \A a, x \in Buffers \ external : view[a] # Nil /\ view[a] = view[x] => a = x

Layout == TypeOK /\ Shape /\ AllKnown /\ OwnStorageLive /\ OwnApart /\ V8Views

-----------------------------------------------------------------------------
(* Under the rules.                                                        *)

CommandsSafe == \A c \in InFlight : ~Dangling(c)
ObjectsSafe == \A m \in Mems : object[m] = "live" => storage[m] \notin Freed
ViewsSafe == \A a \in Buffers \cap held : kind[view[a]] # "free"

(* Memory V8 may free at any time has no user left.                        *)
DroppedUnused ==
  \A a \in Buffers : view[a] # Nil /\ a \notin external /\ a \notin held =>
    /\ \A c \in InFlight : view[a] \notin Memory(c)
    /\ \A m \in Mems : object[m] = "live" => storage[m] # view[a]
    /\ \A x \in Buffers \cap held : view[x] # view[a]

(* Storage the driver frees with its object is used through that object     *)
(* only, once JS has released it or cannot reach it.                       *)
LetGoUnused ==
  \A m \in own : object[m] = "released" \/ m \notin held =>
    /\ \A c \in InFlight : storage[m] \notin c.ptrs
    /\ \A c \in InFlight : \A n \in c.mems : n # m => storage[n] # storage[m]
    /\ \A n \in Mems : n # m /\ object[n] = "live" => storage[n] # storage[m]
    /\ \A x \in Buffers \cap held : view[x] # storage[m]

(* SVM memory a queued command will free holds no memory object, and no     *)
(* command behind that one uses it.                                        *)
FreedUnused ==
  /\ \A c \in InFlight : c.frees =>
       \A m \in Mems : object[m] = "live" => storage[m] \notin c.ptrs
  /\ \A i, j \in DOMAIN queue : i < j /\ queue[i].frees =>
       \A b \in queue[i].ptrs : b \notin Memory(queue[j])

Kept == /\ CommandsSafe /\ ObjectsSafe /\ ViewsSafe
        /\ DroppedUnused /\ LetGoUnused /\ FreedUnused

IInv == Layout /\ (~careless => Kept)
-----------------------------------------------------------------------------
(* What the rules ask of a command: pointers JS still has, to memory not    *)
(* freed or about to be, objects it has not released, and nothing freed in  *)
(* its turn that an object keeps its contents in.                          *)
Allowed(c) ==
  /\ \A b \in c.ptrs : MayPass(b) /\ \E a \in Buffers \cap held : view[a] = b
  /\ \A m \in c.mems : MayUse(m)
  /\ c.frees => \A b \in c.ptrs : \A m \in Mems : object[m] = "live" => storage[m] # b

SameView(a) ==
  view'[a] = view[a] /\ (a \in external' <=> a \in external) /\ (a \in held' <=> a \in held)

(* An external ArrayBuffer over the contents of an object of the command.   *)
MappedView(a, c) ==
  /\ a \in external' /\ a \in held'
  /\ \E m \in c.mems : object[m] # "none" /\ view'[a] = storage[m]

-----------------------------------------------------------------------------
(* A command taken by the driver is in flight behind the others.            *)
LEMMA AppendedInFlight ==
  ASSUME queue \in Seq(Command), NEW c \in Command, queue' = Append(queue, c)
  PROVE  /\ queue' \in Seq(Command)
         /\ InFlight' = InFlight \cup {c}
         /\ Len(queue) \in Nat /\ DOMAIN queue = 1 .. Len(queue)
         /\ DOMAIN queue' = 1 .. (Len(queue) + 1)
         /\ \A i \in DOMAIN queue : queue'[i] = queue[i]
         /\ queue'[Len(queue) + 1] = c
<1>1. /\ Append(queue, c) \in Seq(Command)
      /\ Len(Append(queue, c)) = Len(queue) + 1
      /\ \A i \in 1 .. Len(queue) : Append(queue, c)[i] = queue[i]
      /\ Append(queue, c)[Len(queue) + 1] = c
  BY AppendProperties
<1>2. Len(queue) \in Nat /\ DOMAIN queue = 1 .. Len(queue)  BY LenProperties
<1>3. DOMAIN queue' = 1 .. (Len(queue) + 1)  BY <1>1, LenProperties
<1>4. InFlight' = InFlight \cup {c}
  <2>1. InFlight = {queue[i] : i \in 1 .. Len(queue)}  BY <1>2 DEF InFlight
  <2>2. InFlight' = {queue'[i] : i \in 1 .. (Len(queue) + 1)}  BY <1>3 DEF InFlight
  <2>3. \A i : i \in 1 .. (Len(queue) + 1) <=> i \in 1 .. Len(queue) \/ i = Len(queue) + 1
    BY <1>2
  <2> QED  BY <1>1, <2>1, <2>2, <2>3
<1> QED  BY <1>1, <1>2, <1>3, <1>4

(* Commands have their fields.                                             *)
LEMMA InFlightTyped ==
  ASSUME queue \in Seq(Command)
  PROVE  /\ \A c \in InFlight : /\ c.ptrs \subseteq Blocks /\ c.mems \subseteq Mems
                                /\ c.frees \in BOOLEAN /\ c.async \in BOOLEAN
         /\ \A i \in DOMAIN queue : queue[i] \in InFlight
<1>1. \A i \in DOMAIN queue : queue[i] \in Command  BY ElementOfSeq, LenProperties
<1> QED  BY <1>1 DEF InFlight, Command

-----------------------------------------------------------------------------
(* A command keeps the invariant, with or without an ArrayBuffer made over  *)
(* the contents of its object, when the rules allow it or the program is    *)
(* careless from here on.                                                  *)
LEMMA EnqueueKeeps ==
  ASSUME IInv, TypeOK', NEW c \in Command,
         ~calling, queue' = Append(queue, c), calling' = ~c.async,
         UNCHANGED <<kind, object, storage, own>>,
         \A a \in Buffers : SameView(a) \/ MappedView(a, c),
         \A m \in Mems : m \in held' <=> m \in held,
         ~careless' => ~careless /\ Allowed(c)
  PROVE  IInv'
<1>0. /\ queue \in Seq(Command)
      /\ c.ptrs \subseteq Blocks /\ c.mems \subseteq Mems
      /\ c.frees \in BOOLEAN /\ c.async \in BOOLEAN
  BY DEF IInv, Layout, TypeOK, Command
<1>1. /\ InFlight' = InFlight \cup {c}
      /\ Len(queue) \in Nat /\ DOMAIN queue = 1 .. Len(queue)
      /\ DOMAIN queue' = 1 .. (Len(queue) + 1)
      /\ \A i \in DOMAIN queue : queue'[i] = queue[i]
      /\ queue'[Len(queue) + 1] = c
  BY <1>0, AppendedInFlight
<1>2. Layout'
  <2>1. Shape'
    BY <1>0 DEF IInv, Layout, TypeOK, Shape, SameView, MappedView
  <2>2. AllKnown'  BY <1>0, <1>1 DEF IInv, Layout, AllKnown
  <2>3. OwnStorageLive' /\ OwnApart'  BY DEF IInv, Layout, OwnStorageLive, OwnApart
  <2>4. V8Views'  BY DEF IInv, Layout, V8Views, SameView, MappedView
  <2> QED  BY <2>1, <2>2, <2>3, <2>4 DEF Layout
<1>3. ASSUME ~careless' PROVE Kept'
  <2>0. Kept /\ Allowed(c) /\ Layout  BY <1>3 DEF IInv
  <2>1. /\ \A m \in c.mems : /\ m \in Mems /\ m \in held /\ object[m] = "live"
                            /\ storage[m] \notin Freed
        /\ Freed' = Freed
        /\ \A d : Memory(d)' = Memory(d)
    BY <1>0, <2>0 DEF Allowed, MayUse, Kept, ObjectsSafe, Freed, Memory
  <2>2. CommandsSafe'
    <3>1. ~Dangling(c)'
      BY <2>0, <2>1 DEF Dangling, Memory, Freed, Allowed, MayPass
    <3>2. \A d \in InFlight : ~Dangling(d)'
      BY <2>0, <2>1 DEF Dangling, Kept, CommandsSafe
    <3> QED  BY <1>1, <3>1, <3>2 DEF CommandsSafe
  <2>3. ObjectsSafe'  BY <2>0, <2>1 DEF Kept, ObjectsSafe
  <2>4. ViewsSafe'
    <3> SUFFICES ASSUME NEW a \in Buffers, a \in held' PROVE kind'[view'[a]] # "free"
      BY DEF ViewsSafe
    <3>1. CASE SameView(a)  BY <2>0, <3>1 DEF SameView, Kept, ViewsSafe
    <3>2. CASE MappedView(a, c)
      <4>1. PICK m \in c.mems : view'[a] = storage[m]  BY <3>2 DEF MappedView
      <4>2. storage[m] \in Blocks
        BY <1>0, <2>0, <2>1, <4>1 DEF Layout, TypeOK, Shape
      <4> QED  BY <2>1, <4>1, <4>2 DEF Freed
    <3> QED  BY <3>1, <3>2
  <2>5. DroppedUnused'
    <3> SUFFICES ASSUME NEW a \in Buffers, view'[a] # Nil, a \notin external', a \notin held'
        PROVE /\ \A d \in InFlight' : view'[a] \notin Memory(d)'
              /\ \A m \in Mems : object'[m] = "live" => storage'[m] # view'[a]
              /\ \A x \in Buffers \cap held' : view'[x] # view'[a]
      BY DEF DroppedUnused
    <3>1. view'[a] = view[a] /\ a \notin external /\ a \notin held
      BY DEF SameView, MappedView
    <3>2. /\ \A d \in InFlight : view[a] \notin Memory(d)
          /\ \A m \in Mems : object[m] = "live" => storage[m] # view[a]
          /\ \A x \in Buffers \cap held : view[x] # view[a]
      BY <2>0, <3>1 DEF Kept, DroppedUnused
    <3>3. view[a] \notin Memory(c)
      BY <2>0, <2>1, <3>2 DEF Memory, Allowed
    <3>4. \A x \in Buffers \cap held' : view'[x] # view'[a]
      BY <2>1, <3>1, <3>2 DEF SameView, MappedView
    <3> QED  BY <1>1, <2>1, <3>1, <3>2, <3>3, <3>4
  <2>6. LetGoUnused'
    <3> SUFFICES ASSUME NEW m \in own, object[m] = "released" \/ m \notin held
        PROVE /\ \A d \in InFlight' : storage[m] \notin d.ptrs
              /\ \A d \in InFlight' : \A n \in d.mems : n # m => storage[n] # storage[m]
              /\ \A n \in Mems : n # m /\ object[n] = "live" => storage[n] # storage[m]
              /\ \A x \in Buffers \cap held' : view'[x] # storage[m]
      BY DEF LetGoUnused, IInv, Layout, TypeOK
    <3>1. /\ \A d \in InFlight : storage[m] \notin d.ptrs
          /\ \A d \in InFlight : \A n \in d.mems : n # m => storage[n] # storage[m]
          /\ \A n \in Mems : n # m /\ object[n] = "live" => storage[n] # storage[m]
          /\ \A x \in Buffers \cap held : view[x] # storage[m]
      BY <2>0 DEF Kept, LetGoUnused
    <3>2. storage[m] \notin c.ptrs  BY <2>0, <3>1 DEF Allowed
    <3>3. m \notin c.mems  BY <2>1
    <3>4. \A n \in c.mems : storage[n] # storage[m]  BY <2>1, <3>1, <3>3
    <3>5. \A x \in Buffers \cap held' : view'[x] # storage[m]
      BY <3>1, <3>4 DEF SameView, MappedView
    <3> QED  BY <1>1, <3>1, <3>2, <3>4, <3>5
  <2>7. FreedUnused'
    <3>1. \A d \in InFlight' : d.frees =>
            \A m \in Mems : object'[m] = "live" => storage'[m] \notin d.ptrs
      BY <1>1, <2>0 DEF Kept, FreedUnused, Allowed
    <3>2. ASSUME NEW i \in DOMAIN queue', NEW j \in DOMAIN queue', i < j, queue'[i].frees,
                 NEW b \in queue'[i].ptrs
          PROVE  b \notin Memory(queue'[j])
      <4>1. i \in DOMAIN queue /\ queue'[i] = queue[i]  BY <1>1, <3>2
      <4>2. CASE j \in DOMAIN queue
        BY <1>1, <2>0, <3>2, <4>1, <4>2 DEF Kept, FreedUnused
      <4>3. CASE j = Len(queue) + 1
        <5>1. queue[i] \in InFlight  BY <1>0, <4>1, InFlightTyped
        <5>2. FreeQueued(b)  BY <3>2, <4>1, <5>1 DEF FreeQueued
        <5>3. b \notin c.ptrs  BY <2>0, <5>2 DEF Allowed, MayPass
        <5>4. \A m \in c.mems : storage[m] # b
          BY <2>0, <2>1, <3>2, <4>1, <5>1 DEF Kept, FreedUnused
        <5> QED  BY <1>1, <4>3, <5>3, <5>4 DEF Memory
      <4> QED  BY <1>1, <4>2, <4>3
    <3> QED  BY <2>1, <3>1, <3>2 DEF FreedUnused
  <2> QED  BY <2>2, <2>3, <2>4, <2>5, <2>6, <2>7 DEF Kept
<1> QED  BY <1>2, <1>3 DEF IInv
-----------------------------------------------------------------------------
(* When the queue and the storage stay, so do what is in flight and what it  *)
(* uses.                                                                   *)
LEMMA FlightStays ==
  ASSUME UNCHANGED <<queue, storage>>
  PROVE  /\ InFlight' = InFlight
         /\ \A c : Memory(c)' = Memory(c)
BY DEF InFlight, Memory

(* A block given to a new ArrayBuffer had no user, so it has one now.       *)
LEMMA NewBlockKeeps ==
  ASSUME IInv, TypeOK', NEW a \in Buffers, NEW b \in Blocks, NEW k \in {"v8", "svm"},
         FreshView(a), FreshBlock(b),
         kind' = [kind EXCEPT ![b] = k],
         view' = [view EXCEPT ![a] = b],
         external' = IF k = "v8" THEN external \ {a} ELSE external \cup {a},
         held' = held \cup {a},
         UNCHANGED <<object, storage, own, queue, calling, careless>>
  PROVE  IInv'
<1>1. InFlight' = InFlight /\ \A c : Memory(c)' = Memory(c)  BY FlightStays
<1>2. /\ b \in Freed /\ view[a] = Nil
      /\ \A c \in InFlight : b \notin Memory(c)
      /\ \A x \in Buffers : view[x] # b
      /\ \A m \in Mems : storage[m] # b
  BY DEF FreshView, FreshBlock
<1>3. /\ kind \in [Blocks -> {"free", "v8", "svm", "driver", "spent"}]
      /\ view \in [Buffers -> Blocks \cup {Nil}]
      /\ storage \in [Mems -> Blocks \cup {Nil}]
      /\ own \subseteq Mems
  BY DEF IInv, Layout, TypeOK
<1>4. /\ kind'[b] = k /\ \A x : x \in Blocks /\ x # b => kind'[x] = kind[x]
      /\ view'[a] = b /\ \A x \in Buffers : x # a => view'[x] = view[x]
      /\ \A x \in Freed' : x \in Freed /\ x # b
  BY <1>3 DEF Freed
<1>5. \A m \in Mems : m \in held' <=> m \in held  BY KindsApart
<1>6. Layout'
  <2>1. Shape'  BY <1>4, <1>5 DEF IInv, Layout, Shape
  <2>2. AllKnown'  BY <1>1 DEF IInv, Layout, AllKnown
  <2>3. OwnStorageLive' /\ OwnApart'
    BY <1>2, <1>3, <1>4 DEF IInv, Layout, OwnStorageLive, OwnApart, Shape
  <2>4. V8Views'
    BY <1>2, <1>3, <1>4, NilIsNothing DEF IInv, Layout, V8Views
  <2> QED  BY <2>1, <2>2, <2>3, <2>4 DEF Layout
<1>7. ASSUME ~careless' PROVE Kept'
  <2>0. Kept  BY <1>7 DEF IInv
  <2>1. CommandsSafe'
    BY <1>1, <1>4, <2>0 DEF Kept, CommandsSafe, Dangling
  <2>2. ObjectsSafe'  BY <1>4, <2>0 DEF Kept, ObjectsSafe
  <2>3. ViewsSafe'  BY <1>2, <1>4, <2>0 DEF Kept, ViewsSafe, IInv, Layout, Shape
  <2>4. DroppedUnused'
    BY <1>1, <1>2, <1>3, <1>4, <2>0 DEF Kept, DroppedUnused
  <2>5. LetGoUnused'
    BY <1>1, <1>2, <1>3, <1>4, <1>5, <2>0 DEF Kept, LetGoUnused
  <2>6. FreedUnused'  BY <1>1, <2>0 DEF Kept, FreedUnused
  <2> QED  BY <2>1, <2>2, <2>3, <2>4, <2>5, <2>6 DEF Kept
<1> QED  BY <1>6, <1>7 DEF IInv

(* Out of a call, all that is in flight is known to JS.                     *)
LEMMA KnownIsInFlight ==
  ASSUME Layout, ~calling
  PROVE  Known = InFlight
BY DEF Layout, AllKnown, Known

(* The last reference to an ArrayBuffer or a wrapper, lost by the rules,    *)
(* leaves memory without users.                                            *)
LEMMA DropKeeps ==
  ASSUME IInv, TypeOK', NEW x \in Buffers \cup Mems, Drop(x)
  PROVE  IInv'
<1> USE DEF Drop
<1>1. InFlight' = InFlight /\ \A c : Memory(c)' = Memory(c)  BY FlightStays
<1>2. Layout'
  <2>1. Shape'  BY DEF IInv, Layout, Shape
  <2>2. AllKnown'  BY <1>1 DEF IInv, Layout, AllKnown
  <2>3. OwnStorageLive' /\ OwnApart' /\ V8Views'
    BY DEF IInv, Layout, OwnStorageLive, OwnApart, V8Views
  <2> QED  BY <2>1, <2>2, <2>3 DEF Layout
<1>3. ASSUME ~careless' PROVE Kept'
  <2>0. Kept /\ Layout /\ Known = InFlight
        /\ IF x \in Mems THEN MayLetGo(x) ELSE MayDropBuffer(x)
    BY <1>3, KnownIsInFlight DEF IInv, Follows, Layout, TypeOK
  <2>1. CommandsSafe' /\ ObjectsSafe' /\ ViewsSafe'
    BY <1>1, <2>0 DEF Kept, CommandsSafe, ObjectsSafe, ViewsSafe, Dangling, Freed
  <2>2. DroppedUnused'
    <3> SUFFICES ASSUME NEW a \in Buffers, view[a] # Nil, a \notin external, a \notin held'
        PROVE /\ \A d \in InFlight : view[a] \notin Memory(d)
              /\ \A m \in Mems : object[m] = "live" => storage[m] # view[a]
              /\ \A y \in Buffers \cap held' : view[y] # view[a]
      BY <1>1 DEF DroppedUnused
    <3>1. CASE a \notin held  BY <2>0, <3>1 DEF Kept, DroppedUnused
    <3>2. CASE a \in held
      <4>1. a = x /\ x \notin Mems  BY <3>2, KindsApart
      <4>2. \A m \in Mems : m # Nil  BY NilIsNothing
      <4> QED  BY <2>0, <4>1, <4>2 DEF MayDropBuffer, Hosts
    <3> QED  BY <3>1, <3>2
  <2>3. LetGoUnused'
    <3> SUFFICES ASSUME NEW m \in own, object[m] = "released" \/ m \notin held'
        PROVE /\ \A d \in InFlight : storage[m] \notin d.ptrs
              /\ \A d \in InFlight : \A n \in d.mems : n # m => storage[n] # storage[m]
              /\ \A n \in Mems : n # m /\ object[n] = "live" => storage[n] # storage[m]
              /\ \A y \in Buffers \cap held' : view[y] # storage[m]
      BY <1>1 DEF LetGoUnused
    <3>1. CASE object[m] = "released" \/ m \notin held
      BY <2>0, <3>1 DEF Kept, LetGoUnused
    <3>2. CASE m \in held /\ object[m] # "released"
      <4>1. m = x /\ m \in Mems  BY <2>0, <3>2 DEF Layout, TypeOK
      <4>2. MayLetGo(m)  BY <2>0, <4>1
      <4>3. /\ \A d \in InFlight : storage[m] \notin d.ptrs \cup {storage[n] : n \in d.mems \ {m}}
            /\ \A n \in Mems \ {m} : ~(object[n] = "live" /\ storage[n] = storage[m])
            /\ \A y \in Buffers \cap held : view[y] # storage[m]
        BY <2>0, <4>2 DEF MayLetGo, Hosts
      <4> QED  BY <4>3
    <3> QED  BY <3>1, <3>2
  <2>4. FreedUnused'  BY <1>1, <2>0 DEF Kept, FreedUnused
  <2> QED  BY <2>1, <2>2, <2>3, <2>4 DEF Kept
<1> QED  BY <1>2, <1>3 DEF IInv

(* V8 frees the memory of an ArrayBuffer it collects; by the rules nobody   *)
(* else is on it.                                                          *)
LEMMA CollectBufferKeeps ==
  ASSUME IInv, TypeOK', NEW a \in Buffers, CollectBuffer(a)
  PROVE  IInv'
<1> USE DEF CollectBuffer
<1>1. InFlight' = InFlight /\ \A c : Memory(c)' = Memory(c)  BY FlightStays
<1>2. /\ kind \in [Blocks -> {"free", "v8", "svm", "driver", "spent"}]
      /\ view \in [Buffers -> Blocks \cup {Nil}]
      /\ storage \in [Mems -> Blocks \cup {Nil}]
      /\ own \subseteq Mems
      /\ view[a] \in Blocks /\ a \notin held
  BY DEF IInv, Layout, TypeOK
<1>3. /\ view'[a] = Nil /\ \A x \in Buffers : x # a => view'[x] = view[x]
      /\ \A b \in Blocks : kind'[b] # kind[b] =>
           a \notin external /\ b = view[a] /\ kind'[b] = "free"
  BY <1>2
<1>4. Layout'
  <2>1. Shape'  BY <1>2, <1>3 DEF IInv, Layout, Shape
  <2>2. AllKnown'  BY <1>1 DEF IInv, Layout, AllKnown
  <2>3. OwnStorageLive' /\ OwnApart'
    <3>1. \A m \in own : storage[m] \in Blocks /\ kind[storage[m]] = "driver"
      BY <1>2 DEF IInv, Layout, Shape, OwnStorageLive
    <3>2. a \notin external => kind[view[a]] = "v8"  BY <1>2 DEF IInv, Layout, V8Views
    <3> QED  BY <1>3, <3>1, <3>2 DEF IInv, Layout, OwnStorageLive, OwnApart
  <2>4. V8Views'  BY <1>2, <1>3 DEF IInv, Layout, V8Views
  <2> QED  BY <2>1, <2>2, <2>3, <2>4 DEF Layout
<1>5. ASSUME ~careless' PROVE Kept'
  <2>0. Kept  BY <1>5 DEF IInv
  <2>1. a \notin external =>
          /\ \A c \in InFlight : view[a] \notin Memory(c)
          /\ \A m \in Mems : object[m] = "live" => storage[m] # view[a]
          /\ \A x \in Buffers \cap held : view[x] # view[a]
    BY <1>2, <2>0, NilIsNothing DEF Kept, DroppedUnused
  <2>2. \A b \in Freed' : b \in Freed \/ (a \notin external /\ b = view[a])
    BY <1>3 DEF Freed
  <2>3. CommandsSafe'
    BY <1>1, <2>0, <2>1, <2>2 DEF Kept, CommandsSafe, Dangling
  <2>4. ObjectsSafe'  BY <2>0, <2>1, <2>2 DEF Kept, ObjectsSafe
  <2>5. ViewsSafe'
    BY <1>2, <1>3, <2>0, <2>1 DEF Kept, ViewsSafe, IInv, Layout, Shape
  <2>6. DroppedUnused'  BY <1>1, <1>2, <1>3, <2>0 DEF Kept, DroppedUnused
  <2>7. LetGoUnused'  BY <1>1, <1>2, <1>3, <2>0 DEF Kept, LetGoUnused
  <2>8. FreedUnused'  BY <1>1, <2>0 DEF Kept, FreedUnused
  <2> QED  BY <2>3, <2>4, <2>5, <2>6, <2>7, <2>8 DEF Kept
<1> QED  BY <1>4, <1>5 DEF IInv
-----------------------------------------------------------------------------
(* A memory object released, by JS under the rules or by the collector when *)
(* JS has lost its wrapper, leaves its storage without other users.         *)
LEMMA ReleaseKeeps ==
  ASSUME IInv, TypeOK', NEW m \in Mems, ~calling, object[m] = "live",
         object' = [object EXCEPT ![m] = "released"],
         UNCHANGED <<kind, view, external, held, storage, own, queue, calling>>,
         ~careless' => ~careless /\ (m \in held => MayLetGo(m))
  PROVE  IInv'
<1>1. InFlight' = InFlight /\ \A c : Memory(c)' = Memory(c)  BY FlightStays
<1>2. object'[m] = "released" /\ \A n \in Mems : n # m => object'[n] = object[n]
  BY DEF IInv, Layout, TypeOK
<1>3. Layout'
  <2>1. Shape'  BY <1>2 DEF IInv, Layout, TypeOK, Shape
  <2>2. AllKnown'  BY <1>1 DEF IInv, Layout, AllKnown
  <2>3. OwnStorageLive' /\ OwnApart' /\ V8Views'
    BY DEF IInv, Layout, OwnStorageLive, OwnApart, V8Views
  <2> QED  BY <2>1, <2>2, <2>3 DEF Layout
<1>4. ASSUME ~careless' PROVE Kept'
  <2>0. Kept /\ Layout /\ Known = InFlight /\ (m \in held => MayLetGo(m))
    BY <1>4, KnownIsInFlight DEF IInv
  <2>1. \A n \in Mems : /\ object'[n] = "live" => object[n] = "live"
                        /\ object'[n] = "none" => object[n] = "none"
    BY <1>2
  <2>2. CommandsSafe'
    <3>1. \A c \in InFlight : c.mems \subseteq Mems
      BY <2>0, InFlightTyped DEF Layout, TypeOK
    <3> QED  BY <1>1, <2>0, <2>1, <3>1 DEF Kept, CommandsSafe, Dangling, Freed
  <2>3. ObjectsSafe' /\ ViewsSafe'
    BY <2>0, <2>1 DEF Kept, ObjectsSafe, ViewsSafe, Freed
  <2>4. DroppedUnused'  BY <1>1, <2>0, <2>1 DEF Kept, DroppedUnused
  <2>5. LetGoUnused'
    <3> SUFFICES ASSUME NEW n \in own, object'[n] = "released" \/ n \notin held
        PROVE /\ \A d \in InFlight : storage[n] \notin d.ptrs
              /\ \A d \in InFlight : \A o \in d.mems : o # n => storage[o] # storage[n]
              /\ \A o \in Mems : o # n /\ object[o] = "live" => storage[o] # storage[n]
              /\ \A y \in Buffers \cap held : view[y] # storage[n]
      BY <1>1, <2>1 DEF LetGoUnused
    <3>1. n \in Mems  BY <2>0 DEF Layout, TypeOK
    <3>2. CASE object[n] = "released" \/ n \notin held
      BY <2>0, <3>2 DEF Kept, LetGoUnused
    <3>3. CASE object[n] # "released" /\ n \in held
      <4>1. n = m  BY <1>2, <3>1, <3>3
      <4>2. /\ \A d \in InFlight : storage[n] \notin d.ptrs \cup {storage[o] : o \in d.mems \ {n}}
            /\ \A o \in Mems \ {n} : ~(object[o] = "live" /\ storage[o] = storage[n])
            /\ \A y \in Buffers \cap held : view[y] # storage[n]
        BY <2>0, <3>3, <4>1 DEF MayLetGo, Hosts
      <4> QED  BY <4>2
    <3> QED  BY <3>2, <3>3
  <2>6. FreedUnused'  BY <1>1, <2>0, <2>1 DEF Kept, FreedUnused
  <2> QED  BY <2>2, <2>3, <2>4, <2>5, <2>6 DEF Kept
<1> QED  BY <1>3, <1>4 DEF IInv

(* A new memory object is used by nothing yet, and what its storage is used  *)
(* by does not change: a fresh block of the driver's, or memory of an       *)
(* ArrayBuffer JS still has.                                               *)
LEMMA NewMemKeeps ==
  ASSUME IInv, TypeOK', NEW m \in Mems, NEW b \in Blocks, NewMem(m, b),
         \/ FreshBlock(b) /\ kind' = [kind EXCEPT ![b] = "driver"] /\ own' = own \cup {m}
         \/ /\ UNCHANGED kind /\ own' = own \ {m}
            /\ \E a \in Buffers \cap held : view[a] = b
            /\ ~careless' => MayPass(b),
         UNCHANGED <<view, external, queue, calling>>,
         ~careless' => ~careless
  PROVE  IInv'
<1>1. /\ InFlight' = InFlight
      /\ \A c \in InFlight : m \notin c.mems /\ c.mems \subseteq Mems
      /\ object[m] = "none" /\ m \notin held /\ storage[m] = Nil /\ m \notin own
  <2>1. InFlight' = InFlight  BY DEF InFlight
  <2>2. \A c \in InFlight : c.mems \subseteq Mems  BY InFlightTyped DEF IInv, Layout, TypeOK
  <2>3. /\ \A c \in InFlight : m \notin c.mems
        /\ object[m] = "none" /\ m \notin held
    BY DEF NewMem, FreshMem
  <2> QED  BY <2>1, <2>2, <2>3 DEF IInv, Layout, Shape
<1>2. /\ object'[m] = "live" /\ storage'[m] = b
      /\ \A n \in Mems : n # m => object'[n] = object[n] /\ storage'[n] = storage[n]
  BY DEF NewMem, IInv, Layout, TypeOK
<1>3. /\ \A x \in Buffers : x \in held' <=> x \in held
      /\ \A n \in Mems : n # m => (n \in held' <=> n \in held)
      /\ m \in held'
  BY KindsApart DEF NewMem
<1>4. \A c \in InFlight : Memory(c)' = Memory(c)
  <2> SUFFICES ASSUME NEW c \in InFlight PROVE Memory(c)' = Memory(c)  OBVIOUS
  <2>1. \A n \in c.mems : storage'[n] = storage[n]  BY <1>1, <1>2
  <2> QED  BY <2>1 DEF Memory
<1>5. /\ \A d \in Blocks : kind'[d] # kind[d] => d = b /\ FreshBlock(b) /\ kind'[b] = "driver"
      /\ \A d \in Freed' : d \in Freed
      /\ \A n \in own' : n \in Mems /\ (n = m \/ n \in own)
      /\ m \in own' => FreshBlock(b) /\ kind'[b] = "driver"
  BY <1>1 DEF Freed, IInv, Layout, TypeOK
<1>6. /\ \A n \in Mems : storage[n] \in Blocks \cup {Nil}
      /\ \A x \in Buffers : view[x] \in Blocks \cup {Nil}
  BY DEF IInv, Layout, TypeOK
<1>7. Layout'
  <2>1. Shape'
    BY <1>2, <1>3, <1>5, NilIsNothing DEF IInv, Layout, Shape
  <2>2. AllKnown'  BY <1>1 DEF IInv, Layout, AllKnown
  <2>3. \A n \in own : /\ n # m /\ storage[n] \in Blocks /\ kind[storage[n]] = "driver"
                       /\ FreshBlock(b) => storage[n] # b
    BY <1>1, <1>6 DEF IInv, Layout, TypeOK, Shape, OwnStorageLive, FreshBlock
  <2>4. OwnStorageLive' /\ OwnApart'
    <3>1. OwnStorageLive'  BY <1>2, <1>5, <2>3 DEF OwnStorageLive
    <3>2. OwnApart'  BY <1>2, <1>5, <2>3 DEF IInv, Layout, OwnApart
    <3> QED  BY <3>1, <3>2
  <2>5. V8Views'
    <3>1. \A x \in Buffers : FreshBlock(b) => view[x] # b  BY DEF FreshBlock
    <3> QED  BY <1>5, <1>6, <3>1 DEF IInv, Layout, V8Views
  <2> QED  BY <2>1, <2>2, <2>4, <2>5 DEF Layout
<1>8. ASSUME ~careless' PROVE Kept'
  <2>0. Kept  BY <1>8 DEF IInv
  <2>1. b \notin Freed' /\ \A c \in InFlight : c.frees => b \notin c.ptrs
    <3>1. CASE FreshBlock(b) /\ kind' = [kind EXCEPT ![b] = "driver"]
      BY <3>1 DEF FreshBlock, Freed, Memory, IInv, Layout, TypeOK
    <3>2. CASE UNCHANGED kind /\ MayPass(b)
      BY <3>2 DEF MayPass, FreeQueued, Freed
    <3> QED  BY <1>8, <3>1, <3>2
  <2>2. FreshBlock(b) \/ \E a \in Buffers \cap held : view[a] = b  OBVIOUS
  <2>3. CommandsSafe'
    <3>1. \A c \in InFlight : \A n \in c.mems : object'[n] = object[n]  BY <1>1, <1>2
    <3> QED  BY <1>1, <1>4, <1>5, <2>0, <3>1 DEF Kept, CommandsSafe, Dangling
  <2>4. ObjectsSafe'  BY <1>2, <1>5, <2>0, <2>1 DEF Kept, ObjectsSafe
  <2>5. ViewsSafe'
    BY <1>3, <1>5, <2>0 DEF Kept, ViewsSafe, IInv, Layout, Shape
  <2>6. DroppedUnused'
    BY <1>1, <1>2, <1>3, <1>4, <2>0, <2>2 DEF Kept, DroppedUnused, FreshBlock
  <2>7. LetGoUnused'
    <3> SUFFICES ASSUME NEW n \in own', object'[n] = "released" \/ n \notin held'
        PROVE /\ \A d \in InFlight : storage'[n] \notin d.ptrs
              /\ \A d \in InFlight : \A o \in d.mems : o # n => storage'[o] # storage'[n]
              /\ \A o \in Mems : o # n /\ object'[o] = "live" => storage'[o] # storage'[n]
              /\ \A y \in Buffers \cap held' : view[y] # storage'[n]
      BY <1>1 DEF LetGoUnused
    <3>1. /\ n \in own /\ n # m /\ storage'[n] = storage[n]
          /\ object[n] = "released" \/ n \notin held
      BY <1>2, <1>3, <1>5
    <3>2. /\ \A d \in InFlight : storage[n] \notin d.ptrs
          /\ \A d \in InFlight : \A o \in d.mems : o # n => storage[o] # storage[n]
          /\ \A o \in Mems : o # n /\ object[o] = "live" => storage[o] # storage[n]
          /\ \A y \in Buffers \cap held : view[y] # storage[n]
      BY <2>0, <3>1 DEF Kept, LetGoUnused
    <3>3. b # storage[n]  BY <1>5, <2>2, <3>1, <3>2 DEF FreshBlock
    <3>4. \A d \in InFlight : \A o \in d.mems : storage'[o] = storage[o]  BY <1>1, <1>2
    <3> QED  BY <1>2, <1>3, <3>1, <3>2, <3>3, <3>4
  <2>8. FreedUnused'
    <3>1. \A i \in DOMAIN queue : queue[i] \in InFlight  BY DEF InFlight
    <3> QED  BY <1>1, <1>2, <1>4, <2>0, <2>1, <3>1 DEF Kept, FreedUnused
  <2> QED  BY <2>3, <2>4, <2>5, <2>6, <2>7, <2>8 DEF Kept
<1> QED  BY <1>7, <1>8 DEF IInv

(* The driver frees an object's own storage with it; by the rules nobody     *)
(* else is on it.                                                          *)
LEMMA DestroyKeeps ==
  ASSUME IInv, TypeOK', NEW m \in Mems, Destroy(m)
  PROVE  IInv'
<1> USE DEF Destroy
<1>1. InFlight' = InFlight  BY DEF InFlight
<1>2. \A c \in InFlight : m \notin c.mems /\ c.mems \subseteq Mems
  BY InFlightTyped DEF IInv, Layout, TypeOK
<1>3. /\ kind \in [Blocks -> {"free", "v8", "svm", "driver", "spent"}]
      /\ object \in [Mems -> {"none", "live", "released"}]
      /\ storage \in [Mems -> Blocks \cup {Nil}]
      /\ own \subseteq Mems
      /\ storage[m] \in Blocks
  BY DEF IInv, Layout, TypeOK, Shape
<1>4. /\ object'[m] = "none" /\ storage'[m] = Nil
      /\ \A n \in Mems : n # m => object'[n] = object[n] /\ storage'[n] = storage[n]
      /\ \A b \in Blocks : kind'[b] # kind[b] =>
           m \in own /\ b = storage[m] /\ kind'[b] = "free"
  BY <1>3
<1>5. \A c \in InFlight : Memory(c)' = Memory(c)
  <2> SUFFICES ASSUME NEW c \in InFlight PROVE Memory(c)' = Memory(c)  OBVIOUS
  <2>1. \A n \in c.mems : storage'[n] = storage[n]  BY <1>2, <1>4
  <2> QED  BY <2>1 DEF Memory
<1>6. \A n \in own : storage[n] \in Blocks /\ kind[storage[n]] = "driver"
  BY <1>3 DEF IInv, Layout, Shape, OwnStorageLive
<1>7. Layout'
  <2>1. Shape'  BY <1>4 DEF IInv, Layout, Shape
  <2>2. AllKnown'  BY <1>1 DEF IInv, Layout, AllKnown
  <2>3. OwnStorageLive' /\ OwnApart'
    BY <1>3, <1>4, <1>6 DEF IInv, Layout, OwnStorageLive, OwnApart
  <2>4. V8Views'
    <3>1. \A a \in Buffers : view[a] # Nil => view[a] \in Blocks
      BY DEF IInv, Layout, TypeOK
    <3> QED  BY <1>4, <1>6, <3>1 DEF IInv, Layout, V8Views
  <2> QED  BY <2>1, <2>2, <2>3, <2>4 DEF Layout
<1>8. ASSUME ~careless' PROVE Kept'
  <2>0. Kept  BY <1>8 DEF IInv
  <2>1. m \in own =>
          /\ \A c \in InFlight : storage[m] \notin Memory(c)
          /\ \A n \in Mems : n # m /\ object[n] = "live" => storage[n] # storage[m]
          /\ \A x \in Buffers \cap held : view[x] # storage[m]
    BY <1>2, <2>0 DEF Kept, LetGoUnused, Memory
  <2>2. \A b \in Freed' : b \in Freed \/ (m \in own /\ b = storage[m])
    BY <1>4 DEF Freed
  <2>3. \A n \in Mems : /\ object'[n] = "live" => n # m /\ object[n] = "live"
                        /\ object'[n] = "released" => n # m /\ object[n] = "released"
    BY <1>4
  <2>4. CommandsSafe'
    BY <1>1, <1>2, <1>4, <1>5, <2>0, <2>1, <2>2 DEF Kept, CommandsSafe, Dangling
  <2>5. ObjectsSafe'  BY <1>4, <2>0, <2>1, <2>2, <2>3 DEF Kept, ObjectsSafe
  <2>6. ViewsSafe'
    BY <1>4, <2>0, <2>1 DEF Kept, ViewsSafe, IInv, Layout, Shape
  <2>7. DroppedUnused'
    BY <1>1, <1>4, <1>5, <2>0, <2>3 DEF Kept, DroppedUnused
  <2>8. LetGoUnused'
    BY <1>1, <1>2, <1>3, <1>4, <2>0, <2>3 DEF Kept, LetGoUnused
  <2>9. FreedUnused'
    <3>1. \A i \in DOMAIN queue : queue[i] \in InFlight  BY DEF InFlight
    <3> QED  BY <1>1, <1>4, <1>5, <2>0, <2>3, <3>1 DEF Kept, FreedUnused
  <2> QED  BY <2>4, <2>5, <2>6, <2>7, <2>8, <2>9 DEF Kept
<1> QED  BY <1>7, <1>8 DEF IInv

-----------------------------------------------------------------------------
(* Freeing SVM memory changes nothing else: what was freed before stays so,  *)
(* and nothing of V8's or of the driver's own is touched.                  *)
LEMMA FreeSVMFrees ==
  ASSUME kind \in [Blocks -> {"free", "v8", "svm", "driver", "spent"}],
         NEW B, kind' = FreeSVM(B)
  PROVE  /\ \A b \in Blocks : kind'[b] # kind[b] =>
              b \in B /\ kind[b] = "svm" /\ kind'[b] = "spent"
         /\ \A b \in Freed' : b \in Freed \/ (b \in B /\ b \in Blocks)
BY DEF FreeSVM, Freed

(* What the layout says of V8's and the driver's memory survives an SVM free. *)
LEMMA FreeSVMKeepsLayout ==
  ASSUME Layout, TypeOK', NEW B, kind' = FreeSVM(B),
         UNCHANGED <<view, external, held, object, storage, own, calling>>,
         InFlight' \subseteq InFlight
  PROVE  Layout'
<1>1. \A b \in Blocks : kind'[b] # kind[b] => kind[b] = "svm"
  BY FreeSVMFrees DEF Layout, TypeOK
<1>2. Shape' /\ OwnApart'  BY DEF Layout, Shape, OwnApart
<1>3. AllKnown'  BY DEF Layout, AllKnown
<1>4. OwnStorageLive'
  <2>1. \A m \in own : storage[m] \in Blocks  BY DEF Layout, TypeOK, Shape
  <2> QED  BY <1>1, <2>1 DEF Layout, OwnStorageLive
<1>5. V8Views'
  <2>1. \A a \in Buffers : view[a] # Nil => view[a] \in Blocks  BY DEF Layout, TypeOK
  <2> QED  BY <1>1, <2>1 DEF Layout, V8Views
<1> QED  BY <1>2, <1>3, <1>4, <1>5 DEF Layout

(* svmFree() at once, by the rules of memory nobody uses.                   *)
LEMMA SVMFreeKeeps ==
  ASSUME IInv, TypeOK', NEW a \in Buffers, SVMFree(a)
  PROVE  IInv'
<1> USE DEF SVMFree
<1>1. InFlight' = InFlight /\ \A c : Memory(c)' = Memory(c)  BY FlightStays
<1>2. Layout'  BY <1>1, FreeSVMKeepsLayout DEF IInv
<1>3. ASSUME ~careless' PROVE Kept'
  <2>0. Kept /\ Layout /\ Known = InFlight /\ MayFree(view[a])
    BY <1>3, KnownIsInFlight DEF IInv, Follows, Layout, TypeOK
  <2>1. /\ \A b \in Blocks : kind'[b] # kind[b] => kind'[b] = "spent"
        /\ \A b \in Freed' : b \in Freed \/ b = view[a]
    <3>1. /\ kind \in [Blocks -> {"free", "v8", "svm", "driver", "spent"}]
          /\ kind' = FreeSVM({view[a]})
      BY <2>0 DEF Layout, TypeOK
    <3>2. /\ \A b \in Blocks : kind'[b] # kind[b] => kind'[b] = "spent"
          /\ \A b \in Freed' : b \in Freed \/ b \in {view[a]}
      BY <3>1, FreeSVMFrees
    <3> QED  BY <3>2
  <2>2. /\ \A c \in InFlight : view[a] \notin Memory(c)
        /\ \A m \in Mems : object[m] = "live" => storage[m] # view[a]
    BY <2>0, NilIsNothing DEF MayFree, Hosts
  <2>3. CommandsSafe'  BY <1>1, <2>0, <2>1, <2>2 DEF Kept, CommandsSafe, Dangling
  <2>4. ObjectsSafe'  BY <2>0, <2>1, <2>2 DEF Kept, ObjectsSafe
  <2>5. ViewsSafe'  BY <2>0, <2>1 DEF Kept, ViewsSafe, Layout, Shape
  <2>6. DroppedUnused' /\ LetGoUnused' /\ FreedUnused'
    BY <1>1, <2>0 DEF Kept, DroppedUnused, LetGoUnused, FreedUnused
  <2> QED  BY <2>3, <2>4, <2>5, <2>6 DEF Kept
<1> QED  BY <1>2, <1>3 DEF IInv

(* The oldest command done: what it frees, nothing behind it uses.          *)
LEMMA ExecuteKeeps ==
  ASSUME IInv, TypeOK', Execute
  PROVE  IInv'
<1> USE DEF Execute
<1>1. queue \in Seq(Command) /\ queue # <<>>  BY DEF IInv, Layout, TypeOK
<1>2. /\ Len(queue) \in Nat /\ DOMAIN queue = 1 .. Len(queue)
      /\ 1 \in DOMAIN queue /\ Head(queue) = queue[1]
  BY <1>1, EmptySeq, LenProperties
<1>3. /\ DOMAIN queue' = 1 .. (Len(queue) - 1)
      /\ \A i \in DOMAIN queue' : i + 1 \in DOMAIN queue /\ queue'[i] = queue[i + 1]
  <2>1. /\ Tail(queue) \in Seq(Command) /\ Len(Tail(queue)) = Len(queue) - 1
        /\ \A i \in 1 .. Len(Tail(queue)) : Tail(queue)[i] = queue[i + 1]
    BY <1>1, HeadTailProperties
  <2>2. DOMAIN queue' = 1 .. (Len(queue) - 1)  BY <2>1, LenProperties
  <2> QED  BY <1>2, <2>1, <2>2
<1>4. /\ InFlight' \subseteq InFlight
      /\ \A c \in InFlight' : \E i \in DOMAIN queue : i > 1 /\ c = queue[i]
      /\ queue[1] \in InFlight
  <2>1. ASSUME NEW c \in InFlight'
        PROVE  c \in InFlight /\ \E i \in DOMAIN queue : i > 1 /\ c = queue[i]
    <3>1. PICK i \in DOMAIN queue' : c = queue'[i]  BY DEF InFlight
    <3>2. i + 1 \in DOMAIN queue /\ c = queue[i + 1] /\ i + 1 > 1  BY <1>3, <3>1
    <3> QED  BY <3>2 DEF InFlight
  <2>2. queue[1] \in InFlight  BY <1>2 DEF InFlight
  <2> QED  BY <2>1, <2>2
<1>5. \A c : Memory(c)' = Memory(c)  BY DEF Memory
<1>6. CASE queue[1].frees
  <2>0. kind' = FreeSVM(queue[1].ptrs)  BY <1>2, <1>6
  <2>1. Layout'  BY <1>4, <2>0, FreeSVMKeepsLayout DEF IInv
  <2>2. /\ \A b \in Blocks : kind'[b] # kind[b] => kind'[b] = "spent"
        /\ \A b \in Freed' : b \in Freed \/ b \in queue[1].ptrs
    BY <2>0, FreeSVMFrees DEF IInv, Layout, TypeOK
  <2>3. ASSUME ~careless' PROVE Kept'
    <3>0. Kept  BY <2>3 DEF IInv
    <3>1. \A c \in InFlight' : \A b \in queue[1].ptrs : b \notin Memory(c)
      BY <1>2, <1>4, <1>6, <3>0 DEF Kept, FreedUnused
    <3>2. CommandsSafe'
      BY <1>4, <1>5, <2>2, <3>0, <3>1 DEF Kept, CommandsSafe, Dangling
    <3>3. ObjectsSafe'
      BY <1>4, <1>6, <2>2, <3>0 DEF Kept, ObjectsSafe, FreedUnused
    <3>4. ViewsSafe'  BY <2>2, <3>0 DEF Kept, ViewsSafe, IInv, Layout, Shape
    <3>5. DroppedUnused' /\ LetGoUnused'
      BY <1>4, <1>5, <3>0 DEF Kept, DroppedUnused, LetGoUnused
    <3>6. FreedUnused'  BY <1>2, <1>3, <1>4, <1>5, <3>0 DEF Kept, FreedUnused
    <3> QED  BY <3>2, <3>3, <3>4, <3>5, <3>6 DEF Kept
  <2> QED  BY <2>1, <2>3 DEF IInv
<1>7. CASE ~queue[1].frees
  <2>0. kind' = kind  BY <1>2, <1>7
  <2>1. Layout'
    BY <1>4, <2>0 DEF IInv, Layout, Shape, AllKnown, OwnStorageLive, OwnApart, V8Views
  <2>2. ASSUME ~careless' PROVE Kept'
    <3>0. Kept  BY <2>2 DEF IInv
    <3>1. CommandsSafe' /\ ObjectsSafe' /\ ViewsSafe'
      BY <1>4, <1>5, <2>0, <3>0
         DEF Kept, CommandsSafe, Dangling, ObjectsSafe, ViewsSafe, Freed
    <3>2. DroppedUnused' /\ LetGoUnused'
      BY <1>4, <1>5, <3>0 DEF Kept, DroppedUnused, LetGoUnused
    <3>3. FreedUnused'  BY <1>2, <1>3, <1>4, <1>5, <3>0 DEF Kept, FreedUnused
    <3> QED  BY <3>1, <3>2, <3>3 DEF Kept
  <2> QED  BY <2>1, <2>2 DEF IInv
<1> QED  BY <1>6, <1>7

-----------------------------------------------------------------------------
(* The command Enqueue hands to the driver.                                *)
Issued(P, M, f, blocking) ==
  [ptrs |-> P, mems |-> M, frees |-> f, async |-> ~blocking]

(* A handler that passes pointers and objects and makes no ArrayBuffer.     *)
LEMMA CommandKeeps ==
  ASSUME IInv,
         NEW P \in SUBSET Blocks, NEW M \in SUBSET Mems,
         NEW f \in BOOLEAN, NEW blocking \in BOOLEAN,
         Enqueue(P, M, f, blocking),
         UNCHANGED <<kind, view, external, held, object, storage, own, arg>>,
         careless' \in BOOLEAN,
         ~careless' =>
           /\ ~careless
           /\ \A b \in P : MayPass(b) /\ \E a \in Buffers \cap held : view[a] = b
           /\ \A m \in M : MayUse(m)
           /\ f => \A b \in P : Hosts(b, Nil) = {}
  PROVE  IInv'
<1>0. queue \in Seq(Command)  BY DEF IInv, Layout, TypeOK
<1>b. PICK c : c = Issued(P, M, f, blocking)  OBVIOUS
<1>1. /\ c \in Command
      /\ c.ptrs = P /\ c.mems = M /\ c.frees = f
      /\ ~calling /\ queue' = Append(queue, c) /\ calling' = ~c.async
      /\ queue' \in Seq(Command) /\ calling' \in BOOLEAN
  <2>1. c \in Command /\ c.ptrs = P /\ c.mems = M /\ c.frees = f /\ c.async = ~blocking
    BY <1>b DEF Command, Issued
  <2>2. ~calling /\ queue' = Append(queue, c) /\ calling' = blocking
    BY <1>b DEF Enqueue, Issued
  <2>3. queue' \in Seq(Command)  BY <1>0, <2>1, <2>2, AppendedInFlight
  <2> QED  BY <2>1, <2>2, <2>3
<1>2. TypeOK'  BY <1>1 DEF IInv, Layout, TypeOK
<1>3. \A a \in Buffers : SameView(a)  BY DEF SameView
<1>4. ~careless' => ~careless /\ Allowed(c)
  BY <1>1, NilIsNothing DEF Allowed, Hosts
<1> QED  BY <1>1, <1>2, <1>3, <1>4, EnqueueKeeps

(* enqueueMapBuffer and enqueueMapImage.                                    *)
LEMMA MapKeeps ==
  ASSUME IInv, NEW m \in Mems, NEW a \in Buffers, NEW blocking \in BOOLEAN,
         EnqueueMap(m, a, blocking)
  PROVE  IInv'
<1> USE DEF EnqueueMap
<1>0. /\ Enqueue({}, {m}, FALSE, blocking) /\ queue \in Seq(Command)
      /\ {m} \in SUBSET Mems /\ {} \in SUBSET Blocks
  BY DEF IInv, Layout, TypeOK
<1>b. PICK c : c = Issued({}, {m}, FALSE, blocking)  OBVIOUS
<1>1. /\ c \in Command
      /\ c.ptrs = {} /\ c.mems = {m} /\ ~c.frees
      /\ ~calling /\ queue' = Append(queue, c) /\ calling' = ~c.async
      /\ queue' \in Seq(Command) /\ calling' \in BOOLEAN
  <2>1. c \in Command /\ c.ptrs = {} /\ c.mems = {m} /\ ~c.frees /\ c.async = ~blocking
    BY <1>b DEF Command, Issued
  <2>2. ~calling /\ queue' = Append(queue, c) /\ calling' = blocking
    BY <1>0, <1>b DEF Enqueue, Issued
  <2>3. queue' \in Seq(Command)  BY <1>0, <2>1, <2>2, AppendedInFlight
  <2> QED  BY <2>1, <2>2, <2>3
<1>2. TypeOK'  BY <1>1 DEF IInv, Layout, TypeOK, Follows
<1>3. \A x \in Buffers : SameView(x) \/ MappedView(x, c)
  BY <1>1 DEF SameView, MappedView, Accepted, IInv, Layout, TypeOK
<1>4. ~careless' => ~careless /\ Allowed(c)
  BY <1>1 DEF Allowed, Follows, IInv, Layout, TypeOK
<1>5. \A n \in Mems : n \in held' <=> n \in held  BY KindsApart
<1> QED  BY <1>1, <1>2, <1>3, <1>4, <1>5, EnqueueKeeps

(* The handlers of commandqueue.cpp and svm.cpp that enqueue a command for   *)
(* ArrayBuffers JS has.                                                    *)
LEMMA TransferKeeps ==
  ASSUME IInv, NEW m \in Mems, NEW a \in Buffers, NEW blocking \in BOOLEAN,
         EnqueueTransfer(m, a, blocking) \/ EnqueueUnmapMemObject(m, a)
  PROVE  IInv'
<1>1. a \in held /\ view[a] \in Blocks /\ careless \in BOOLEAN
  BY DEF EnqueueTransfer, EnqueueUnmapMemObject, IInv, Layout, TypeOK, Shape
<1>2. CASE EnqueueTransfer(m, a, blocking)
  <2>1. {view[a]} \in SUBSET Blocks /\ {m} \in SUBSET Mems  BY <1>1
  <2>2. /\ Enqueue({view[a]}, {m}, FALSE, blocking)
        /\ UNCHANGED <<kind, view, external, held, object, storage, own, arg>>
        /\ careless' = (careless \/ ~(MayUse(m) /\ MayPass(view[a])))
    BY <1>2 DEF EnqueueTransfer, Follows
  <2>3. careless' \in BOOLEAN /\ (~careless' => ~careless /\ MayUse(m) /\ MayPass(view[a]))
    BY <1>1, <2>2
  <2> QED  BY <1>1, <2>1, <2>2, <2>3, CommandKeeps
<1>3. CASE EnqueueUnmapMemObject(m, a)
  <2>1. {m} \in SUBSET Mems /\ {} \in SUBSET Blocks  OBVIOUS
  <2>2. /\ Enqueue({}, {m}, FALSE, FALSE)
        /\ UNCHANGED <<kind, view, external, held, object, storage, own, arg>>
        /\ careless' = (careless \/ ~MayUse(m))
    BY <1>3 DEF EnqueueUnmapMemObject, Follows
  <2>3. careless' \in BOOLEAN /\ (~careless' => ~careless /\ MayUse(m))
    BY <1>1, <2>2
  <2> QED  BY <2>1, <2>2, <2>3, CommandKeeps
<1> QED  BY <1>2, <1>3

LEMMA SVMCommandsKeep ==
  ASSUME IInv, NEW a \in Buffers, NEW x \in Buffers, NEW blocking \in BOOLEAN,
         \/ EnqueueSVMFree(a) \/ EnqueueSVMMemcpy(a, x, blocking)
         \/ EnqueueSVMMemFill(a) \/ EnqueueSVMMap(a, blocking) \/ EnqueueSVMUnmap(a)
  PROVE  IInv'
<1> DEFINE Plain == UNCHANGED <<kind, view, external, held, object, storage, own, arg>>
<1>0. {} \in SUBSET Mems /\ careless \in BOOLEAN  BY DEF IInv, Layout, TypeOK
<1>1. \A y \in Buffers \cap held : view[y] \in Blocks  BY DEF IInv, Layout, Shape
<1>2. CASE EnqueueSVMFree(a)
  <2>1. /\ a \in held /\ Enqueue({view[a]}, {}, TRUE, FALSE) /\ Plain
        /\ careless' = (careless \/ ~MayQueueFree(view[a]))
    BY <1>2 DEF EnqueueSVMFree, Follows
  <2>2. {view[a]} \in SUBSET Blocks  BY <1>1, <2>1
  <2>3. /\ careless' \in BOOLEAN
        /\ ~careless' => ~careless /\ MayPass(view[a]) /\ Hosts(view[a], Nil) = {}
    BY <1>0, <2>1 DEF MayQueueFree
  <2> QED  BY <1>0, <2>1, <2>2, <2>3, CommandKeeps
<1>3. CASE EnqueueSVMMemcpy(a, x, blocking)
  <2>1. /\ a \in held /\ x \in held
        /\ Enqueue({view[a], view[x]}, {}, FALSE, blocking) /\ Plain
        /\ careless' = (careless \/ ~(MayPass(view[a]) /\ MayPass(view[x])))
    BY <1>3 DEF EnqueueSVMMemcpy, Follows
  <2>2. {view[a], view[x]} \in SUBSET Blocks  BY <1>1, <2>1
  <2>3. /\ careless' \in BOOLEAN
        /\ ~careless' => ~careless /\ MayPass(view[a]) /\ MayPass(view[x])
    BY <1>0, <2>1
  <2> QED  BY <1>0, <2>1, <2>2, <2>3, CommandKeeps
<1>4. CASE EnqueueSVMMemFill(a) \/ EnqueueSVMMap(a, blocking) \/ EnqueueSVMUnmap(a)
  <2>1. PICK block \in BOOLEAN :
          /\ a \in held /\ Enqueue({view[a]}, {}, FALSE, block) /\ Plain
          /\ careless' = (careless \/ ~MayPass(view[a]))
    BY <1>4 DEF EnqueueSVMMemFill, EnqueueSVMMap, EnqueueSVMUnmap, Follows
  <2>2. {view[a]} \in SUBSET Blocks  BY <1>1, <2>1
  <2>3. careless' \in BOOLEAN /\ (~careless' => ~careless /\ MayPass(view[a]))
    BY <1>0, <2>1
  <2> QED  BY <1>0, <2>1, <2>2, <2>3, CommandKeeps
<1> QED  BY <1>2, <1>3, <1>4

(* The commands on objects alone, and the kernel with its argument.         *)
LEMMA ObjectCommandsKeep ==
  ASSUME IInv, (\E m, n \in Mems : EnqueueOnObjects(m, n)) \/ EnqueueNDRangeKernel
  PROVE  IInv'
<1>0. careless \in BOOLEAN /\ arg \in Mems \cup Blocks \cup {Nil}
  BY DEF IInv, Layout, TypeOK
<1>1. ASSUME NEW m \in Mems, NEW n \in Mems, EnqueueOnObjects(m, n) PROVE IInv'
  <2>1. /\ Enqueue({}, {m, n}, FALSE, FALSE)
        /\ UNCHANGED <<kind, view, external, held, object, storage, own, arg>>
        /\ careless' = (careless \/ ~(MayUse(m) /\ MayUse(n)))
    BY <1>1 DEF EnqueueOnObjects, Follows
  <2>2. careless' \in BOOLEAN /\ (~careless' => ~careless /\ MayUse(m) /\ MayUse(n))
    BY <1>0, <2>1
  <2>3. {m, n} \in SUBSET Mems /\ {} \in SUBSET Blocks  OBVIOUS
  <2> QED  BY <2>1, <2>2, <2>3, CommandKeeps
<1>2. CASE EnqueueNDRangeKernel
  <2>1. /\ Enqueue({arg} \cap Blocks, {arg} \cap Mems, FALSE, FALSE)
        /\ UNCHANGED <<kind, view, external, held, object, storage, own, arg>>
        /\ careless' = (careless \/ ~MayRun)
    BY <1>2 DEF EnqueueNDRangeKernel, Follows
  <2>2. careless' \in BOOLEAN /\ (~careless' => ~careless /\ MayRun)  BY <1>0, <2>1
  <2>3. {arg} \cap Mems \in SUBSET Mems /\ {arg} \cap Blocks \in SUBSET Blocks  OBVIOUS
  <2>4. ~careless' =>
          /\ \A b \in {arg} \cap Blocks : MayPass(b) /\ \E a \in Buffers \cap held : view[a] = b
          /\ \A m \in {arg} \cap Mems : MayUse(m)
    BY <2>2 DEF MayRun
  <2> QED  BY <2>1, <2>2, <2>3, <2>4, CommandKeeps
<1> QED  BY <1>1, <1>2

-----------------------------------------------------------------------------
(* Neither the kernel's argument nor the end of a blocking call, when        *)
(* nothing is in flight, is a use of memory.                               *)
LEMMA ArgumentOrReturnKeeps ==
  ASSUME IInv, TypeOK',
         UNCHANGED <<kind, view, external, held, object, storage, own, queue, careless>>,
         UNCHANGED calling \/ queue = <<>>
  PROVE  IInv'
<1>1. InFlight' = InFlight /\ \A c : Memory(c)' = Memory(c)  BY FlightStays
<1>2. Layout'
  <2>1. AllKnown'
    <3>1. queue = <<>> => InFlight = {}  BY DEF InFlight
    <3> QED  BY <1>1, <3>1 DEF IInv, Layout, AllKnown
  <2>2. Shape' /\ OwnStorageLive' /\ OwnApart' /\ V8Views'
    BY DEF IInv, Layout, Shape, OwnStorageLive, OwnApart, V8Views
  <2> QED  BY <2>1, <2>2 DEF Layout
<1>3. Kept => Kept'
  <2>1. CommandsSafe => CommandsSafe'  BY <1>1 DEF CommandsSafe, Dangling, Freed
  <2>2. ObjectsSafe => ObjectsSafe'  BY DEF ObjectsSafe, Freed
  <2>3. ViewsSafe => ViewsSafe'  BY DEF ViewsSafe
  <2>4. DroppedUnused => DroppedUnused'  BY <1>1 DEF DroppedUnused
  <2>5. LetGoUnused => LetGoUnused'  BY <1>1 DEF LetGoUnused
  <2>6. FreedUnused => FreedUnused'  BY <1>1 DEF FreedUnused
  <2> QED  BY <2>1, <2>2, <2>3, <2>4, <2>5, <2>6 DEF Kept
<1> QED  BY <1>2, <1>3 DEF IInv

(* The actions of V8 and of memory objects keep the invariant.              *)
LEMMA V8Keeps ==
  ASSUME IInv, NEW a \in Buffers, NEW b \in Blocks,
         NewArrayBuffer(a, b) \/ SVMAlloc(a, b) \/ CollectBuffer(a) \/ SVMFree(a)
  PROVE  IInv'
<1>1. CASE NewArrayBuffer(a, b) \/ SVMAlloc(a, b)
  <2>1. TypeOK'  BY <1>1 DEF NewArrayBuffer, SVMAlloc, IInv, Layout, TypeOK
  <2>2. CASE NewArrayBuffer(a, b)
    BY <2>1, <2>2, NewBlockKeeps DEF NewArrayBuffer
  <2>3. CASE SVMAlloc(a, b)
    BY <2>1, <2>3, NewBlockKeeps DEF SVMAlloc
  <2> QED  BY <1>1, <2>2, <2>3
<1>2. CASE CollectBuffer(a)
  <2>1. TypeOK'  BY <1>2 DEF CollectBuffer, IInv, Layout, TypeOK
  <2> QED  BY <1>2, <2>1, CollectBufferKeeps
<1>3. CASE SVMFree(a)
  <2>1. TypeOK'  BY <1>3 DEF SVMFree, FreeSVM, Follows, IInv, Layout, TypeOK
  <2> QED  BY <1>3, <2>1, SVMFreeKeeps
<1> QED  BY <1>1, <1>2, <1>3

LEMMA MemsKeep ==
  ASSUME IInv, NEW m \in Mems,
         \/ CollectMem(m) \/ ReleaseMemObject(m) \/ Destroy(m)
         \/ \E b \in Blocks : CreateBuffer(m, b)
         \/ \E a \in Buffers : CreateBufferOnHost(m, a)
  PROVE  IInv'
<1>0. /\ TypeOK /\ careless \in BOOLEAN
      /\ \A a \in Buffers \cap held : view[a] \in Blocks
  BY DEF IInv, Layout, TypeOK, Shape
<1>1. CASE CollectMem(m)
  <2>1. TypeOK'  BY <1>0, <1>1 DEF CollectMem, TypeOK
  <2> QED  BY <1>1, <2>1, ReleaseKeeps DEF CollectMem
<1>2. CASE ReleaseMemObject(m)
  <2>1. TypeOK'  BY <1>0, <1>2 DEF ReleaseMemObject, Follows, TypeOK
  <2>2. ~careless' => ~careless /\ MayLetGo(m)
    BY <1>0, <1>2 DEF ReleaseMemObject, Follows
  <2> QED  BY <1>2, <2>1, <2>2, ReleaseKeeps DEF ReleaseMemObject
<1>3. CASE Destroy(m)
  <2>1. TypeOK'  BY <1>0, <1>3 DEF Destroy, TypeOK
  <2> QED  BY <1>3, <2>1, DestroyKeeps
<1>4. ASSUME NEW b \in Blocks, CreateBuffer(m, b) PROVE IInv'
  <2>1. careless' \in BOOLEAN /\ (~careless' => ~careless)
    <3>1. CASE UNCHANGED careless  BY <1>0, <3>1
    <3>2. ASSUME NEW a \in Buffers, Follows(MayPass(view[a]))
          PROVE  careless' \in BOOLEAN /\ (~careless' => ~careless)
      BY <1>0, <3>2 DEF Follows
    <3> QED  BY <1>4, <3>1, <3>2 DEF CreateBuffer
  <2>2. TypeOK'  BY <1>0, <1>4, <2>1 DEF CreateBuffer, NewMem, TypeOK
  <2> QED  BY <1>4, <2>1, <2>2, NewMemKeeps DEF CreateBuffer
<1>5. ASSUME NEW a \in Buffers, CreateBufferOnHost(m, a) PROVE IInv'
  <2>1. /\ careless' \in BOOLEAN
        /\ ~careless' => ~careless /\ MayPass(view[a])
    BY <1>0, <1>5 DEF CreateBufferOnHost, Follows
  <2>2. a \in held /\ view[a] \in Blocks  BY <1>0, <1>5 DEF CreateBufferOnHost
  <2>3. TypeOK'  BY <1>0, <1>5, <2>1, <2>2 DEF CreateBufferOnHost, NewMem, TypeOK
  <2> QED  BY <1>5, <2>1, <2>2, <2>3, NewMemKeeps DEF CreateBufferOnHost
<1> QED  BY <1>1, <1>2, <1>3, <1>4, <1>5

(* No step of JS, of V8 or of the driver breaks the invariant.              *)
LEMMA NextKeeps ==
  ASSUME IInv, Next
  PROVE  IInv'
<1>0. TypeOK /\ \A a \in Buffers \cap held : view[a] \in Blocks
  BY DEF IInv, Layout, Shape
<1>1. ASSUME NEW a \in Buffers, NEW b \in Blocks, NewArrayBuffer(a, b) \/ SVMAlloc(a, b)
      PROVE  IInv'
  BY <1>1, V8Keeps
<1>2. ASSUME NEW x \in Buffers \cup Mems, Drop(x) PROVE IInv'
  <2>1. TypeOK'  BY <1>0, <1>2 DEF Drop, Follows, TypeOK
  <2> QED  BY <1>2, <2>1, DropKeeps
<1>3. ASSUME NEW a \in Buffers, CollectBuffer(a) \/ SVMFree(a) PROVE IInv'
  <2>1. PICK b \in Blocks : TRUE
    BY <1>0, <1>3 DEF CollectBuffer, SVMFree, TypeOK
  <2> QED  BY <1>3, <2>1, V8Keeps
<1>4. ASSUME NEW a \in Buffers,
             EnqueueSVMFree(a) \/ EnqueueSVMMemFill(a) \/ EnqueueSVMUnmap(a)
      PROVE  IInv'
  <2>1. TRUE \in BOOLEAN  OBVIOUS
  <2> QED  BY <1>4, <2>1, SVMCommandsKeep
<1>5. ASSUME NEW a \in Buffers, NEW blocking \in BOOLEAN, NEW x \in Buffers,
             EnqueueSVMMap(a, blocking) \/ EnqueueSVMMemcpy(a, x, blocking)
      PROVE  IInv'
  BY <1>5, SVMCommandsKeep
<1>6. ASSUME NEW a \in Buffers, SetKernelArgSVMPointer(a) PROVE IInv'
  <2>1. TypeOK'  BY <1>0, <1>6 DEF SetKernelArgSVMPointer, TypeOK
  <2> QED  BY <1>6, <2>1, ArgumentOrReturnKeeps DEF SetKernelArgSVMPointer
<1>7. ASSUME NEW m \in Mems, SetKernelArg(m) PROVE IInv'
  <2>1. TypeOK'  BY <1>0, <1>7 DEF SetKernelArg, TypeOK
  <2> QED  BY <1>7, <2>1, ArgumentOrReturnKeeps DEF SetKernelArg
<1>8. ASSUME NEW m \in Mems, NEW a \in Buffers, NEW blocking \in BOOLEAN,
             \/ EnqueueTransfer(m, a, blocking) \/ EnqueueUnmapMemObject(m, a)
             \/ EnqueueMap(m, a, blocking)
      PROVE  IInv'
  BY <1>8, TransferKeeps, MapKeeps
<1>9. CASE Execute
  <2>1. queue \in Seq(Command) /\ queue # <<>>  BY <1>0, <1>9 DEF Execute, TypeOK
  <2>2. queue' \in Seq(Command)  BY <1>9, <2>1, HeadTailProperties DEF Execute
  <2>3. TypeOK'  BY <1>0, <1>9, <2>2 DEF Execute, FreeSVM, TypeOK
  <2> QED  BY <1>9, <2>3, ExecuteKeeps
<1>10. CASE Return
  <2>1. TypeOK'  BY <1>0, <1>10 DEF Return, TypeOK
  <2> QED  BY <1>10, <2>1, ArgumentOrReturnKeeps DEF Return
<1>11. CASE \E m \in Mems : \/ CollectMem(m) \/ ReleaseMemObject(m) \/ Destroy(m)
                            \/ \E b \in Blocks : CreateBuffer(m, b)
                            \/ \E a \in Buffers : CreateBufferOnHost(m, a)
  BY <1>11, MemsKeep
<1>12. CASE (\E m, n \in Mems : EnqueueOnObjects(m, n)) \/ EnqueueNDRangeKernel
  BY <1>12, ObjectCommandsKeep
<1>13. ASSUME NEW a \in Buffers, SetKernelArgSVMPointer(a) PROVE IInv'
  BY <1>6, <1>13
<1>14. ASSUME NEW m \in Mems, NEW a \in Buffers, EnqueueUnmapMemObject(m, a) PROVE IInv'
  <2>1. TRUE \in BOOLEAN  OBVIOUS
  <2> QED  BY <1>8, <1>14, <2>1
<1> QED
  BY <1>1, <1>2, <1>3, <1>4, <1>5, <1>6, <1>7, <1>8, <1>9, <1>10, <1>11, <1>12, <1>14 DEF Next

(* Nothing is allocated, reached or in flight at the start.                 *)
LEMMA InitEstablishes == Init => IInv
<1> SUFFICES ASSUME Init PROVE IInv  OBVIOUS
<1>1. queue \in Seq(Command)  BY EmptySeq DEF Init
<1>2. InFlight = {} /\ DOMAIN queue = {}  BY <1>1, EmptySeq, LenProperties DEF Init, InFlight
<1>3. TypeOK  BY <1>1 DEF Init, TypeOK
<1>4. Shape /\ AllKnown /\ OwnStorageLive /\ OwnApart /\ V8Views
  BY <1>2 DEF Init, Shape, AllKnown, OwnStorageLive, OwnApart, V8Views
<1>5. CommandsSafe /\ ObjectsSafe /\ ViewsSafe /\ DroppedUnused /\ LetGoUnused /\ FreedUnused
  BY <1>2 DEF Init, CommandsSafe, ObjectsSafe, ViewsSafe, DroppedUnused, LetGoUnused, FreedUnused
<1> QED  BY <1>3, <1>4, <1>5 DEF IInv, Layout, Kept

(* A step in which nobody acts.                                            *)
LEMMA StutterKeeps ==
  ASSUME IInv, UNCHANGED vars
  PROVE  IInv'
<1>1. TypeOK'  BY DEF vars, IInv, Layout, TypeOK
<1> QED  BY <1>1, ArgumentOrReturnKeeps DEF vars

-----------------------------------------------------------------------------
(* The inductive invariant holds in every state.                           *)
THEOREM Invariance == Spec => []IInv
<1>1. ASSUME IInv, [Next]_vars PROVE IInv'
  BY <1>1, NextKeeps, StutterKeeps
<1> QED  BY <1>1, InitEstablishes, PTL DEF Spec

(* Every variable keeps its type: in particular a command never carries the  *)
(* address of nothing, because the ArrayBuffers and the objects it takes    *)
(* them from are over a block.                                             *)
THEOREM TypeCorrect == Spec => []TypeOK
<1>1. IInv => TypeOK  BY DEF IInv, Layout
<1> QED  BY <1>1, Invariance, PTL

(* The rules are enough for any number of ArrayBuffers, objects and         *)
(* commands: while the program keeps them, no command in flight and no      *)
(* memory object is on freed memory.                                       *)
THEOREM KeptIsSafeHolds == Spec => []KeptIsSafe
<1>1. IInv => KeptIsSafe
  BY DEF IInv, Kept, KeptIsSafe, CommandsSafe, ObjectsSafe, ViewsSafe
<1> QED  BY <1>1, Invariance, PTL

(* Whatever the program does, no ArrayBuffer over an object's own contents  *)
(* gives them back.                                                        *)
THEOREM OwnStorageLiveHolds == Spec => []OwnStorageLive
<1>1. IInv => OwnStorageLive  BY DEF IInv, Layout
<1> QED  BY <1>1, Invariance, PTL

-----------------------------------------------------------------------------
(* Memory changes hands in four ways only: a free block is allocated, V8     *)
(* collects memory of its own outside every call, the driver frees storage   *)
(* it allocated, or SVM memory goes because JS has asked for it.            *)
LEMMA KindChanges ==
  ASSUME IInv, Next, NEW b \in Blocks, kind'[b] # kind[b]
  PROVE  \/ b \in Freed
         \/ ~calling /\ kind[b] = "v8"
         \/ kind[b] = "driver"
         \/ /\ kind[b] = "svm"
            /\ FreeQueued(b) \/ \E a \in Buffers \cap held : view[a] = b
<1>0. /\ kind \in [Blocks -> {"free", "v8", "svm", "driver", "spent"}]
      /\ view \in [Buffers -> Blocks \cup {Nil}]
  BY DEF IInv, Layout, TypeOK
<1>1. ASSUME NEW a \in Buffers, NEW d \in Blocks, NewArrayBuffer(a, d) \/ SVMAlloc(a, d)
      PROVE  b \in Freed
  BY <1>0, <1>1 DEF NewArrayBuffer, SVMAlloc, FreshBlock
<1>2. ASSUME NEW m \in Mems, NEW d \in Blocks, CreateBuffer(m, d)
      PROVE  b \in Freed
  BY <1>0, <1>2 DEF CreateBuffer, FreshBlock
<1>3. ASSUME NEW a \in Buffers, CollectBuffer(a)
      PROVE  ~calling /\ kind[b] = "v8"
  <2>1. a \notin external /\ b = view[a] /\ ~calling  BY <1>0, <1>3 DEF CollectBuffer
  <2> QED  BY <2>1, NilIsNothing DEF IInv, Layout, V8Views
<1>4. ASSUME NEW m \in Mems, Destroy(m)
      PROVE  kind[b] = "driver"
  <2>1. m \in own /\ b = storage[m]  BY <1>0, <1>4 DEF Destroy
  <2> QED  BY <2>1 DEF IInv, Layout, OwnStorageLive
<1>5. ASSUME NEW a \in Buffers, SVMFree(a)
      PROVE  kind[b] = "svm" /\ \E x \in Buffers \cap held : view[x] = b
  <2>1. kind[b] = "svm" /\ b = view[a] /\ a \in held  BY <1>0, <1>5 DEF SVMFree, FreeSVM
  <2> QED  BY <2>1
<1>6. ASSUME Execute
      PROVE  kind[b] = "svm" /\ FreeQueued(b)
  <2>1. queue \in Seq(Command) /\ queue # <<>>
    BY <1>6 DEF Execute, IInv, Layout, TypeOK
  <2>2. Head(queue) = queue[1] /\ 1 \in DOMAIN queue  BY <2>1, EmptySeq, LenProperties
  <2>3. Head(queue).frees /\ b \in Head(queue).ptrs /\ kind[b] = "svm"
    BY <1>0, <1>6 DEF Execute, FreeSVM
  <2>4. Head(queue) \in InFlight  BY <2>2 DEF InFlight
  <2> QED  BY <2>3, <2>4 DEF FreeQueued
<1>7. ~ \E x \in Buffers \cup Mems : Drop(x)  BY DEF Drop
<1>8. ~ \E a, x \in Buffers, blocking \in BOOLEAN :
        \/ EnqueueSVMFree(a) \/ EnqueueSVMMemFill(a) \/ EnqueueSVMUnmap(a)
        \/ SetKernelArgSVMPointer(a) \/ EnqueueSVMMap(a, blocking)
        \/ EnqueueSVMMemcpy(a, x, blocking)
  BY DEF EnqueueSVMFree, EnqueueSVMMemFill, EnqueueSVMUnmap, SetKernelArgSVMPointer,
         EnqueueSVMMap, EnqueueSVMMemcpy
<1>9. ~ \E m, n \in Mems : \/ CollectMem(m) \/ ReleaseMemObject(m) \/ SetKernelArg(m)
                           \/ EnqueueOnObjects(m, n)
  BY DEF CollectMem, ReleaseMemObject, SetKernelArg, EnqueueOnObjects
<1>10. ~ \E m \in Mems, a \in Buffers, blocking \in BOOLEAN :
         \/ CreateBufferOnHost(m, a) \/ EnqueueUnmapMemObject(m, a)
         \/ EnqueueTransfer(m, a, blocking) \/ EnqueueMap(m, a, blocking)
  BY DEF CreateBufferOnHost, EnqueueUnmapMemObject, EnqueueTransfer, EnqueueMap
<1>11. ~EnqueueNDRangeKernel /\ ~Return  BY DEF EnqueueNDRangeKernel, Return
<1>12. TRUE \in BOOLEAN  OBVIOUS
<1> QED
  BY <1>1, <1>2, <1>3, <1>4, <1>5, <1>6, <1>7, <1>8, <1>9, <1>10, <1>11, <1>12 DEF Next

(* A blocking call's ArrayBuffers survive it: the collector runs on the      *)
(* thread that waits.                                                      *)
THEOREM BlockingIsSafeHolds == Spec => BlockingIsSafe
<1> DEFINE Safe == \A c \in InFlight : ~c.async =>
                     \A b \in c.ptrs : kind[b] = "v8" => kind'[b] = "v8"
<1>1. ASSUME IInv, [Next]_vars PROVE [Safe]_vars
  <2> SUFFICES ASSUME Next, NEW c \in InFlight, ~c.async, NEW b \in c.ptrs, kind[b] = "v8"
               PROVE  kind'[b] = "v8"
    BY <1>1
  <2>1. b \in Blocks  BY <1>1, InFlightTyped DEF IInv, Layout, TypeOK
  <2>2. calling  BY <1>1 DEF IInv, Layout, AllKnown
  <2>3. b \notin Freed  BY DEF Freed
  <2> QED  BY <1>1, <2>1, <2>2, <2>3, KindChanges
<1> QED  BY <1>1, Invariance, PTL DEF Spec, BlockingIsSafe

(* SVM memory goes only when JS asks: losing its ArrayBuffers is no asking. *)
THEOREM SVMPinnedHolds == Spec => SVMPinned
<1> DEFINE Pinned == \A b \in Blocks :
       kind[b] = "svm" /\ ~FreeQueued(b) /\ (\A a \in Buffers \cap held : view[a] # b)
         => kind'[b] = "svm"
<1>1. ASSUME IInv, [Next]_vars PROVE [Pinned]_vars
  <2> SUFFICES ASSUME Next, NEW b \in Blocks, kind[b] = "svm", ~FreeQueued(b),
                      \A a \in Buffers \cap held : view[a] # b
               PROVE  kind'[b] = "svm"
    BY <1>1
  <2>1. b \notin Freed  BY DEF Freed
  <2> QED  BY <1>1, <2>1, KindChanges
<1> QED  BY <1>1, Invariance, PTL DEF Spec, SVMPinned
=============================================================================
