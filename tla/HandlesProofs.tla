--------------------------- MODULE HandlesProofs ---------------------------
(***************************************************************************)
(* Proofs about Handles for any sets of addresses, wrappers and kinds.     *)
(* The inductive invariant adds to the checked invariants the shape of an   *)
(* unused wrapper place; LiveHandle follows from it and the accounting.    *)
(***************************************************************************)
EXTENDS Handles, FiniteSetTheorems, TLAPS

(* A place without a wrapper holds no handle and no released flag.         *)
UnusedPlaces ==
  \A w \in Wrappers : type[w] = "none" => raw[w] = NoObj /\ ~released[w]

(* What LiveHandle says without the count, which Accounting gives.         *)
UnreleasedValid ==
  \A w \in Wrappers : type[w] # "none" /\ ~released[w] => Valid(w)

(* The context of a live object, and the program, buffer or queue it was    *)
(* made from, outlive it however JS orders its releases: get*Info() never   *)
(* wraps a freed handle.                                                   *)
ParentsOutliveChildren ==
  \A o \in Objs :
    Alive(o) =>
      /\ kind[o] # "context" => Alive(context[o]) /\ kind[context[o]] = "context"
      /\ assoc[o] # NoObj => Alive(assoc[o]) /\ assoc[o] # o

IInv == TypeOK /\ UnusedPlaces /\ UnreleasedValid /\ Accounting /\ ParentsOutliveChildren

(* The action RetainPinsForever demands of a step.                         *)
Pins ==
  \A o \in Objs : extra[o] > 0 => kind'[o] = kind[o] /\ extra'[o] >= extra[o] /\ refs'[o] > 0

-----------------------------------------------------------------------------
(* The owners of an object are wrappers, so they can be counted.           *)
LEMMA OwnersFinite ==
  ASSUME NEW o PROVE IsFiniteSet(Owners(o)) /\ Cardinality(Owners(o)) \in Nat
<1>1. Owners(o) \in SUBSET Wrappers  BY DEF Owners
<1> QED  BY <1>1, WrappersFinite, FS_Subset, FS_CardinalityType

(* The same after a step.                                                  *)
LEMMA OwnersFinitePrime ==
  ASSUME NEW o PROVE IsFiniteSet(Owners(o)') /\ Cardinality(Owners(o)') \in Nat
<1>1. Owners(o)' \in SUBSET Wrappers  BY DEF Owners
<1> QED  BY <1>1, WrappersFinite, FS_Subset, FS_CardinalityType

(* An unreleased wrapper has a live object with a reference left.          *)
LEMMA OwnedIsReferenced ==
  ASSUME IInv, NEW w \in Wrappers, type[w] # "none", ~released[w]
  PROVE  Valid(w) /\ raw[w] \in Objs /\ refs[raw[w]] > 0
<1>1. Valid(w) /\ raw[w] \in Objs  BY DEF IInv, UnreleasedValid, Valid, Alive
<1>2. w \in Owners(raw[w])  BY DEF Owners
<1>3. Cardinality(Owners(raw[w])) # 0  BY <1>2, OwnersFinite, FS_EmptySet
<1>4. refs[raw[w]] = Cardinality(Owners(raw[w])) + extra[raw[w]]
  BY <1>1 DEF IInv, Accounting, Valid
<1>5. extra[raw[w]] \in Nat  BY <1>1 DEF IInv, TypeOK
<1> QED  BY <1>1, <1>3, <1>4, <1>5, OwnersFinite

(* A step that keeps a retained object in place and its count of retains    *)
(* pins it, because the accounting still holds after the step.             *)
LEMMA PinsFromInvariant ==
  ASSUME IInv, IInv',
         \A o \in Objs : extra[o] > 0 => kind'[o] = kind[o] /\ extra'[o] >= extra[o]
  PROVE  Pins
<1> SUFFICES ASSUME NEW o \in Objs, extra[o] > 0 PROVE refs'[o] > 0
  BY DEF Pins
<1>1. extra[o] \in Nat /\ extra'[o] \in Nat  BY DEF IInv, TypeOK
<1>2. extra'[o] > 0  BY <1>1
<1>3. Alive(o)'  BY <1>2 DEF IInv, Accounting
<1>4. refs'[o] = Cardinality(Owners(o)') + extra'[o]  BY <1>3 DEF IInv, Accounting
<1> QED  BY <1>1, <1>2, <1>4, OwnersFinitePrime

-----------------------------------------------------------------------------
(* Creating an object and its wrapper keeps the invariant, when the parents *)
(* given to the driver are alive.                                          *)
LEMMA CreateKeeps ==
  ASSUME IInv, NEW w \in Wrappers, NEW o \in Objs, NEW k,
         NEW c \in Objs \cup {NoObj}, NEW a \in Objs \cup {NoObj},
         Create(w, o, k, c, a),
         k # "context" => Alive(c) /\ kind[c] = "context",
         a # NoObj => Alive(a)
  PROVE  IInv' /\ Pins
<1> USE DEF Create, Allocate, NewInstance
<1>0. k \in Kinds /\ k # "none"  BY KindsAreKinds
<1>1. TypeOK'  BY <1>0 DEF IInv, TypeOK
<1>2. UnusedPlaces'  BY <1>0 DEF IInv, TypeOK, UnusedPlaces
<1>3. UnreleasedValid'
  BY <1>0 DEF IInv, TypeOK, UnreleasedValid, Valid, Alive
<1>4. Accounting'
  <2> SUFFICES ASSUME NEW p \in Objs
               PROVE  IF Alive(p)' THEN refs'[p] = Cardinality(Owners(p)') + extra'[p]
                      ELSE Owners(p)' = {} /\ refs'[p] = 0 /\ extra'[p] = 0
    BY DEF Accounting
  <2>1. raw[w] = NoObj /\ ~released[w]  BY DEF IInv, UnusedPlaces
  <2>2. CASE p = o
    <3>1. Owners(o) = {} /\ extra[o] = 0  BY DEF IInv, Accounting, Alive
    <3>2. Owners(o)' = {w}  BY <2>1, <3>1 DEF Owners, IInv, TypeOK
    <3>3. refs'[o] = 1 /\ extra'[o] = 0 /\ Alive(o)'
      BY <1>0, <3>1 DEF IInv, TypeOK, Alive
    <3>4. Cardinality(Owners(o)') = 1  BY <3>2, FS_Singleton
    <3> QED  BY <2>2, <3>3, <3>4
  <2>3. CASE p # o
    <3>1. Owners(p)' = Owners(p)
      BY <2>1, <2>3, NoObjIsNoObject DEF Owners, IInv, TypeOK
    <3>2. kind'[p] = kind[p] /\ refs'[p] = refs[p] /\ extra'[p] = extra[p]
      BY <2>3 DEF IInv, TypeOK
    <3> QED  BY <3>1, <3>2 DEF IInv, Accounting, Alive
  <2> QED  BY <2>2, <2>3
<1>5. ParentsOutliveChildren'
  <2> SUFFICES ASSUME NEW p \in Objs, Alive(p)'
      PROVE /\ kind'[p] # "context" => Alive(context[p])' /\ kind'[context'[p]] = "context"
            /\ assoc'[p] # NoObj => Alive(assoc[p])' /\ assoc'[p] # p
    BY DEF ParentsOutliveChildren
  <2>1. \A q \in Objs : Alive(q) => Alive(q)' /\ q # o /\ kind'[q] = kind[q]
    BY <1>0 DEF IInv, TypeOK, Alive
  <2>2. CASE p = o
    BY <2>1, <2>2, <1>0 DEF IInv, TypeOK, Alive
  <2>3. CASE p # o
    <3>1. kind'[p] = kind[p] /\ context'[p] = context[p] /\ assoc'[p] = assoc[p]
      BY <2>3 DEF IInv, TypeOK
    <3> QED  BY <2>1, <3>1 DEF IInv, ParentsOutliveChildren, Alive
  <2> QED  BY <2>2, <2>3
<1>6. IInv'  BY <1>1, <1>2, <1>3, <1>4, <1>5 DEF IInv
<1>7. \A p \in Objs : extra[p] > 0 => kind'[p] = kind[p] /\ extra'[p] >= extra[p]
  BY DEF IInv, TypeOK, Accounting, Alive
<1> QED  BY <1>6, <1>7, PinsFromInvariant

(* createKernelsInProgram creates two objects and two wrappers at once.     *)
LEMMA KernelsKeep ==
  ASSUME IInv, NEW w1 \in Wrappers, NEW w2 \in Wrappers,
         NEW o1 \in Objs, NEW o2 \in Objs, NEW v \in Wrappers,
         CreateKernelsInProgram(w1, w2, o1, o2, v)
  PROVE  IInv' /\ Pins
<1> USE DEF CreateKernelsInProgram
<1>0. /\ Alive(raw[v]) /\ kind[raw[v]] = "program"
      /\ Alive(context[raw[v]]) /\ kind[context[raw[v]]] = "context"
  BY DEF Unwrap, Valid, Alive, IInv, ParentsOutliveChildren
<1>1. TypeOK'  BY <1>0 DEF IInv, TypeOK, Alive
<1>2. UnusedPlaces'  BY DEF IInv, TypeOK, UnusedPlaces
<1>3. UnreleasedValid'
  BY DEF IInv, TypeOK, UnreleasedValid, Valid, Alive
<1>4. Accounting'
  <2> SUFFICES ASSUME NEW p \in Objs
               PROVE  IF Alive(p)' THEN refs'[p] = Cardinality(Owners(p)') + extra'[p]
                      ELSE Owners(p)' = {} /\ refs'[p] = 0 /\ extra'[p] = 0
    BY DEF Accounting
  <2>1. /\ raw[w1] = NoObj /\ ~released[w1]
        /\ raw[w2] = NoObj /\ ~released[w2]
    BY DEF IInv, UnusedPlaces
  <2>2. ASSUME p \in {o1, o2} PROVE Cardinality(Owners(p)') = 1 /\ refs'[p] = 1
                                   /\ extra'[p] = 0 /\ Alive(p)'
    <3>1. Owners(p) = {} /\ extra[p] = 0  BY <2>2 DEF IInv, Accounting, Alive
    <3>2. Owners(p)' = IF p = o1 THEN {w1} ELSE {w2}
      BY <2>1, <2>2, <3>1 DEF Owners, IInv, TypeOK
    <3>3. Cardinality(Owners(p)') = 1  BY <3>2, FS_Singleton
    <3>4. refs'[p] = 1 /\ extra'[p] = 0 /\ Alive(p)'
      BY <2>2, <3>1 DEF IInv, TypeOK, Alive
    <3> QED  BY <3>3, <3>4
  <2>3. CASE p \notin {o1, o2}
    <3>1. Owners(p)' = Owners(p)
      BY <2>1, <2>3, NoObjIsNoObject DEF Owners, IInv, TypeOK
    <3>2. kind'[p] = kind[p] /\ refs'[p] = refs[p] /\ extra'[p] = extra[p]
      BY <2>3 DEF IInv, TypeOK
    <3> QED  BY <3>1, <3>2 DEF IInv, Accounting, Alive
  <2> QED  BY <2>2, <2>3
<1>5. ParentsOutliveChildren'
  <2> SUFFICES ASSUME NEW p \in Objs, Alive(p)'
      PROVE /\ kind'[p] # "context" => Alive(context[p])' /\ kind'[context'[p]] = "context"
            /\ assoc'[p] # NoObj => Alive(assoc[p])' /\ assoc'[p] # p
    BY DEF ParentsOutliveChildren
  <2>1. \A q \in Objs : Alive(q) => Alive(q)' /\ q \notin {o1, o2} /\ kind'[q] = kind[q]
    BY DEF IInv, TypeOK, Alive
  <2>2. CASE p \in {o1, o2}
    BY <1>0, <2>1, <2>2 DEF IInv, TypeOK, Alive
  <2>3. CASE p \notin {o1, o2}
    <3>1. kind'[p] = kind[p] /\ context'[p] = context[p] /\ assoc'[p] = assoc[p]
      BY <2>3 DEF IInv, TypeOK
    <3>2. Alive(p)  BY <3>1 DEF Alive
    <3>3. /\ kind[p] # "context" => Alive(context[p]) /\ kind[context[p]] = "context"
          /\ assoc[p] # NoObj => Alive(assoc[p]) /\ assoc[p] # p
      BY <3>2 DEF IInv, ParentsOutliveChildren
    <3>4. /\ Alive(context[p]) => Alive(context[p])' /\ kind'[context'[p]] = kind[context[p]]
          /\ Alive(assoc[p]) => Alive(assoc[p])'
      BY <2>1, <3>1 DEF Alive
    <3> QED  BY <3>1, <3>3, <3>4
  <2> QED  BY <2>2, <2>3
<1>6. IInv'  BY <1>1, <1>2, <1>3, <1>4, <1>5 DEF IInv
<1>7. \A p \in Objs : extra[p] > 0 => kind'[p] = kind[p] /\ extra'[p] >= extra[p]
  BY DEF IInv, TypeOK, Accounting, Alive
<1> QED  BY <1>6, <1>7, PinsFromInvariant

(* retain*() adds a reference that belongs to no wrapper.                   *)
LEMMA AcquireKeeps ==
  ASSUME IInv, NEW w \in Wrappers, NEW k, Acquire(w, k)
  PROVE  IInv' /\ Pins
<1> USE DEF Acquire, wrapperVars
<1>0. raw[w] \in Objs /\ Alive(raw[w])  BY DEF Unwrap, Valid, Alive
<1>1. TypeOK'  BY <1>0 DEF IInv, TypeOK
<1>2. UnusedPlaces' /\ UnreleasedValid' /\ ParentsOutliveChildren'
  BY DEF IInv, UnusedPlaces, UnreleasedValid, ParentsOutliveChildren, Valid, Alive
<1>3. Accounting'
  <2> SUFFICES ASSUME NEW p \in Objs
               PROVE  IF Alive(p)' THEN refs'[p] = Cardinality(Owners(p)') + extra'[p]
                      ELSE Owners(p)' = {} /\ refs'[p] = 0 /\ extra'[p] = 0
    BY DEF Accounting
  <2>1. Owners(p)' = Owners(p) /\ (Alive(p)' <=> Alive(p))  BY DEF Owners, Alive
  <2>2. CASE p = raw[w]
    <3>1. refs'[p] = refs[p] + 1 /\ extra'[p] = extra[p] + 1
      BY <1>0, <2>2 DEF IInv, TypeOK
    <3> QED  BY <1>0, <2>1, <2>2, <3>1, OwnersFinite DEF IInv, TypeOK, Accounting
  <2>3. CASE p # raw[w]
    <3>1. refs'[p] = refs[p] /\ extra'[p] = extra[p]  BY <2>3 DEF IInv, TypeOK
    <3> QED  BY <2>1, <3>1 DEF IInv, Accounting
  <2> QED  BY <2>2, <2>3
<1>4. IInv'  BY <1>1, <1>2, <1>3 DEF IInv
<1>5. \A p \in Objs : extra[p] > 0 => kind'[p] = kind[p] /\ extra'[p] >= extra[p]
  BY <1>0 DEF IInv, TypeOK
<1> QED  BY <1>4, <1>5, PinsFromInvariant

(* Giving back w's reference: one owner less, one reference less.           *)
LEMMA GiveBackAccounts ==
  ASSUME IInv, NEW w \in Wrappers, type[w] # "none", ~released[w],
         refs' = [refs EXCEPT ![raw[w]] = @ - 1],
         UNCHANGED <<kind, extra>>,
         \A o \in Objs : Owners(o)' = Owners(o) \ {w}
  PROVE  Accounting' /\ refs' \in [Objs -> Nat]
<1>0. raw[w] \in Objs /\ Alive(raw[w]) /\ refs[raw[w]] > 0
  BY OwnedIsReferenced DEF Valid
<1>1. refs' \in [Objs -> Nat]  BY <1>0 DEF IInv, TypeOK
<1>2. Accounting'
  <2> SUFFICES ASSUME NEW p \in Objs
               PROVE  IF Alive(p)' THEN refs'[p] = Cardinality(Owners(p)') + extra'[p]
                      ELSE Owners(p)' = {} /\ refs'[p] = 0 /\ extra'[p] = 0
    BY DEF Accounting
  <2>1. Alive(p)' <=> Alive(p)  BY DEF Alive
  <2>2. CASE p = raw[w]
    <3>1. w \in Owners(p)  BY <2>2 DEF Owners
    <3>2. Cardinality(Owners(p)') = Cardinality(Owners(p)) - 1
      BY <3>1, OwnersFinite, FS_RemoveElement
    <3>3. refs'[p] = refs[p] - 1 /\ extra'[p] = extra[p]  BY <1>0, <2>2 DEF IInv, TypeOK
    <3>4. refs[p] = Cardinality(Owners(p)) + extra[p]
      BY <1>0, <2>2 DEF IInv, Accounting
    <3>5. Cardinality(Owners(p)) \in Nat /\ extra[p] \in Nat
      BY OwnersFinite DEF IInv, TypeOK
    <3> QED  BY <1>0, <2>1, <2>2, <3>2, <3>3, <3>4, <3>5
  <2>3. CASE p # raw[w]
    <3>1. Owners(p)' = Owners(p)  BY <2>3 DEF Owners
    <3>2. refs'[p] = refs[p] /\ extra'[p] = extra[p]  BY <2>3 DEF IInv, TypeOK
    <3> QED  BY <2>1, <3>1, <3>2 DEF IInv, Accounting
  <2> QED  BY <2>2, <2>3
<1> QED  BY <1>1, <1>2

(* release*(): the first one gives the wrapper's reference back.            *)
LEMMA ReleaseKeeps ==
  ASSUME IInv, NEW w \in Wrappers, NEW k, k # "none", ReleaseHandle(w, k)
  PROVE  IInv' /\ Pins
<1>0. type[w] # "none"  BY DEF ReleaseHandle
<1>1. CASE released[w]
  <2>1. UNCHANGED vars  BY <1>1 DEF ReleaseHandle, Release
  <2>2. IInv'
    BY <2>1 DEF vars, IInv, TypeOK, UnusedPlaces, UnreleasedValid, Accounting,
                ParentsOutliveChildren, Valid, Alive, Owners
  <2>3. \A p \in Objs : extra[p] > 0 => kind'[p] = kind[p] /\ extra'[p] >= extra[p]
    BY <2>1 DEF vars, IInv, TypeOK
  <2> QED  BY <2>2, <2>3, PinsFromInvariant
<1>2. CASE ~released[w]
  <2>0. /\ released' = [released EXCEPT ![w] = TRUE]
        /\ refs' = [refs EXCEPT ![raw[w]] = @ - 1]
        /\ UNCHANGED <<kind, context, assoc, extra, raw, type>>
    BY <1>2 DEF ReleaseHandle, Release
  <2>1. \A o \in Objs : Owners(o)' = Owners(o) \ {w}
    BY <2>0 DEF Owners, IInv, TypeOK
  <2>2. Accounting' /\ refs' \in [Objs -> Nat]
    BY <1>0, <1>2, <2>0, <2>1, GiveBackAccounts
  <2>3. TypeOK'  BY <2>0, <2>2 DEF IInv, TypeOK
  <2>4. UnusedPlaces' /\ UnreleasedValid' /\ ParentsOutliveChildren'
    BY <1>0, <2>0 DEF IInv, TypeOK, UnusedPlaces, UnreleasedValid,
                ParentsOutliveChildren, Valid, Alive
  <2>5. IInv'  BY <2>2, <2>3, <2>4 DEF IInv
  <2>6. \A p \in Objs : extra[p] > 0 => kind'[p] = kind[p] /\ extra'[p] >= extra[p]
    BY <2>0 DEF IInv, TypeOK
  <2> QED  BY <2>5, <2>6, PinsFromInvariant
<1> QED  BY <1>1, <1>2

(* get*Info() answering with a handle: one reference more, one owner more.  *)
LEMMA WrapRetainedKeeps ==
  ASSUME IInv, NEW w \in Wrappers, NEW o, WrapRetained(w, o)
  PROVE  IInv' /\ Pins
<1> USE DEF WrapRetained, NewInstance
<1>0. /\ o \in Objs /\ Alive(o) /\ kind[o] # "none"
      /\ kind[o] \in Kinds \cup {"none"}
      /\ raw[w] = NoObj /\ ~released[w] /\ type[w] = "none"
  BY DEF Alive, IInv, TypeOK, UnusedPlaces
<1>1. TypeOK'  BY <1>0 DEF IInv, TypeOK
<1>2. UnusedPlaces'  BY <1>0 DEF IInv, TypeOK, UnusedPlaces
<1>3. UnreleasedValid' /\ ParentsOutliveChildren'
  BY <1>0 DEF IInv, TypeOK, UnreleasedValid, ParentsOutliveChildren, Valid, Alive
<1>4. Accounting'
  <2> SUFFICES ASSUME NEW p \in Objs
               PROVE  IF Alive(p)' THEN refs'[p] = Cardinality(Owners(p)') + extra'[p]
                      ELSE Owners(p)' = {} /\ refs'[p] = 0 /\ extra'[p] = 0
    BY DEF Accounting
  <2>1. Alive(p)' <=> Alive(p)  BY DEF Alive
  <2>2. CASE p = o
    <3>1. w \notin Owners(p)  BY <1>0, <2>2, NoObjIsNoObject DEF Owners
    <3>2. Owners(p)' = Owners(p) \cup {w}  BY <1>0, <2>2 DEF Owners, IInv, TypeOK
    <3>3. Cardinality(Owners(p)') = Cardinality(Owners(p)) + 1
      BY <3>1, <3>2, OwnersFinite, FS_AddElement
    <3>4. refs'[p] = refs[p] + 1 /\ extra'[p] = extra[p]  BY <1>0, <2>2 DEF IInv, TypeOK
    <3>5. refs[p] = Cardinality(Owners(p)) + extra[p]
      BY <1>0, <2>2 DEF IInv, Accounting
    <3>6. Cardinality(Owners(p)) \in Nat /\ extra[p] \in Nat
      BY OwnersFinite DEF IInv, TypeOK
    <3> QED  BY <1>0, <2>1, <2>2, <3>3, <3>4, <3>5, <3>6
  <2>3. CASE p # o
    <3>1. Owners(p)' = Owners(p)
      BY <1>0, <2>3, NoObjIsNoObject DEF Owners, IInv, TypeOK
    <3>2. refs'[p] = refs[p] /\ extra'[p] = extra[p]  BY <2>3 DEF IInv, TypeOK
    <3> QED  BY <2>1, <3>1, <3>2 DEF IInv, Accounting
  <2> QED  BY <2>2, <2>3
<1>5. IInv'  BY <1>1, <1>2, <1>3, <1>4 DEF IInv
<1>6. \A p \in Objs : extra[p] > 0 => kind'[p] = kind[p] /\ extra'[p] >= extra[p]
  BY DEF IInv, TypeOK
<1> QED  BY <1>5, <1>6, PinsFromInvariant

(* The destructor gives back what release*() has not.                       *)
LEMMA CollectKeeps ==
  ASSUME IInv, NEW w \in Wrappers, Collect(w)
  PROVE  IInv' /\ Pins
<1>0. /\ type[w] # "none"
      /\ raw' = [raw EXCEPT ![w] = NoObj]
      /\ type' = [type EXCEPT ![w] = "none"]
      /\ released' = [released EXCEPT ![w] = FALSE]
      /\ UNCHANGED <<kind, context, assoc, extra>>
  BY DEF Collect
<1>1. \A o \in Objs : Owners(o)' = Owners(o) \ {w}
  BY <1>0, NoObjIsNoObject DEF Owners, IInv, TypeOK
<1>2. Accounting' /\ refs' \in [Objs -> Nat]
  <2>1. CASE released[w]
    <3>1. refs' = refs  BY <2>1 DEF Collect
    <3>2. \A o \in Objs : Owners(o)' = Owners(o)  BY <1>1, <2>1 DEF Owners
    <3> QED  BY <1>0, <3>1, <3>2 DEF IInv, TypeOK, Accounting, Alive
  <2>2. CASE ~released[w]
    <3>1. refs' = [refs EXCEPT ![raw[w]] = @ - 1]  BY <2>2 DEF Collect
    <3> QED  BY <1>0, <1>1, <2>2, <3>1, GiveBackAccounts
  <2> QED  BY <2>1, <2>2
<1>3. TypeOK'  BY <1>0, <1>2 DEF IInv, TypeOK
<1>4. UnusedPlaces' /\ UnreleasedValid' /\ ParentsOutliveChildren'
  BY <1>0 DEF IInv, TypeOK, UnusedPlaces, UnreleasedValid, ParentsOutliveChildren, Valid, Alive
<1>5. IInv'  BY <1>2, <1>3, <1>4 DEF IInv
<1>6. \A p \in Objs : extra[p] > 0 => kind'[p] = kind[p] /\ extra'[p] >= extra[p]
  BY <1>0 DEF IInv, TypeOK
<1> QED  BY <1>5, <1>6, PinsFromInvariant

(* The driver frees what nobody owns, retains or depends on.                *)
LEMMA DestroyKeeps ==
  ASSUME IInv, NEW o \in Objs, DriverDestroy(o)
  PROVE  IInv' /\ Pins
<1> USE DEF DriverDestroy, wrapperVars
<1>0. Owners(o) = {} /\ extra[o] = 0
  <2>1. refs[o] = Cardinality(Owners(o)) + extra[o] /\ extra[o] \in Nat /\ refs[o] = 0
    BY DEF IInv, TypeOK, Accounting, Alive
  <2>2. Cardinality(Owners(o)) = 0 /\ extra[o] = 0  BY <2>1, OwnersFinite
  <2> QED  BY <2>2, OwnersFinite, FS_EmptySet
<1>1. TypeOK'  BY DEF IInv, TypeOK
<1>2. UnusedPlaces'  BY DEF IInv, UnusedPlaces
<1>3. UnreleasedValid'
  BY <1>0 DEF IInv, TypeOK, UnreleasedValid, Valid, Alive, Owners
<1>4. Accounting'
  <2>1. \A p \in Objs : Owners(p)' = Owners(p)  BY DEF Owners
  <2>2. \A p \in Objs : Alive(p)' <=> Alive(p) /\ p # o  BY DEF Alive, IInv, TypeOK
  <2> QED  BY <1>0, <2>1, <2>2 DEF IInv, Accounting
<1>5. ParentsOutliveChildren'
  <2> SUFFICES ASSUME NEW p \in Objs, Alive(p)'
      PROVE /\ kind'[p] # "context" => Alive(context[p])' /\ kind'[context'[p]] = "context"
            /\ assoc'[p] # NoObj => Alive(assoc[p])' /\ assoc'[p] # p
    BY DEF ParentsOutliveChildren
  <2>1. /\ p # o /\ Alive(p) /\ kind'[p] = kind[p]
        /\ context'[p] = context[p] /\ assoc'[p] = assoc[p]
        /\ context[p] # o /\ assoc[p] # o
    BY DEF IInv, TypeOK, Alive
  <2>2. /\ kind[p] # "context" => Alive(context[p]) /\ kind[context[p]] = "context"
        /\ assoc[p] # NoObj => Alive(assoc[p]) /\ assoc[p] # p
    BY <2>1 DEF IInv, ParentsOutliveChildren
  <2>3. /\ Alive(context[p]) => Alive(context[p])' /\ kind'[context[p]] = kind[context[p]]
        /\ Alive(assoc[p]) => Alive(assoc[p])'
    BY <2>1 DEF Alive, IInv, TypeOK
  <2> QED  BY <2>1, <2>2, <2>3
<1>6. IInv'  BY <1>1, <1>2, <1>3, <1>4, <1>5 DEF IInv
<1>7. \A p \in Objs : extra[p] > 0 => kind'[p] = kind[p] /\ extra'[p] >= extra[p]
  BY <1>0 DEF IInv, TypeOK
<1> QED  BY <1>6, <1>7, PinsFromInvariant

-----------------------------------------------------------------------------
(* Every creator hands the driver live parents.                             *)
LEMMA CreationKeeps ==
  ASSUME IInv, Creation
  PROVE  IInv' /\ Pins
<1>1. PICK w \in Wrappers, o \in Objs :
        \/ CreateContext(w, o)
        \/ CreateContextFromType(w, o)
        \/ \E v \in Wrappers :
             \/ CreateCommandQueue(w, o, v)
             \/ CreateCommandQueueWithProperties(w, o, v)
             \/ CreateBuffer(w, o, v)
             \/ CreateSubBuffer(w, o, v)
             \/ CreatePipe(w, o, v)
             \/ CreateSampler(w, o, v)
             \/ CreateSamplerWithProperties(w, o, v)
             \/ CreateProgramWithSource(w, o, v)
             \/ CreateProgramWithBinary(w, o, v)
             \/ CreateProgramWithBuiltInKernels(w, o, v)
             \/ CreateKernel(w, o, v)
             \/ CreateUserEvent(w, o, v)
             \/ EnqueueWithEvent(w, o, v)
             \/ \E b \in Wrappers : CreateImage(w, o, v, b) \/ LinkProgram(w, o, v, b)
             \/ \E w2 \in Wrappers, o2 \in Objs : CreateKernelsInProgram(w, w2, o, o2, v)
  BY DEF Creation
<1> DEFINE Parented(k, c, a) ==
             /\ Create(w, o, k, c, a)
             /\ c \in Objs \cup {NoObj} /\ a \in Objs \cup {NoObj}
             /\ k # "context" => Alive(c) /\ kind[c] = "context"
             /\ a # NoObj => Alive(a)
<1>2. ASSUME NEW k, NEW c, NEW a, Parented(k, c, a) PROVE IInv' /\ Pins
  BY <1>2, CreateKeeps
<1>3. ASSUME NEW v \in Wrappers, Unwrap(v, "context")
      PROVE  Alive(raw[v]) /\ kind[raw[v]] = "context" /\ raw[v] \in Objs
  BY <1>3 DEF Unwrap, Valid, Alive
<1>4. ASSUME NEW v \in Wrappers, NEW k, k # "context", Unwrap(v, k)
      PROVE  /\ Alive(raw[v]) /\ raw[v] \in Objs
             /\ Alive(context[raw[v]]) /\ context[raw[v]] \in Objs
             /\ kind[context[raw[v]]] = "context"
  BY <1>4 DEF Unwrap, Valid, Alive, IInv, ParentsOutliveChildren
<1>5. CASE CreateContext(w, o) \/ CreateContextFromType(w, o)
  <2>1. Parented("context", NoObj, NoObj)
    BY <1>5 DEF CreateContext, CreateContextFromType
  <2> QED  BY <2>1, <1>2
<1>6. ASSUME NEW v \in Wrappers,
             \/ CreateCommandQueue(w, o, v)
             \/ CreateCommandQueueWithProperties(w, o, v)
             \/ CreateBuffer(w, o, v)
             \/ CreatePipe(w, o, v)
             \/ CreateSampler(w, o, v)
             \/ CreateSamplerWithProperties(w, o, v)
             \/ CreateProgramWithSource(w, o, v)
             \/ CreateProgramWithBinary(w, o, v)
             \/ CreateProgramWithBuiltInKernels(w, o, v)
             \/ CreateUserEvent(w, o, v)
      PROVE  IInv' /\ Pins
  <2>1. Unwrap(v, "context") /\ \E k : Create(w, o, k, raw[v], NoObj)
    BY <1>6 DEF CreateCommandQueue, CreateCommandQueueWithProperties, CreateBuffer,
       CreatePipe, CreateSampler, CreateSamplerWithProperties, CreateProgramWithSource,
       CreateProgramWithBinary, CreateProgramWithBuiltInKernels, CreateUserEvent
  <2>2. PICK k : Create(w, o, k, raw[v], NoObj)  BY <2>1
  <2>3. Parented(k, raw[v], NoObj)  BY <1>3, <2>1, <2>2
  <2> QED  BY <2>3, <1>2
<1>7. ASSUME NEW v \in Wrappers,
             CreateSubBuffer(w, o, v) \/ CreateKernel(w, o, v) \/ EnqueueWithEvent(w, o, v)
      PROVE  IInv' /\ Pins
  <2>1. \E k, j : k # "context" /\ Unwrap(v, k) /\ Create(w, o, j, context[raw[v]], raw[v])
    BY <1>7 DEF CreateSubBuffer, CreateKernel, EnqueueWithEvent
  <2>2. PICK k, j : k # "context" /\ Unwrap(v, k) /\ Create(w, o, j, context[raw[v]], raw[v])
    BY <2>1
  <2>3. Parented(j, context[raw[v]], raw[v])  BY <1>4, <2>2
  <2> QED  BY <2>3, <1>2
<1>8. ASSUME NEW v \in Wrappers, NEW b \in Wrappers,
             CreateImage(w, o, v, b) \/ LinkProgram(w, o, v, b)
      PROVE  IInv' /\ Pins
  <2>1. /\ Unwrap(v, "context")
        /\ \E k : \/ Create(w, o, k, raw[v], NoObj)
                  \/ Unwrap(b, "mem") /\ Create(w, o, k, raw[v], raw[b])
    BY <1>8 DEF CreateImage, LinkProgram
  <2>2. PICK k : \/ Create(w, o, k, raw[v], NoObj)
                 \/ Unwrap(b, "mem") /\ Create(w, o, k, raw[v], raw[b])
    BY <2>1
  <2>3. Parented(k, raw[v], NoObj) \/ Parented(k, raw[v], raw[b])
    BY <1>3, <1>4, <2>1, <2>2
  <2> QED  BY <2>3, <1>2
<1> QED  BY <1>1, <1>5, <1>6, <1>7, <1>8, KernelsKeep

(* No step of JS, of the collector or of the driver breaks the invariant.   *)
LEMMA NextKeeps ==
  ASSUME IInv, Next
  PROVE  IInv' /\ Pins
<1>1. CASE Creation  BY <1>1, CreationKeeps
<1>2. CASE Counting
  <2>1. PICK w \in Wrappers : \E k : Acquire(w, k) \/ (k # "none" /\ ReleaseHandle(w, k))
    BY <1>2 DEF Counting, RetainContext, RetainCommandQueue, RetainMemObject,
       RetainSampler, RetainProgram, RetainKernel, RetainEvent, ReleaseContext,
       ReleaseCommandQueue, ReleaseMemObject, ReleaseSampler, ReleaseProgram,
       ReleaseKernel, ReleaseEvent
  <2> QED  BY <2>1, AcquireKeeps, ReleaseKeeps
<1>3. CASE Query
  <2>1. \E w \in Wrappers : \E o : WrapRetained(w, o)
    BY <1>3 DEF Query, GetCommandQueueInfo, GetMemObjectInfo, GetImageInfo,
       GetProgramInfo, GetKernelInfo, GetEventInfo
  <2> QED  BY <2>1, WrapRetainedKeeps
<1>4. CASE \E w \in Wrappers : Collect(w)  BY <1>4, CollectKeeps
<1>5. CASE \E o \in Objs : DriverDestroy(o)  BY <1>5, DestroyKeeps
<1> QED  BY <1>1, <1>2, <1>3, <1>4, <1>5 DEF Next

(* The program starts without objects and wrappers.                        *)
LEMMA InitEstablishes == Init => IInv
<1> SUFFICES ASSUME Init PROVE IInv  OBVIOUS
<1>1. TypeOK  BY DEF Init, TypeOK
<1>2. \A o \in Objs : Owners(o) = {}  BY NoObjIsNoObject DEF Init, Owners
<1>3. \A o \in Objs : ~Alive(o)  BY DEF Init, Alive
<1>4. UnusedPlaces /\ UnreleasedValid /\ ParentsOutliveChildren
  BY <1>3 DEF Init, UnusedPlaces, UnreleasedValid, ParentsOutliveChildren
<1>5. Accounting  BY <1>2, <1>3 DEF Init, Accounting
<1> QED  BY <1>1, <1>4, <1>5 DEF IInv

(* The inductive invariant holds in every state.                           *)
THEOREM Invariance == Spec => []IInv
<1>1. ASSUME IInv, [Next]_vars PROVE IInv'
  <2>1. CASE UNCHANGED vars
    BY <1>1, <2>1 DEF vars, IInv, TypeOK, UnusedPlaces, UnreleasedValid, Accounting,
       ParentsOutliveChildren, Valid, Alive, Owners
  <2> QED  BY <1>1, <2>1, NextKeeps
<1> QED  BY <1>1, InitEstablishes, PTL DEF Spec

(* Every variable keeps its type: in particular no count goes below zero.  *)
THEOREM TypeCorrect == Spec => []TypeOK
<1>1. IInv => TypeOK  BY DEF IInv
<1> QED  BY <1>1, Invariance, PTL

(* The driver's count is the number of wrappers that still own a reference *)
(* plus the number of retain*() calls, for every live object.              *)
THEOREM AccountingHolds == Spec => []Accounting
<1>1. IInv => Accounting  BY DEF IInv
<1> QED  BY <1>1, Invariance, PTL

(* Releasing or collecting an unreleased wrapper never reaches a freed      *)
(* object, so the destructor's assert() never fires.                       *)
THEOREM LiveHandleHolds == Spec => []LiveHandle
<1>1. IInv => LiveHandle  BY OwnedIsReferenced DEF LiveHandle
<1> QED  BY <1>1, Invariance, PTL

(* Contexts, programs, buffers and queues outlive what was made from them:  *)
(* a get*Info() that answers with one never wraps a freed handle.          *)
THEOREM ParentsHold == Spec => []ParentsOutliveChildren
<1>1. IInv => ParentsOutliveChildren  BY DEF IInv
<1> QED  BY <1>1, Invariance, PTL

(* A retained object is never freed, whatever is released or collected.    *)
THEOREM RetainPins == Spec => RetainPinsForever
<1>1. ASSUME IInv, [Next]_vars PROVE [Pins]_vars
  BY <1>1, NextKeeps
<1> QED  BY <1>1, Invariance, PTL DEF Spec, RetainPinsForever, Pins
=============================================================================
