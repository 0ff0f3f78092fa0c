------------------------ MODULE BuildCallbackProofs -------------------------
(***************************************************************************)
(* Proofs about BuildCallback for any workers and other requests.  The      *)
(* invariant has two independent parts: the life of a worker, which needs   *)
(* no correct count, and the loop's count, which is right as long as what a  *)
(* thread has loaded is still the count when it stores.                     *)
(***************************************************************************)
EXTENDS BuildCallback, FiniteSetTheorems, TLAPS

(* Until the driver has posted the worker nothing else refers to it; then   *)
(* the pool does, or the callback that runs, or nobody.                    *)
WorkerLife(w) ==
  /\ driver[w] # "done" => work[w] = "none" /\ calls[w] = 0 /\ ~freed[w] /\ running # w
  /\ driver[w] = "done" =>
       \/ work[w] # "none" /\ calls[w] = 0 /\ ~freed[w] /\ running # w
       \/ work[w] = "none" /\ calls[w] = 1 /\ (freed[w] <=> running # w)

(* Requests that are out, and workers counted but not yet posted.           *)
Out == {r \in Workers \cup Requests : work[r] # "none"}
Counted == {w \in Workers : driver[w] = "counted"}

(* What the main thread is updating the count for: a request it has not yet   *)
(* posted, or one that the pool has done and that was on the count.         *)
MainUpdate ==
  updating # NoWorker =>
    \/ /\ running # NoWorker /\ work[updating] = "none"
       /\ updating \in Workers => driver[updating] = "none"
    \/ running = NoWorker /\ work[updating] = "executed" /\ loaded > 0

(* What a thread has loaded is the count.                                   *)
LoadedIsCount ==
  ~overlapped =>
    /\ \A w \in Loaded : seen[w] = reqs
    /\ updating # NoWorker => loaded = reqs

LifeInv == TypeOK /\ (\A w \in Workers : WorkerLife(w)) /\ MainUpdate

IInv == LifeInv /\ LoadedIsCount /\ WrongOnlyByOverlap

-----------------------------------------------------------------------------
(* Both sets are finite.                                                   *)
LEMMA OutFinite ==
  /\ IsFiniteSet(Out) /\ Cardinality(Out) \in Nat
  /\ IsFiniteSet(Counted) /\ Cardinality(Counted) \in Nat
<1>1. IsFiniteSet(Workers \cup Requests)  BY FinitelyMany, FS_Union
<1>2. Out \in SUBSET (Workers \cup Requests) /\ Counted \in SUBSET Workers
  BY DEF Out, Counted
<1> QED  BY <1>1, <1>2, FinitelyMany, FS_Subset, FS_CardinalityType

(* Nothing has been started.                                               *)
LEMMA InitEstablishes == Init => IInv
<1> SUFFICES ASSUME Init PROVE IInv  OBVIOUS
<1>1. TypeOK  BY DEF Init, TypeOK
<1>2. \A w \in Workers : WorkerLife(w)  BY NamesDiffer DEF Init, WorkerLife
<1>3. LoadedIsCount /\ MainUpdate  BY DEF Init, LoadedIsCount, Loaded, MainUpdate
<1>4. WrongOnlyByOverlap
  <2>1. Out = {} /\ Counted = {}  BY DEF Init, Out, Counted
  <2>2. Cardinality(Out) = 0 /\ Cardinality(Counted) = 0  BY <2>1, FS_EmptySet
  <2> QED  BY <2>2 DEF Init, WrongOnlyByOverlap, Out, Counted
<1> QED  BY <1>1, <1>2, <1>3, <1>4 DEF IInv, LifeInv

-----------------------------------------------------------------------------
(* The life of the workers                                                 *)

(* Every step keeps it, however the updates of the count interleave.        *)
LEMMA NextKeepsLife ==
  ASSUME LifeInv, [Next]_vars
  PROVE  LifeInv'
<1> USE DEF LifeInv, mainVars
<1>0. overlapped' \in BOOLEAN  BY DEF TypeOK, Next, Overlap, vars
<1>1. ASSUME NEW w \in Workers, Start(w) PROVE LifeInv'
  <2> USE <1>1 DEF Start, Load, InJS
  <2>1. TypeOK'
    <3>1. CASE Load(w)  BY <1>0, <3>1 DEF TypeOK
    <3>2. CASE UNCHANGED mainVars  BY <1>0, <3>2 DEF TypeOK
    <3> QED  BY <3>1, <3>2
  <2>2. \A v \in Workers : WorkerLife(v)'  BY DEF TypeOK, WorkerLife
  <2>3. MainUpdate'  BY DEF TypeOK, WorkerLife, MainUpdate
  <2> QED  BY <2>1, <2>2, <2>3
<1>2. ASSUME NEW w \in Workers, Finish(w) \/ NotifyLoad(w) \/ NotifyStore(w) \/ NotifyPost(w)
      PROVE  LifeInv'
  <2> USE <1>2 DEF Finish, NotifyLoad, NotifyStore, NotifyPost
  <2>1. TypeOK'
    <3>1. CASE Finish(w)  BY <1>0, <3>1 DEF TypeOK
    <3>2. CASE NotifyLoad(w)  BY <1>0, <3>2 DEF TypeOK
    <3>3. CASE NotifyStore(w)  BY <1>0, <3>3 DEF TypeOK
    <3>4. CASE NotifyPost(w)  BY <1>0, <3>4 DEF TypeOK
    <3> QED  BY <1>2, <3>1, <3>2, <3>3, <3>4
  <2>2. \A v \in Workers : WorkerLife(v)'  BY DEF TypeOK, WorkerLife
  <2>3. MainUpdate'  BY DEF TypeOK, WorkerLife, MainUpdate
  <2> QED  BY <2>1, <2>2, <2>3
<1>3. ASSUME NEW r \in Workers \cup Requests, StartRequest(r) \/ Execute(r)
      PROVE  LifeInv'
  <2> USE <1>3 DEF StartRequest, Execute, Load, InJS
  <2>1. TypeOK'  BY <1>0 DEF TypeOK
  <2>2. \A v \in Workers : WorkerLife(v)'  BY DEF TypeOK, WorkerLife
  <2>3. MainUpdate'  BY RequestsAreOther DEF TypeOK, MainUpdate
  <2> QED  BY <2>1, <2>2, <2>3
<1>4. ASSUME NEW r \in Workers \cup Requests, StartStore(r) PROVE LifeInv'
  <2> USE <1>4 DEF StartStore
  <2>0. r # NoWorker  BY NamesDiffer
  <2>1. TypeOK'
    <3>1. reqs' \in Nat  BY DEF TypeOK
    <3> QED  BY <1>0, <3>1 DEF TypeOK
  <2>2. \A v \in Workers : WorkerLife(v)'
    BY <2>0, RequestsAreOther DEF TypeOK, WorkerLife, MainUpdate
  <2>3. MainUpdate'  BY DEF MainUpdate
  <2> QED  BY <2>1, <2>2, <2>3
<1>5. ASSUME NEW r \in Workers \cup Requests, Complete(r) PROVE LifeInv'
  <2> USE <1>5 DEF Complete, InLoop, Load
  <2>1. TypeOK'
    <3>1. CASE reqs = 0  BY <1>0, <3>1 DEF TypeOK
    <3>2. CASE reqs # 0  BY <1>0, <3>2 DEF TypeOK
    <3> QED  BY <3>1, <3>2
  <2>2. \A v \in Workers : WorkerLife(v)'  BY DEF WorkerLife
  <2>3. MainUpdate'  BY DEF TypeOK, MainUpdate
  <2> QED  BY <2>1, <2>2, <2>3
<1>6. ASSUME NEW r \in Workers \cup Requests, CompleteStore(r) PROVE LifeInv'
  <2> USE <1>6 DEF CompleteStore
  <2>0. r # NoWorker /\ work[r] = "executed" /\ loaded > 0  BY NamesDiffer DEF MainUpdate
  <2>1. TypeOK'
    <3>1. reqs' \in Nat  BY <2>0 DEF TypeOK
    <3>2. running' \in Workers \cup {Script, NoWorker} /\ calls' \in [Workers -> Nat]
      BY DEF TypeOK
    <3> QED  BY <1>0, <3>1, <3>2 DEF TypeOK
  <2>2. \A v \in Workers : WorkerLife(v)'
    BY <2>0, RequestsAreOther, NamesDiffer DEF TypeOK, WorkerLife
  <2>3. MainUpdate'  BY DEF MainUpdate
  <2> QED  BY <2>1, <2>2, <2>3
<1>7. ASSUME ReturnToLoop PROVE LifeInv'
  <2> USE <1>7 DEF ReturnToLoop, InJS
  <2>1. TypeOK'  BY <1>0, NamesDiffer DEF TypeOK
  <2>2. \A v \in Workers : WorkerLife(v)'  BY NamesDiffer DEF TypeOK, WorkerLife
  <2>3. MainUpdate'  BY DEF MainUpdate
  <2> QED  BY <2>1, <2>2, <2>3
<1>8. ASSUME SwitchKeeper \/ NaturalExit \/ ForcedExit \/ UNCHANGED vars PROVE LifeInv'
  <2> USE <1>8 DEF SwitchKeeper, NaturalExit, ForcedExit, vars, system
  <2>1. TypeOK'  BY <1>0 DEF TypeOK
  <2>2. \A v \in Workers : WorkerLife(v)'  BY DEF WorkerLife
  <2>3. MainUpdate'  BY DEF MainUpdate
  <2> QED  BY <2>1, <2>2, <2>3
<1> QED
  BY <1>1, <1>2, <1>3, <1>4, <1>5, <1>6, <1>7, <1>8
     DEF Next, Step, BuildProgram, CompileProgram, LinkProgram, EnqueueSVMFree

-----------------------------------------------------------------------------
(* The loop's count                                                        *)

(* A step that does not change the count leaves a loaded count right: who   *)
(* loads now, loads it.                                                    *)
LEMMA LoadedStays ==
  ASSUME IInv, TypeOK', [Next]_vars, \A w \in Workers : seen'[w] = seen[w] \/ seen'[w] = reqs,
         \A w \in Loaded' : w \in Loaded \/ (seen'[w] = reqs /\ reqs' = reqs),
         updating' # NoWorker =>
           UNCHANGED mainVars \/ (loaded' = reqs /\ reqs' = reqs)
  PROVE  LoadedIsCount'
<1> SUFFICES ASSUME ~overlapped'
             PROVE  /\ \A w \in Loaded' : seen'[w] = reqs'
                    /\ updating' # NoWorker => loaded' = reqs'
  BY DEF LoadedIsCount
<1> USE DEF vars, system, mainVars
<1>1. ~overlapped  BY DEF Next, Overlap, TypeOK, IInv, LifeInv
<1>2. ASSUME NEW w \in Loaded' PROVE seen'[w] = reqs'
  <2>1. reqs' = reqs \/ w \notin Loaded
    BY <1>1, <1>2 DEF Next, Overlap, Loaded
  <2>2. w \in Loaded => seen[w] = reqs  BY <1>1 DEF IInv, LoadedIsCount
  <2>3. w \in Workers  BY <1>2 DEF Loaded
  <2> QED  BY <1>2, <2>1, <2>2, <2>3
<1>3. ASSUME updating' # NoWorker PROVE loaded' = reqs'
  <2>1. CASE loaded' = reqs /\ reqs' = reqs  BY <2>1
  <2>2. CASE UNCHANGED mainVars
    <3>1. reqs' = reqs  BY <1>1, <1>3, <2>2 DEF Next, Overlap
    <3> QED  BY <1>1, <1>3, <2>2, <3>1 DEF IInv, LoadedIsCount
  <2> QED  BY <1>3, <2>1, <2>2
<1> QED  BY <1>2, <1>3

(* The count and the two sets change together.                             *)
LEMMA CountStays ==
  ASSUME IInv, [Next]_vars, exited' = exited \/ exited' # "aborted",
         reqs' - reqs = Cardinality(Out') - Cardinality(Out)
                          + Cardinality(Counted') - Cardinality(Counted),
         TypeOK'
  PROVE  WrongOnlyByOverlap'
<1> SUFFICES ASSUME ~overlapped'
             PROVE  reqs' = Cardinality(Out') + Cardinality(Counted') /\ exited' # "aborted"
  BY DEF WrongOnlyByOverlap, Out, Counted
<1>1. ~overlapped  BY DEF Next, Overlap, vars, system, mainVars, TypeOK, IInv, LifeInv
<1>2. reqs = Cardinality(Out) + Cardinality(Counted) /\ exited # "aborted"
  BY <1>1 DEF IInv, WrongOnlyByOverlap, Out, Counted
<1>3. reqs \in Nat /\ reqs' \in Nat  BY DEF IInv, LifeInv, TypeOK
<1>4. Cardinality(Out') \in Nat /\ Cardinality(Counted') \in Nat
  <2>1. IsFiniteSet(Workers \cup Requests)  BY FinitelyMany, FS_Union
  <2>2. Out' \in SUBSET (Workers \cup Requests) /\ Counted' \in SUBSET Workers
    BY DEF Out, Counted
  <2> QED  BY <2>1, <2>2, FinitelyMany, FS_Subset, FS_CardinalityType
<1> QED  BY <1>2, <1>3, <1>4, OutFinite

(* Every step keeps the invariant.                                         *)
LEMMA NextKeeps ==
  ASSUME IInv, [Next]_vars
  PROVE  IInv'
<1> USE DEF mainVars
<1>0. LifeInv' /\ TypeOK /\ TypeOK'  BY NextKeepsLife DEF IInv, LifeInv
<1>f. /\ IsFiniteSet(Out) /\ Cardinality(Out) \in Nat
      /\ IsFiniteSet(Counted) /\ Cardinality(Counted) \in Nat
      /\ reqs \in Nat /\ reqs' \in Nat
  BY OutFinite, <1>0 DEF TypeOK
<1>o. overlapped => overlapped'
  BY DEF Next, Overlap, vars, system, IInv, LifeInv, TypeOK
<1>1. ASSUME NEW r \in Workers \cup Requests, (Start(r) /\ r \in Workers) \/ StartRequest(r)
      PROVE  IInv'
  <2> USE <1>1 DEF Start, StartRequest, Load, InJS
  <2>1. Out' = Out /\ Counted' = Counted  BY <1>0 DEF Out, Counted, TypeOK
  <2>2. LoadedIsCount'
    <3>1. \A v \in Loaded' : v \in Loaded  BY <1>0 DEF Loaded, TypeOK
    <3>2. UNCHANGED mainVars \/ (loaded' = reqs /\ reqs' = reqs)  OBVIOUS
    <3>3. UNCHANGED seen  OBVIOUS
    <3> QED  BY <1>0, <3>1, <3>2, <3>3, LoadedStays
  <2>3. WrongOnlyByOverlap'  BY <1>0, <1>f, <2>1, CountStays
  <2> QED  BY <1>0, <2>2, <2>3 DEF IInv
<1>2. ASSUME NEW w \in Workers, Finish(w) \/ NotifyLoad(w) PROVE IInv'
  <2> USE <1>2 DEF Finish, NotifyLoad
  <2>1. Out' = Out /\ Counted' = Counted  BY <1>0 DEF Out, Counted, TypeOK
  <2>2. LoadedIsCount'
    <3>1. \A v \in Loaded' : v \in Loaded \/ (seen'[v] = reqs /\ reqs' = reqs)
      BY <1>0 DEF Loaded, TypeOK
    <3>2. \A v \in Workers : seen'[v] = seen[v] \/ seen'[v] = reqs  BY <1>0 DEF TypeOK
    <3> QED  BY <1>0, <3>1, <3>2, LoadedStays
  <2>3. WrongOnlyByOverlap'  BY <1>0, <1>f, <2>1, CountStays
  <2> QED  BY <1>0, <2>2, <2>3 DEF IInv
<1>3. ASSUME NEW w \in Workers, NotifyStore(w) PROVE IInv'
  <2> USE <1>3 DEF NotifyStore
  <2>1. LoadedIsCount'
    <3>1. \A v \in Loaded' : v \in Loaded  BY <1>0 DEF Loaded, TypeOK
    <3> QED  BY <1>0, <3>1, LoadedStays
  <2>2. CASE overlapped
    BY <1>0, <1>o, <2>1, <2>2 DEF IInv, WrongOnlyByOverlap
  <2>3. CASE ~overlapped
    <3>1. seen[w] = reqs  BY <2>3 DEF IInv, LoadedIsCount, Loaded
    <3>2. Out' = Out /\ Counted' = Counted \cup {w} /\ w \notin Counted
      BY <1>0 DEF Out, Counted, TypeOK
    <3>3. Cardinality(Counted') = Cardinality(Counted) + 1  BY <3>2, <1>f, FS_AddElement
    <3>4. WrongOnlyByOverlap'  BY <1>0, <1>f, <3>1, <3>2, <3>3, CountStays
    <3> QED  BY <1>0, <2>1, <3>4 DEF IInv
  <2> QED  BY <2>2, <2>3, <1>0 DEF TypeOK
<1>4. ASSUME NEW w \in Workers, NotifyPost(w) PROVE IInv'
  <2> USE <1>4 DEF NotifyPost
  <2>1. LoadedIsCount'
    <3>1. \A v \in Loaded' : v \in Loaded  BY <1>0 DEF Loaded, TypeOK
    <3> QED  BY <1>0, <3>1, LoadedStays
  <2>2. /\ Out' = Out \cup {w} /\ w \notin Out
        /\ Counted' = Counted \ {w} /\ w \in Counted
    BY <1>0 DEF Out, Counted, TypeOK, IInv, LifeInv, WorkerLife
  <2>3. Cardinality(Out') = Cardinality(Out) + 1  BY <2>2, <1>f, FS_AddElement
  <2>4. Cardinality(Counted') = Cardinality(Counted) - 1  BY <2>2, <1>f, FS_RemoveElement
  <2>5. WrongOnlyByOverlap'  BY <1>0, <1>f, <2>3, <2>4, CountStays
  <2> QED  BY <1>0, <2>1, <2>5 DEF IInv
<1>5. ASSUME NEW r \in Workers \cup Requests, StartStore(r) PROVE IInv'
  <2> USE <1>5 DEF StartStore
  <2>0. r # NoWorker  BY NamesDiffer
  <2>1. LoadedIsCount'
    <3>1. \A v \in Loaded' : v \in Loaded  BY <1>0 DEF Loaded, TypeOK
    <3> QED  BY <1>0, <3>1, LoadedStays
  <2>2. CASE overlapped  BY <1>0, <1>o, <2>1, <2>2 DEF IInv, WrongOnlyByOverlap
  <2>3. CASE ~overlapped
    <3>1. loaded = reqs  BY <2>0, <2>3 DEF IInv, LoadedIsCount
    <3>2. Out' = Out \cup {r} /\ r \notin Out /\ Counted' = Counted
      BY <1>0, <2>0 DEF Out, Counted, TypeOK, IInv, LifeInv, MainUpdate
    <3>3. Cardinality(Out') = Cardinality(Out) + 1  BY <3>2, <1>f, FS_AddElement
    <3>4. WrongOnlyByOverlap'  BY <1>0, <1>f, <3>1, <3>2, <3>3, CountStays
    <3> QED  BY <1>0, <2>1, <3>4 DEF IInv
  <2> QED  BY <2>2, <2>3, <1>0 DEF TypeOK
<1>6. ASSUME NEW r \in Workers \cup Requests, Complete(r) PROVE IInv'
  <2> USE <1>6 DEF Complete, Load
  <2>1. LoadedIsCount'
    <3>1. \A v \in Loaded' : v \in Loaded  BY DEF Loaded
    <3>2. UNCHANGED mainVars \/ (loaded' = reqs /\ reqs' = reqs)  OBVIOUS
    <3> QED  BY <1>0, <3>1, <3>2, LoadedStays
  <2>2. r \in Out /\ Out' = Out /\ Counted' = Counted  BY DEF Out, Counted
  <2>3. CASE reqs = 0
    <3>1. Cardinality(Out) # 0  BY <2>2, <1>f, FS_EmptySet
    <3>2. overlapped  BY <3>1, <2>3, <1>0, <1>f DEF IInv, WrongOnlyByOverlap, Out, Counted, TypeOK
    <3> QED  BY <1>0, <1>o, <2>1, <3>2 DEF IInv, WrongOnlyByOverlap
  <2>4. CASE reqs # 0
    <3>1. WrongOnlyByOverlap'  BY <1>0, <1>f, <2>2, <2>4, CountStays
    <3> QED  BY <1>0, <2>1, <3>1 DEF IInv
  <2> QED  BY <2>3, <2>4
<1>7. ASSUME NEW r \in Workers \cup Requests, CompleteStore(r) PROVE IInv'
  <2> USE <1>7 DEF CompleteStore
  <2>0. r # NoWorker  BY NamesDiffer
  <2>1. LoadedIsCount'
    <3>1. \A v \in Loaded' : v \in Loaded  BY DEF Loaded
    <3> QED  BY <1>0, <3>1, LoadedStays
  <2>2. CASE overlapped  BY <1>0, <1>o, <2>1, <2>2 DEF IInv, WrongOnlyByOverlap
  <2>3. CASE ~overlapped
    <3>1. loaded = reqs  BY <2>0, <2>3 DEF IInv, LoadedIsCount
    <3>2. Out' = Out \ {r} /\ r \in Out /\ Counted' = Counted
      BY <1>0, <2>0 DEF Out, Counted, TypeOK, IInv, LifeInv, MainUpdate
    <3>3. Cardinality(Out') = Cardinality(Out) - 1  BY <3>2, <1>f, FS_RemoveElement
    <3>4. WrongOnlyByOverlap'  BY <1>0, <1>f, <3>1, <3>2, <3>3, CountStays
    <3> QED  BY <1>0, <2>1, <3>4 DEF IInv
  <2> QED  BY <2>2, <2>3, <1>0 DEF TypeOK
<1>8. ASSUME \/ \E r \in Workers \cup Requests : Execute(r)
             \/ ReturnToLoop \/ SwitchKeeper \/ NaturalExit \/ ForcedExit \/ UNCHANGED vars
      PROVE  IInv'
  <2> USE <1>8 DEF Execute, ReturnToLoop, SwitchKeeper, NaturalExit, ForcedExit, vars, system
  <2>1. UNCHANGED <<reqs, mainVars, driver, seen>> /\ (exited' = exited \/ exited' # "aborted")
    OBVIOUS
  <2>2. Out' = Out /\ Counted' = Counted  BY <1>0 DEF Out, Counted, TypeOK
  <2>3. LoadedIsCount'
    <3>1. \A v \in Loaded' : v \in Loaded  BY <2>1 DEF Loaded
    <3> QED  BY <1>0, <2>1, <3>1, LoadedStays
  <2>4. WrongOnlyByOverlap'  BY <1>0, <1>f, <2>1, <2>2, CountStays
  <2> QED  BY <1>0, <2>3, <2>4 DEF IInv
<1> QED
  BY <1>1, <1>2, <1>3, <1>4, <1>5, <1>6, <1>7, <1>8
     DEF Next, Step, BuildProgram, CompileProgram, LinkProgram, EnqueueSVMFree

(* IInv holds in every reachable state.                                     *)
THEOREM Invariance == SafeSpec => []IInv
<1> QED  BY InitEstablishes, NextKeeps, PTL DEF SafeSpec

(* The state of the build callbacks keeps its type.                         *)
THEOREM TypeCorrect == Spec => []TypeOK
<1>1. IInv => TypeOK  BY DEF IInv, LifeInv
<1> QED  BY <1>1, Invariance, PTL DEF Spec

(* program.cpp:173-211, svm.cpp:68-107: the callback once, after the driver   *)
(* and the pool are done with the worker, and its deletion after that.      *)
THEOREM CalledOnceThenFreedHolds == Spec => []CalledOnceThenFreed
<1>1. IInv => CalledOnceThenFreed
  BY DEF IInv, LifeInv, TypeOK, WorkerLife, CalledOnceThenFreed
<1> QED  BY <1>1, Invariance, PTL DEF Spec

(* Only an update of the loop's count inside another makes it wrong or libuv *)
(* abort.                                                                  *)
THEOREM WrongOnlyByOverlapHolds == Spec => []WrongOnlyByOverlap
<1>1. IInv => WrongOnlyByOverlap  BY DEF IInv
<1> QED  BY <1>1, Invariance, PTL DEF Spec

-----------------------------------------------------------------------------
(* The driver is done with w: what ready maps to.                          *)
Notified(w) == driver[w] \in {"finished", "loaded", "counted", "done"}

(* The initial states are those of CallbackOnce.                           *)
LEMMA InitMaps == Init => Once!Init
<1> SUFFICES ASSUME Init PROVE Once!Init  OBVIOUS
<1>1. \A w \in Workers : Promise(w) = "idle" /\ Notified(w) = FALSE
  BY DEF Init, Promise, Notified
<1>2. [w \in Workers |-> Promise(w)] = [w \in Workers |-> "idle"]  BY <1>1
<1>3. [w \in Workers |-> Notified(w)] = [w \in Workers |-> FALSE]  BY <1>1, Zenon
<1> QED  BY <1>2, <1>3 DEF Init, Notified, Once!Init

(* The mapped functions change where the promises and the readiness do.     *)
LEMMA MapsAt ==
  ASSUME NEW w \in Workers,
         \A v \in Workers : v # w => driver'[v] = driver[v] /\ calls'[v] = calls[v]
  PROVE  /\ [v \in Workers |-> Promise(v)]'
              = [[v \in Workers |-> Promise(v)] EXCEPT ![w] = Promise(w)']
         /\ [v \in Workers |-> Notified(v)]'
              = [[v \in Workers |-> Notified(v)] EXCEPT ![w] = Notified(w)']
<1>1. \A v \in Workers : v # w => Promise(v)' = Promise(v)  BY DEF Promise
<1>2. \A v \in Workers : v # w => (Notified(v)' = Notified(v))  BY DEF Notified
<1>3. [v \in Workers |-> Promise(v)]'
        = [[v \in Workers |-> Promise(v)] EXCEPT ![w] = Promise(w)']
  BY <1>1, Zenon
<1>4. [v \in Workers |-> Notified(v)]'
        = [[v \in Workers |-> Notified(v)] EXCEPT ![w] = Notified(w)']
  BY <1>2, Zenon
<1> QED  BY <1>3, <1>4

(* A step that changes no promise, no readiness and no end is a stutter.    *)
LEMMA StutterMaps ==
  ASSUME \A w \in Workers : Promise(w)' = Promise(w),
         \A w \in Workers : Notified(w)' = Notified(w),
         UNCHANGED exited
  PROVE  UNCHANGED Once!vars
<1>1. [w \in Workers |-> Promise(w)]' = [w \in Workers |-> Promise(w)]  BY Zenon
<1>2. [w \in Workers |-> Notified(w)]' = [w \in Workers |-> Notified(w)]  BY Zenon
<1> QED  BY <1>1, <1>2, Zenon DEF Once!vars, Notified

(* Every step of BuildCallback is a step of CallbackOnce or a stutter.       *)
LEMMA StepMaps ==
  ASSUME IInv, [Next]_vars
  PROVE  [Once!Next]_Once!vars
<1> USE DEF mainVars
<1>0. TypeOK  BY DEF IInv, LifeInv
<1>1. ASSUME NEW w \in Workers, Start(w) PROVE [Once!Next]_Once!vars
  <2> USE <1>1 DEF Start
  <2>1. calls[w] = 0 /\ exited = "no" /\ UNCHANGED <<calls, exited>>
    BY <1>0 DEF InJS, IInv, LifeInv, WorkerLife
  <2>2. Promise(w) = "idle" /\ Notified(w) = FALSE  BY <2>1 DEF Promise, Notified
  <2>3. CASE driver' = [driver EXCEPT ![w] = "working"] \/ UNCHANGED driver
    <3>1. \A v \in Workers : Notified(v)' = Notified(v)
      BY <1>0, <2>3 DEF TypeOK, Notified
    <3>2. CASE UNCHANGED driver
      <4>1. \A v \in Workers : Promise(v)' = Promise(v)  BY <2>1, <3>2 DEF Promise
      <4> QED  BY <2>1, <3>1, <4>1, StutterMaps
    <3>3. CASE driver' = [driver EXCEPT ![w] = "working"]
      <4>1. Promise(w)' = "waiting" /\ \A v \in Workers : v # w => driver'[v] = driver[v]
        BY <1>0, <2>1, <3>3 DEF TypeOK, Promise
      <4>2. [v \in Workers |-> Promise(v)]'
              = [[v \in Workers |-> Promise(v)] EXCEPT ![w] = "waiting"]
        BY <2>1, <4>1, MapsAt
      <4>3. [v \in Workers |-> Promise(v)][w] = "idle"  BY <2>2
      <4>4. [v \in Workers |-> Notified(v)]' = [v \in Workers |-> Notified(v)]
        BY <3>1, Zenon
      <4>5. Once!Register(w)  BY <2>1, <4>2, <4>3, <4>4 DEF Once!Register, Notified
      <4> QED  BY <4>5 DEF Once!Next
    <3> QED  BY <2>3, <3>2, <3>3
  <2>4. CASE driver' = [driver EXCEPT ![w] = "refused"]
    <3>1. Promise(w)' = "refused" /\ \A v \in Workers : v # w => driver'[v] = driver[v]
      BY <1>0, <2>1, <2>4 DEF TypeOK, Promise
    <3>2. \A v \in Workers : Notified(v)' = Notified(v)
      BY <1>0, <2>4 DEF TypeOK, Notified
    <3>3. [v \in Workers |-> Promise(v)]'
            = [[v \in Workers |-> Promise(v)] EXCEPT ![w] = "refused"]
      BY <2>1, <3>1, MapsAt
    <3>4. [v \in Workers |-> Promise(v)][w] = "idle"  BY <2>2
    <3>5. [v \in Workers |-> Notified(v)]' = [v \in Workers |-> Notified(v)]
      BY <3>2, Zenon
    <3>6. Once!Refuse(w)  BY <2>1, <3>3, <3>4, <3>5 DEF Once!Refuse, Notified
    <3> QED  BY <3>6 DEF Once!Next
  <2> QED  BY <2>3, <2>4
<1>2. ASSUME NEW w \in Workers, StartStore(w) PROVE Once!Next
  <2> USE <1>2 DEF StartStore
  <2>1. /\ driver[w] = "none" /\ calls[w] = 0 /\ exited = "no" /\ UNCHANGED <<calls, exited>>
        /\ driver' = [driver EXCEPT ![w] = "done"]
    BY NamesDiffer DEF IInv, LifeInv, WorkerLife, MainUpdate
  <2>2. Promise(w) = "idle" /\ Promise(w)' = "waiting" /\ Notified(w)' = TRUE
    BY <1>0, <2>1 DEF TypeOK, Promise, Notified
  <2>3. \A v \in Workers : v # w => driver'[v] = driver[v]  BY <2>1, <1>0 DEF TypeOK
  <2>4. /\ [v \in Workers |-> Promise(v)]'
             = [[v \in Workers |-> Promise(v)] EXCEPT ![w] = "waiting"]
        /\ [v \in Workers |-> Notified(v)]'
             = [[v \in Workers |-> Notified(v)] EXCEPT ![w] = TRUE]
    BY <2>1, <2>2, <2>3, MapsAt
  <2>5. [v \in Workers |-> Promise(v)][w] = "idle"  BY <2>2
  <2>6. Once!Register(w)  BY <2>1, <2>4, <2>5 DEF Once!Register, Notified
  <2> QED  BY <2>6 DEF Once!Next
<1>3. ASSUME NEW w \in Workers, Finish(w) PROVE Once!Next
  <2> USE <1>3 DEF Finish
  <2>1. calls[w] = 0 /\ UNCHANGED <<calls, exited>>
    BY <1>0 DEF IInv, LifeInv, WorkerLife
  <2>2. \A v \in Workers : Promise(v)' = Promise(v)  BY <1>0, <2>1 DEF TypeOK, Promise
  <2>3. [v \in Workers |-> Promise(v)]' = [v \in Workers |-> Promise(v)]  BY <2>2, Zenon
  <2>4. [v \in Workers |-> Promise(v)][w] = "waiting"  BY <2>1 DEF Promise
  <2>5. [v \in Workers |-> Notified(v)]'
          = [v \in Workers |-> [u \in Workers |-> Notified(u)][v] \/ v \in {w}]
    <3>1. \A v \in Workers : [u \in Workers |-> Notified(u)][v] = Notified(v)  BY Zenon
    <3>2. \A v \in Workers : Notified(v)' = (Notified(v) \/ v \in {w})
      BY <1>0 DEF TypeOK, Notified
    <3>3. \A v \in Workers : Notified(v)' = ([u \in Workers |-> Notified(u)][v] \/ v \in {w})
      BY <3>1, <3>2, Zenon
    <3> QED  BY <3>3, Zenon
  <2>6. {w} \in SUBSET {v \in Workers : [u \in Workers |-> Promise(u)][v] = "waiting"}
    BY <2>4
  <2>7. Once!Occur  BY <2>1, <2>3, <2>5, <2>6 DEF Once!Occur, Notified
  <2> QED  BY <2>7 DEF Once!Next
<1>4. ASSUME NEW r \in Workers \cup Requests, Complete(r), reqs = 0 PROVE Once!Next
  <2> USE <1>4 DEF Complete
  <2>1. exited = "no" /\ UNCHANGED <<driver, calls>> /\ exited' = "aborted"  BY DEF InLoop
  <2>2. \A w \in Workers : Promise(w)' = Promise(w) /\ (Notified(w)' = Notified(w))
    BY <2>1 DEF Promise, Notified
  <2>3. [w \in Workers |-> Promise(w)]' = [w \in Workers |-> Promise(w)]  BY <2>2, Zenon
  <2>4. [w \in Workers |-> Notified(w)]' = [w \in Workers |-> Notified(w)]  BY <2>2, Zenon
  <2>5. Once!End  BY <2>1, <2>3, <2>4 DEF Once!End, Notified
  <2> QED  BY <2>5 DEF Once!Next
<1>5. ASSUME NEW r \in Workers, CompleteStore(r) PROVE Once!Next
  <2> USE <1>5 DEF CompleteStore
  <2>0. exited = "no" /\ UNCHANGED <<driver, exited>>  OBVIOUS
  <2>1. driver[r] = "done" /\ calls[r] = 0
    BY NamesDiffer DEF IInv, LifeInv, WorkerLife, MainUpdate
  <2>2. calls'[r] = 1 /\ (\A v \in Workers : v # r => calls'[v] = calls[v])
    BY <2>1, <1>0 DEF TypeOK
  <2>3. Promise(r) = "waiting" /\ Promise(r)' = "called"  BY <2>1, <2>2 DEF Promise
  <2>4. [v \in Workers |-> Promise(v)]'
          = [[v \in Workers |-> Promise(v)] EXCEPT ![r] = "called"]
    BY <2>0, <2>2, <2>3, MapsAt
  <2>5. [v \in Workers |-> Promise(v)][r] = "waiting"  BY <2>3
  <2>6. [v \in Workers |-> Notified(v)][r]  BY <2>1 DEF Notified
  <2>7. [v \in Workers |-> Notified(v)]' = [v \in Workers |-> Notified(v)]
    <3>1. \A v \in Workers : Notified(v)' = Notified(v)  BY <2>0 DEF Notified
    <3> QED  BY <3>1, Zenon
  <2>8. Once!Call(r)  BY <2>0, <2>4, <2>5, <2>6, <2>7 DEF Once!Call, Notified
  <2> QED  BY <2>8 DEF Once!Next
<1>6. ASSUME NaturalExit \/ ForcedExit PROVE Once!Next
  <2>1. UNCHANGED <<driver, calls>> /\ exited = "no" /\ exited' # "no"
    BY <1>6 DEF NaturalExit, ForcedExit, InLoop
  <2>2. \A w \in Workers : Promise(w)' = Promise(w) /\ (Notified(w)' = Notified(w))
    BY <2>1 DEF Promise, Notified
  <2>3. [w \in Workers |-> Promise(w)]' = [w \in Workers |-> Promise(w)]  BY <2>2, Zenon
  <2>4. [w \in Workers |-> Notified(w)]' = [w \in Workers |-> Notified(w)]  BY <2>2, Zenon
  <2>5. Once!End  BY <2>1, <2>3, <2>4 DEF Once!End, Notified
  <2> QED  BY <2>5 DEF Once!Next
<1>7. ASSUME NEW w \in Workers, NotifyLoad(w) \/ NotifyStore(w) \/ NotifyPost(w)
      PROVE  UNCHANGED Once!vars
  <2>1. UNCHANGED <<calls, exited>>  BY <1>7 DEF NotifyLoad, NotifyStore, NotifyPost
  <2>2. \A v \in Workers : Promise(v)' = Promise(v)
    BY <1>0, <1>7, <2>1 DEF NotifyLoad, NotifyStore, NotifyPost, Promise, TypeOK
  <2>3. \A v \in Workers : Notified(v)' = Notified(v)
    BY <1>0, <1>7 DEF NotifyLoad, NotifyStore, NotifyPost, Notified, TypeOK
  <2> QED  BY <2>1, <2>2, <2>3, StutterMaps
<1>8. ASSUME \/ \E r \in Requests : StartRequest(r) \/ StartStore(r) \/ CompleteStore(r)
             \/ \E r \in Workers \cup Requests : Execute(r) \/ (Complete(r) /\ reqs # 0)
             \/ ReturnToLoop \/ SwitchKeeper \/ UNCHANGED vars
      PROVE  UNCHANGED Once!vars
  <2>1. UNCHANGED <<driver, calls, exited>>
    BY <1>8, RequestsAreOther DEF StartRequest, StartStore, CompleteStore, Execute, Complete,
       ReturnToLoop, SwitchKeeper, vars, system
  <2>2. \A w \in Workers : Promise(w)' = Promise(w) /\ (Notified(w)' = Notified(w))
    BY <2>1 DEF Promise, Notified
  <2> QED  BY <2>1, <2>2, StutterMaps
<1> QED
  BY <1>1, <1>2, <1>3, <1>4, <1>5, <1>6, <1>7, <1>8
     DEF Next, Step, BuildProgram, CompileProgram, LinkProgram, EnqueueSVMFree

(* The safety half of the refinement: as long as the process goes on, what   *)
(* JS sees of a build's callback is a behaviour of CallbackOnce, lost        *)
(* updates of the loop's count included.                                   *)
THEOREM ImplementsOnceSafely == SafeSpec => Once!SafeSpec
<1> QED  BY InitMaps, StepMaps, Invariance, PTL DEF SafeSpec, Once!SafeSpec
=============================================================================
