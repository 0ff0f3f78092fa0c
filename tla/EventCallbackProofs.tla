------------------------ MODULE EventCallbackProofs ------------------------
(***************************************************************************)
(* Proofs about EventCallback for any workers and events.  The inductive    *)
(* invariant says where the one pointer to a worker is: with the driver, in *)
(* the marked async handle, in the pool, or with the JS callback; and what  *)
(* the stored status has to do with the event's.                           *)
(***************************************************************************)
EXTENDS EventCallback, TLAPS

(* Before and after its registration nothing refers to a worker; in between *)
(* exactly one of driver, handle, pool and main thread does.               *)
OnePointer(w) ==
  /\ handle[w] = "none" => event[w] = NoEvent
  /\ handle[w] # "none" => event[w] \in Events
  /\ handle[w] = "none" => notifier[w] = "none"
  /\ notifier[w] = "none" => handle[w] \in {"none", "active"}
  /\ notifier[w] \in {"armed", "stored"} => handle[w] = "active"
  /\ notifier[w] # "done" =>
       ~pending[w] /\ work[w] = "none" /\ calls[w] = 0 /\ running # w
  /\ notifier[w] = "done" =>
       \/ pending[w] /\ work[w] = "none" /\ calls[w] = 0 /\ handle[w] = "active" /\ running # w
       \/ ~pending[w] /\ work[w] # "none" /\ calls[w] = 0 /\ handle[w] = "active" /\ running # w
       \/ /\ ~pending[w] /\ work[w] = "none" /\ calls[w] = 1
          /\ handle[w] = "active" <=> running = w
          /\ handle[w] # "none"

(* The status stored for JS lies between the event's and the level.         *)
StoredStatus(w) ==
  /\ notifier[w] \in {"stored", "done"} =>
       /\ stored[w] <= level[w] /\ status[event[w]] <= stored[w]
       /\ stored[w] >= 0 => stored[w] = level[w]
  /\ calls[w] > 0 => passed[w] = JS_INT(stored[w])

(* A loop that ended by itself has nothing left.                           *)
DryAtEnd == exited = "natural" => ~LoopAlive

IInv ==
  /\ TypeOK
  /\ \A w \in Workers : OnePointer(w)
  /\ \A w \in Workers : StoredStatus(w)
  /\ DryAtEnd

-----------------------------------------------------------------------------
(* Nothing has been registered at the start.                               *)
LEMMA InitEstablishes == Init => IInv
<1> USE DEF Statuses, Levels, Error, Complete, Running, Submitted, Queued
<1> SUFFICES ASSUME Init PROVE IInv  OBVIOUS
<1>1. TypeOK
  <2>1. JS_INT(0) = 0 /\ 0 \in Statuses  BY DEF JS_INT
  <2>2. 0 \in {JS_INT(s) : s \in Statuses}  BY <2>1, Zenon
  <2> QED  BY <2>2 DEF Init, TypeOK
<1>2. \A w \in Workers : OnePointer(w) /\ StoredStatus(w)
  BY NamesDiffer DEF Init, OnePointer, StoredStatus
<1>3. DryAtEnd  BY DEF Init, DryAtEnd
<1> QED  BY <1>1, <1>2, <1>3 DEF IInv

(* A status only goes down, so a level once reached stays reached.          *)
LEMMA StatusFalls ==
  ASSUME IInv, [Next]_vars
  PROVE  \A e \in Events : status'[e] <= status[e]
<1> USE DEF Statuses, Levels, Error, Complete, Running, Submitted, Queued, TypeOK, IInv
<1>1. ASSUME NEW e \in Events, Progress(e) PROVE \A d \in Events : status'[d] <= status[d]
  BY <1>1 DEF Progress
<1>2. ASSUME NEW e \in Events, NEW s \in Statuses, SetUserEventStatus(e, s)
      PROVE  \A d \in Events : status'[d] <= status[d]
  BY <1>2 DEF SetUserEventStatus
<1>3. CASE UNCHANGED status  BY <1>3
<1> QED
  BY <1>1, <1>2, <1>3 DEF Next, SetEventCallback, ReturnToLoop, NotifyStore, NotifySend,
     Dispatch, Execute, HandleOKCallback, DeleteAsyncHandle, NaturalExit, ForcedExit, vars

(* Every step keeps the inductive invariant.                               *)
LEMMA NextKeeps ==
  ASSUME IInv, [Next]_vars
  PROVE  IInv'
<1> USE DEF regVars, queueVars, callVars
<1>1. ASSUME NEW w \in Workers, NEW e \in Events, NEW l \in Levels, SetEventCallback(w, e, l)
      PROVE  IInv'
  <2> USE <1>1 DEF SetEventCallback
  <2>1. TypeOK'  BY DEF IInv, TypeOK
  <2>2. \A v \in Workers : OnePointer(v)'
    BY NamesDiffer, UserEventsAreEvents DEF IInv, TypeOK, OnePointer
  <2>3. \A v \in Workers : StoredStatus(v)'  BY DEF IInv, TypeOK, OnePointer, StoredStatus
  <2>4. DryAtEnd'  BY DEF InJS, DryAtEnd
  <2> QED  BY <2>1, <2>2, <2>3, <2>4 DEF IInv
<1>2. ASSUME NEW e \in Events, NEW s \in Statuses, SetUserEventStatus(e, s) PROVE IInv'
  <2> USE <1>2 DEF SetUserEventStatus
  <2>1. TypeOK'  BY DEF IInv, TypeOK
  <2>2. \A v \in Workers : OnePointer(v)'  BY DEF IInv, OnePointer
  <2>3. \A v \in Workers : StoredStatus(v)'
    <3>1. \A d \in Events : status'[d] <= status[d]  BY StatusFalls, <1>2 DEF Next
    <3> QED  BY <3>1, <2>1 DEF IInv, TypeOK, OnePointer, StoredStatus, Statuses, Levels,
                Error, Complete, Running, Submitted, Queued
  <2>4. DryAtEnd'  BY DEF InJS, DryAtEnd
  <2> QED  BY <2>1, <2>2, <2>3, <2>4 DEF IInv
<1>3. ASSUME ReturnToLoop PROVE IInv'
  <2> USE <1>3 DEF ReturnToLoop
  <2>1. TypeOK'  BY DEF IInv, TypeOK
  <2>2. \A v \in Workers : OnePointer(v)'  BY NamesDiffer DEF IInv, TypeOK, OnePointer, InJS
  <2>3. \A v \in Workers : StoredStatus(v)'  BY DEF IInv, StoredStatus
  <2>4. DryAtEnd'  BY DEF InJS, DryAtEnd
  <2> QED  BY <2>1, <2>2, <2>3, <2>4 DEF IInv
<1>4. ASSUME NEW e \in Events, Progress(e) PROVE IInv'
  <2> USE <1>4 DEF Progress
  <2>1. TypeOK'
    BY DEF IInv, TypeOK, Statuses, Error, Complete, Running, Submitted, Queued
  <2>2. \A v \in Workers : OnePointer(v)'  BY DEF IInv, OnePointer
  <2>3. \A v \in Workers : StoredStatus(v)'
    <3>1. \A d \in Events : status'[d] <= status[d]  BY StatusFalls, <1>4 DEF Next
    <3> QED  BY <3>1, <2>1 DEF IInv, TypeOK, OnePointer, StoredStatus, Statuses, Levels,
                Error, Complete, Running, Submitted, Queued
  <2>4. DryAtEnd'  BY DEF IInv, DryAtEnd, LoopAlive
  <2> QED  BY <2>1, <2>2, <2>3, <2>4 DEF IInv
<1>5. ASSUME NEW w \in Workers, NotifyStore(w) PROVE IInv'
  <2> USE <1>5 DEF NotifyStore, Reached
  <2>0. event[w] \in Events /\ handle[w] = "active"  BY DEF IInv, OnePointer
  <2>1. TypeOK'
    BY <2>0 DEF IInv, TypeOK, Statuses, Levels, Error, Complete, Running, Submitted, Queued
  <2>2. \A v \in Workers : OnePointer(v)'  BY DEF IInv, TypeOK, OnePointer
  <2>3. \A v \in Workers : StoredStatus(v)'
    BY <2>0 DEF IInv, TypeOK, OnePointer, StoredStatus, Statuses, Levels,
       Error, Complete, Running, Submitted, Queued
  <2>4. DryAtEnd'  BY DEF IInv, DryAtEnd, LoopAlive
  <2> QED  BY <2>1, <2>2, <2>3, <2>4 DEF IInv
<1>6. ASSUME NEW w \in Workers, NotifySend(w) PROVE IInv'
  <2> USE <1>6 DEF NotifySend
  <2>1. TypeOK'  BY DEF IInv, TypeOK
  <2>2. \A v \in Workers : OnePointer(v)'  BY DEF IInv, TypeOK, OnePointer
  <2>3. \A v \in Workers : StoredStatus(v)'  BY DEF IInv, TypeOK, StoredStatus
  <2>4. DryAtEnd'  BY DEF IInv, DryAtEnd, LoopAlive
  <2> QED  BY <2>1, <2>2, <2>3, <2>4 DEF IInv
<1>7. ASSUME NEW w \in Workers, Dispatch(w) PROVE IInv'
  <2> USE <1>7 DEF Dispatch
  <2>1. TypeOK'  BY DEF IInv, TypeOK
  <2>2. \A v \in Workers : OnePointer(v)'  BY DEF IInv, TypeOK, OnePointer
  <2>3. \A v \in Workers : StoredStatus(v)'  BY DEF IInv, StoredStatus
  <2>4. DryAtEnd'  BY DEF InLoop, DryAtEnd
  <2> QED  BY <2>1, <2>2, <2>3, <2>4 DEF IInv
<1>8. ASSUME NEW w \in Workers, Execute(w) PROVE IInv'
  <2> USE <1>8 DEF Execute
  <2>1. TypeOK'  BY DEF IInv, TypeOK
  <2>2. \A v \in Workers : OnePointer(v)'  BY DEF IInv, TypeOK, OnePointer
  <2>3. \A v \in Workers : StoredStatus(v)'  BY DEF IInv, StoredStatus
  <2>4. DryAtEnd'  BY DEF IInv, TypeOK, DryAtEnd, LoopAlive
  <2> QED  BY <2>1, <2>2, <2>3, <2>4 DEF IInv
<1>9. ASSUME NEW w \in Workers, HandleOKCallback(w) PROVE IInv'
  <2> USE <1>9 DEF HandleOKCallback
  <2>1. TypeOK'  BY DEF IInv, TypeOK
  <2>2. \A v \in Workers : OnePointer(v)'
    BY NamesDiffer DEF IInv, TypeOK, OnePointer, InLoop
  <2>3. \A v \in Workers : StoredStatus(v)'  BY DEF IInv, TypeOK, StoredStatus
  <2>4. DryAtEnd'  BY DEF InLoop, DryAtEnd
  <2> QED  BY <2>1, <2>2, <2>3, <2>4 DEF IInv
<1>10. ASSUME NEW w \in Workers, DeleteAsyncHandle(w) PROVE IInv'
  <2> USE <1>10 DEF DeleteAsyncHandle
  <2>1. TypeOK'  BY DEF IInv, TypeOK
  <2>2. \A v \in Workers : OnePointer(v)'  BY NamesDiffer DEF IInv, TypeOK, OnePointer
  <2>3. \A v \in Workers : StoredStatus(v)'  BY DEF IInv, StoredStatus
  <2>4. DryAtEnd'  BY DEF InLoop, DryAtEnd
  <2> QED  BY <2>1, <2>2, <2>3, <2>4 DEF IInv
<1>11. ASSUME NaturalExit \/ ForcedExit \/ UNCHANGED vars PROVE IInv'
  <2> USE <1>11 DEF NaturalExit, ForcedExit, vars
  <2>1. TypeOK'  BY DEF IInv, TypeOK
  <2>2. \A v \in Workers : OnePointer(v)'  BY DEF IInv, OnePointer
  <2>3. \A v \in Workers : StoredStatus(v)'  BY DEF IInv, StoredStatus
  <2>4. DryAtEnd'  BY DEF IInv, DryAtEnd, LoopAlive
  <2> QED  BY <2>1, <2>2, <2>3, <2>4 DEF IInv
<1> QED
  BY <1>1, <1>2, <1>3, <1>4, <1>5, <1>6, <1>7, <1>8, <1>9, <1>10, <1>11 DEF Next

(* The inductive invariant holds in every state.                           *)
THEOREM Invariance == SafeSpec => []IInv
<1> QED  BY InitEstablishes, NextKeeps, PTL DEF SafeSpec

(* Every variable keeps its type.                                          *)
THEOREM TypeCorrect == SafeSpec => []TypeOK
<1>1. IInv => TypeOK  BY DEF IInv
<1> QED  BY <1>1, Invariance, PTL

(* event.cpp:224: JS receives the level its event has reached, or, when the  *)
(* event has failed, the error as an unsigned number.                      *)
THEOREM DeliveredStatusHolds == SafeSpec => []DeliveredStatus
<1>1. IInv => DeliveredStatus
  <2> SUFFICES ASSUME IInv, NEW w \in Workers, calls[w] > 0
               PROVE  \/ passed[w] = level[w] /\ status[event[w]] <= level[w]
                      \/ /\ status[event[w]] < 0 /\ passed[w] = status[event[w]] + Word
                         /\ passed[w] > Queued
    BY DEF DeliveredStatus
  <2>1. notifier[w] = "done" /\ event[w] \in Events
    BY DEF IInv, OnePointer, TypeOK
  <2>2. /\ stored[w] <= level[w] /\ status[event[w]] <= stored[w]
        /\ stored[w] >= 0 => stored[w] = level[w]
        /\ passed[w] = JS_INT(stored[w])
    BY <2>1 DEF IInv, StoredStatus
  <2>3. stored[w] \in Statuses /\ status[event[w]] \in Statuses /\ level[w] \in Levels
    BY <2>1 DEF IInv, TypeOK
  <2>4. CASE stored[w] >= 0
    BY <2>2, <2>3, <2>4 DEF JS_INT, Statuses, Levels, Error, Complete, Running, Submitted, Queued
  <2>5. CASE stored[w] < 0
    <3>1. stored[w] = Error /\ status[event[w]] = Error
      BY <2>2, <2>3, <2>5 DEF Statuses, Error, Complete, Running, Submitted, Queued
    <3> QED  BY <2>2, <3>1, WordHoldsStatuses DEF JS_INT, Error, Queued
  <2> QED  BY <2>3, <2>4, <2>5 DEF Statuses, Error, Complete, Running, Submitted, Queued
<1> QED  BY <1>1, Invariance, PTL

(* A worker is deleted only when nobody has a pointer to it any more.       *)
THEOREM FreedAfterLastUseHolds == SafeSpec => []FreedAfterLastUse
<1>1. IInv => FreedAfterLastUse
  BY DEF IInv, OnePointer, TypeOK, FreedAfterLastUse
<1> QED  BY <1>1, Invariance, PTL

(* The loop never runs dry while an accepted callback has not been called.  *)
THEOREM NoCallbackLostHolds == SafeSpec => []NoCallbackLost
<1>1. IInv => NoCallbackLost
  BY DEF IInv, OnePointer, TypeOK, DryAtEnd, LoopAlive, NoCallbackLost
<1> QED  BY <1>1, Invariance, PTL

(* A refused registration is never called and never lets the process end.   *)
THEOREM RefusedHoldsTheLoopHolds == SafeSpec => []RefusedHoldsTheLoop
<1>1. IInv => RefusedHoldsTheLoop
  BY DEF IInv, OnePointer, TypeOK, DryAtEnd, LoopAlive, RefusedHoldsTheLoop
<1> QED  BY <1>1, Invariance, PTL

-----------------------------------------------------------------------------
(* The initial states are those of CallbackOnce.                           *)
LEMMA InitMaps == Init => Once!Init
<1> SUFFICES ASSUME Init PROVE Once!Init  OBVIOUS
<1>1. \A w \in Workers : Promise(w) = "idle" /\ Reached(w) = FALSE
  BY DEF Init, Promise, Reached
<1>2. [w \in Workers |-> Promise(w)] = [w \in Workers |-> "idle"]  BY <1>1
<1>3. [w \in Workers |-> Reached(w)] = [w \in Workers |-> FALSE]  BY <1>1, Zenon
<1> QED  BY <1>2, <1>3 DEF Init, Once!Init

(* A step that leaves the promises alone can only make some of them ready.  *)
LEMMA OccurMaps ==
  ASSUME IInv, [Next]_vars, UNCHANGED <<regVars, exited>>,
         \A w \in Workers : Promise(w)' = Promise(w),
         \A w \in Workers : notifier'[w] = "none" <=> notifier[w] = "none",
         \A w \in Workers : calls[w] > 0 => (Reached(w)' <=> Reached(w))
  PROVE  Once!Occur
<1> DEFINE S == {w \in Workers : Promise(w) = "waiting" /\ Reached(w)'}
<1>1. S \in SUBSET {w \in Workers : [v \in Workers |-> Promise(v)][w] = "waiting"}
  OBVIOUS
<1>2. \A w \in Workers : Reached(w)' <=> Reached(w) \/ w \in S
  <2> TAKE w \in Workers
  <2>1. Reached(w) => Reached(w)'
    <3>1. event[w] \in Events \/ notifier[w] = "none"  BY DEF IInv, OnePointer
    <3>2. CASE event[w] \in Events
      <4>1. status'[event[w]] <= status[event[w]]  BY <3>2, StatusFalls
      <4>2. status[event[w]] \in Int /\ status'[event[w]] \in Int /\ level[w] \in Int
        BY <3>2, NextKeeps DEF IInv, TypeOK, Statuses, Levels, Error, Complete, Running,
           Submitted, Queued
      <4> QED  BY <4>1, <4>2 DEF Reached, regVars
    <3> QED  BY <3>1, <3>2 DEF Reached
  <2>2. Reached(w)' /\ Promise(w) # "waiting" => Reached(w)
    BY DEF Reached, Promise, IInv, OnePointer, TypeOK
  <2> QED  BY <2>1, <2>2
<1>3. [w \in Workers |-> Reached(w)]'
        = [w \in Workers |-> [v \in Workers |-> Reached(v)][w] \/ w \in S]
  <2>1. \A w \in Workers : [v \in Workers |-> Reached(v)][w] = Reached(w)  OBVIOUS
  <2>2. \A w \in Workers : Reached(w)' = (Reached(w) \/ w \in S)
    BY <1>2 DEF Reached
  <2>3. \A w \in Workers : Reached(w)' = ([v \in Workers |-> Reached(v)][w] \/ w \in S)
    BY <2>1, <2>2
  <2> HIDE DEF S
  <2> QED  BY <2>3, Zenon
<1>4. [w \in Workers |-> Promise(w)]' = [w \in Workers |-> Promise(w)]  OBVIOUS
<1> QED  BY <1>1, <1>3, <1>4 DEF Once!Occur, regVars

(* Once notified, a registration's event is at its level or past it.        *)
LEMMA NotifiedIsReached ==
  ASSUME IInv, NEW w \in Workers, notifier[w] \in {"stored", "done"}
  PROVE  Reached(w) /\ event[w] \in Events
<1> USE DEF Statuses, Levels, Error, Complete, Running, Submitted, Queued
<1>1. event[w] \in Events  BY DEF IInv, OnePointer
<1>2. status[event[w]] \in Int /\ stored[w] \in Int /\ level[w] \in Int
  BY <1>1 DEF IInv, TypeOK
<1>3. stored[w] <= level[w] /\ status[event[w]] <= stored[w]  BY DEF IInv, StoredStatus
<1> QED  BY <1>1, <1>2, <1>3 DEF Reached

(* A step that changes no promise, no readiness and no end is a stutter.    *)
LEMMA StutterMaps ==
  ASSUME \A w \in Workers : Promise(w)' = Promise(w),
         \A w \in Workers : Reached(w)' = Reached(w),
         UNCHANGED exited
  PROVE  UNCHANGED Once!vars
<1>1. [w \in Workers |-> Promise(w)]' = [w \in Workers |-> Promise(w)]  OBVIOUS
<1>2. [w \in Workers |-> Reached(w)]' = [w \in Workers |-> Reached(w)]  BY Zenon
<1> QED  BY <1>1, <1>2, Zenon DEF Once!vars

(* Every step of EventCallback is a step of CallbackOnce or a stutter.       *)
LEMMA StepMaps ==
  ASSUME IInv, [Next]_vars
  PROVE  [Once!Next]_Once!vars
<1> USE DEF regVars, queueVars, callVars
<1>1. ASSUME NEW w \in Workers, NEW e \in Events, NEW l \in Levels, SetEventCallback(w, e, l)
      PROVE  Once!Next
  <2> USE <1>1 DEF SetEventCallback
  <2>0. /\ notifier[w] = "none" /\ calls[w] = 0
        /\ handle[w] = "none" /\ exited = "no" /\ UNCHANGED exited
    BY DEF IInv, OnePointer, InJS
  <2>1. \A v \in Workers : v # w => Promise(v)' = Promise(v) /\ Reached(v)' = Reached(v)
    BY DEF IInv, TypeOK, Promise, Reached
  <2>2. Promise(w) = "idle" /\ Reached(w) = FALSE  BY <2>0 DEF Promise, Reached
  <2>3. CASE l = Queued
    <3>1. Promise(w)' = "refused" /\ Reached(w)' = FALSE
      BY <2>3, <2>0 DEF IInv, TypeOK, Promise, Reached
    <3>2. [v \in Workers |-> Promise(v)]'
            = [[v \in Workers |-> Promise(v)] EXCEPT ![w] = "refused"]
      BY <2>1, <3>1
    <3>3. [v \in Workers |-> Reached(v)]' = [v \in Workers |-> Reached(v)]
      <4>1. \A v \in Workers : Reached(v)' = Reached(v)  BY <2>1, <2>2, <3>1
      <4> QED  BY <4>1, Zenon
    <3>4. Once!Refuse(w)  BY <2>0, <2>2, <3>2, <3>3 DEF Once!Refuse
    <3> QED  BY <3>4 DEF Once!Next
  <2>4. CASE l # Queued
    <3>1. Promise(w)' = "waiting"
      BY <2>4, <2>0 DEF IInv, TypeOK, Promise
    <3>2. [v \in Workers |-> Promise(v)]'
            = [[v \in Workers |-> Promise(v)] EXCEPT ![w] = "waiting"]
      BY <2>1, <3>1
    <3>3. \/ [v \in Workers |-> Reached(v)]' = [v \in Workers |-> Reached(v)]
          \/ [v \in Workers |-> Reached(v)]'
               = [[v \in Workers |-> Reached(v)] EXCEPT ![w] = TRUE]
      <4>1. CASE Reached(w)'
        <5>1. \A v \in Workers : Reached(v)' = IF v = w THEN TRUE ELSE Reached(v)
          BY <2>1, <4>1 DEF Reached
        <5>2. [[v \in Workers |-> Reached(v)] EXCEPT ![w] = TRUE]
                = [v \in Workers |-> IF v = w THEN TRUE ELSE Reached(v)]
          OBVIOUS
        <5>3. [v \in Workers |-> Reached(v)]'
                = [v \in Workers |-> IF v = w THEN TRUE ELSE Reached(v)]
          BY <5>1, Zenon
        <5> QED  BY <5>2, <5>3, Zenon
      <4>2. CASE ~Reached(w)'
        <5>1. \A v \in Workers : Reached(v)' = Reached(v)
          BY <2>1, <2>2, <4>2 DEF Reached
        <5> QED  BY <5>1, Zenon
      <4> QED  BY <4>1, <4>2
    <3>4. Once!Register(w)  BY <2>0, <2>2, <3>2, <3>3 DEF Once!Register
    <3> QED  BY <3>4 DEF Once!Next
  <2> QED  BY <2>3, <2>4
<1>2. ASSUME \/ \E e \in Events : Progress(e)
             \/ \E e \in Events, s \in Statuses : SetUserEventStatus(e, s)
      PROVE  Once!Next
  <2>1. UNCHANGED <<regVars, handle, notifier, calls, exited>>
    BY <1>2 DEF Progress, SetUserEventStatus
  <2>2. \A w \in Workers : Promise(w)' = Promise(w)  BY <2>1 DEF Promise
  <2>3. \A w \in Workers : notifier'[w] = "none" <=> notifier[w] = "none"  BY <2>1
  <2>4. \A w \in Workers : calls[w] > 0 => (Reached(w)' <=> Reached(w))
    <3> SUFFICES ASSUME NEW w \in Workers, calls[w] > 0 PROVE Reached(w) /\ Reached(w)'
      OBVIOUS
    <3>1. notifier[w] = "done"  BY DEF IInv, OnePointer, TypeOK
    <3>2. Reached(w) /\ event[w] \in Events  BY <3>1, NotifiedIsReached
    <3>3. status'[event[w]] <= status[event[w]]  BY <3>2, StatusFalls
    <3>4. status[event[w]] \in Int /\ status'[event[w]] \in Int /\ level[w] \in Int
      BY <3>2, NextKeeps, <2>1 DEF IInv, TypeOK, Statuses, Levels, Error, Complete, Running,
         Submitted, Queued
    <3> QED  BY <2>1, <3>1, <3>2, <3>3, <3>4 DEF Reached
  <2>5. Once!Occur  BY <2>1, <2>2, <2>3, <2>4, OccurMaps
  <2> QED  BY <2>5 DEF Once!Next
<1>3. ASSUME NEW w \in Workers, HandleOKCallback(w) PROVE Once!Next
  <2> USE <1>3 DEF HandleOKCallback
  <2>0. notifier[w] = "done" /\ handle[w] = "active" /\ calls[w] = 0 /\ exited = "no"
    BY DEF IInv, OnePointer, TypeOK, InLoop
  <2>1. Reached(w)  BY <2>0, NotifiedIsReached
  <2>2. \A v \in Workers : v # w => Promise(v)' = Promise(v)
    BY DEF IInv, TypeOK, Promise
  <2>3. Promise(w) = "waiting" /\ Promise(w)' = "called"
    BY <2>0 DEF IInv, TypeOK, Promise
  <2>4. [v \in Workers |-> Promise(v)]'
          = [[v \in Workers |-> Promise(v)] EXCEPT ![w] = "called"]
    BY <2>2, <2>3
  <2>5. [v \in Workers |-> Reached(v)]' = [v \in Workers |-> Reached(v)]
    <3>1. \A v \in Workers : Reached(v)' = Reached(v)  BY DEF Reached
    <3> QED  BY <3>1, Zenon
  <2>6. Once!Call(w)  BY <2>0, <2>1, <2>3, <2>4, <2>5 DEF Once!Call
  <2> QED  BY <2>6 DEF Once!Next
<1>4. ASSUME NaturalExit \/ ForcedExit PROVE Once!Next
  <2>1. UNCHANGED <<status, event, level, handle, notifier, calls>> /\ exited = "no"
    BY <1>4 DEF NaturalExit, ForcedExit, InLoop
  <2>2. [v \in Workers |-> Promise(v)]' = [v \in Workers |-> Promise(v)]
    BY <2>1 DEF Promise
  <2>3. [v \in Workers |-> Reached(v)]' = [v \in Workers |-> Reached(v)]
    <3>1. \A v \in Workers : Reached(v)' = Reached(v)  BY <2>1 DEF Reached
    <3> QED  BY <3>1, Zenon
  <2>4. NaturalExit => \A w \in Workers : Promise(w) # "waiting"
    BY DEF NaturalExit, LoopAlive, IInv, OnePointer, TypeOK, Promise
  <2>5. Once!End
    BY <1>4, <2>1, <2>2, <2>3, <2>4 DEF Once!End, NaturalExit, ForcedExit
  <2> QED  BY <2>5 DEF Once!Next
<1>5. ASSUME \/ ReturnToLoop
             \/ \E w \in Workers : \/ NotifyStore(w) \/ NotifySend(w) \/ Dispatch(w)
                                   \/ Execute(w) \/ DeleteAsyncHandle(w)
             \/ UNCHANGED vars
      PROVE  UNCHANGED Once!vars
  <2>1. UNCHANGED <<status, event, level, calls, exited>>
    BY <1>5 DEF ReturnToLoop, NotifyStore, NotifySend, Dispatch, Execute,
       DeleteAsyncHandle, vars
  <2>2. \A w \in Workers : handle'[w] = "none" <=> handle[w] = "none"
    BY <1>5, NamesDiffer DEF ReturnToLoop, NotifyStore, NotifySend, Dispatch, Execute,
       DeleteAsyncHandle, vars, IInv, TypeOK, OnePointer, InJS
  <2>3. \A w \in Workers : notifier'[w] = "none" <=> notifier[w] = "none"
    BY <1>5 DEF ReturnToLoop, NotifyStore, NotifySend, Dispatch, Execute,
       DeleteAsyncHandle, vars, IInv, TypeOK
  <2>4. \A w \in Workers : Promise(w)' = Promise(w)  BY <2>1, <2>2, <2>3 DEF Promise
  <2>5. \A w \in Workers : Reached(w)' = Reached(w)  BY <2>1, <2>3 DEF Reached
  <2> QED  BY <2>1, <2>4, <2>5, StutterMaps
<1> QED  BY <1>1, <1>2, <1>3, <1>4, <1>5 DEF Next

(* The safety half of the refinement: whatever the threads do, what JS sees  *)
(* of setEventCallback is a behaviour of CallbackOnce.                      *)
THEOREM ImplementsOnceSafely == SafeSpec => Once!SafeSpec
<1> QED  BY InitMaps, StepMaps, Invariance, PTL DEF SafeSpec, Once!SafeSpec
=============================================================================
