--------------------------- MODULE EventCallback ---------------------------
(***************************************************************************)
(* setEventCallback() (src/event.cpp): from the driver's notification of   *)
(* an event to the call of the JS callback.                                *)
(*                                                                         *)
(* Three threads take part.  The main thread runs JS (`running` names what) *)
(* or one callback of the uv loop at a time.  The driver's thread runs      *)
(* notifyCB, whose store and uv_async_send are two steps.  The uv pool runs *)
(* the worker's empty Execute().  The NoCLEventWorker lives from the call   *)
(* of setEventCallback to the return of the JS callback; its uv_async_t     *)
(* keeps the loop, hence the process, alive until it is closed.            *)
(*                                                                         *)
(* libuv, Nan::AsyncWorker and the OpenCL driver are modelled from how      *)
(* event.cpp uses them: the driver calls notifyCB once per registration it  *)
(* accepts, after the event has reached the level asked for.               *)
(***************************************************************************)
EXTENDS Integers, FiniteSets

CONSTANTS
  Workers,      \* NoCLEventWorker instances, one per call of setEventCallback
  Events,       \* events of enqueued commands and user events
  UserEvents,   \* those made by createUserEvent
  NoEvent, NoWorker,
  Script,       \* the main module, JS that no worker called
  Word          \* values of an unsigned int: 2^32

ASSUME UserEventsAreEvents == UserEvents \subseteq Events
ASSUME NamesDiffer == NoEvent \notin Events /\ {NoWorker, Script} \cap Workers = {}
                      /\ NoWorker # Script

(* cl_int execution status: CL_COMPLETE, CL_RUNNING, CL_SUBMITTED,          *)
(* CL_QUEUED; an error is negative.                                        *)
Complete == 0
Running == 1
Submitted == 2
Queued == 3
Error == -1
Statuses == {Error, Complete, Running, Submitted, Queued}

(* The values JS passes as callbackStatusType; the driver refuses Queued.   *)
Levels == {Complete, Running, Submitted, Queued}

ASSUME WordHoldsStatuses == Word \in Nat /\ Word > Queued - Error

(* The number JS gets for an int: its bits as those of an unsigned int.     *)
JS_INT(s) == IF s < 0 THEN s + Word ELSE s

VARIABLES
  status,    \* status[e]: execution status the driver keeps
  event,     \* event[w]: the event a worker was registered on
  level,     \* level[w]: callbackStatusType
  handle,    \* handle[w]: its uv_async_t: "none", "active", "closing", "freed"
  notifier,  \* notifier[w]: the driver's side: "none", "armed", "stored", "done"
  stored,    \* mCLCallbackStatus
  pending,   \* pending[w]: uv_async_send has marked the handle
  work,      \* work[w]: its uv_work_t: "none", "queued", "executed"
  calls,     \* calls[w]: times HandleOKCallback ran
  passed,    \* passed[w]: the status argument, the number JS received
  running,   \* JS on the main thread: Script, a worker's callback, or NoWorker: the loop
  exited     \* "no", "natural" when the loop ran dry, "forced" by process.exit()

regVars == <<event, level>>
queueVars == <<pending, work>>
callVars == <<calls, passed>>
vars == <<status, event, level, handle, notifier, stored, pending, work, calls, passed,
          running, exited>>

TypeOK ==
  /\ status \in [Events -> Statuses]
  /\ event \in [Workers -> Events \cup {NoEvent}]
  /\ level \in [Workers -> Levels]
  /\ handle \in [Workers -> {"none", "active", "closing", "freed"}]
  /\ notifier \in [Workers -> {"none", "armed", "stored", "done"}]
  /\ stored \in [Workers -> Statuses]
  /\ pending \in [Workers -> BOOLEAN]
  /\ work \in [Workers -> {"none", "queued", "executed"}]
  /\ calls \in [Workers -> Nat]
  /\ passed \in [Workers -> {JS_INT(s) : s \in Statuses}]
  /\ running \in Workers \cup {Script, NoWorker}
  /\ exited \in {"no", "natural", "forced"}

Init ==
  /\ status = [e \in Events |-> IF e \in UserEvents THEN Submitted ELSE Queued]
  /\ event = [w \in Workers |-> NoEvent]
  /\ level = [w \in Workers |-> Complete]
  /\ handle = [w \in Workers |-> "none"]
  /\ notifier = [w \in Workers |-> "none"]
  /\ stored = [w \in Workers |-> 0]
  /\ pending = [w \in Workers |-> FALSE]
  /\ work = [w \in Workers |-> "none"]
  /\ calls = [w \in Workers |-> 0]
  /\ passed = [w \in Workers |-> 0]
  /\ running = Script
  /\ exited = "no"

InJS == running # NoWorker /\ exited = "no"
InLoop == running = NoWorker /\ exited = "no"

(* The driver owes the call: the event is at the level or past it.          *)
Reached(w) == notifier[w] # "none" /\ status[event[w]] <= level[w]

(* Mutant: the async handle is unref'd.                                    *)
LoopAliveUnref ==
  \E w \in Workers : handle[w] = "closing" \/ work[w] # "none"

(* uv__loop_alive: an active handle, an active request or a closing handle. *)
LoopAlive ==
  \E w \in Workers : handle[w] \in {"active", "closing"} \/ work[w] # "none"

-----------------------------------------------------------------------------
(* JS on the main thread                                                   *)

(* The worker and its async handle exist before the driver is asked, and    *)
(* when it refuses CHECK_ERR throws and leaves them behind.                *)
SetEventCallback(w, e, l) ==
  /\ InJS
  /\ handle[w] = "none"
  /\ handle' = [handle EXCEPT ![w] = "active"]
  /\ event' = [event EXCEPT ![w] = e]
  /\ level' = [level EXCEPT ![w] = l]
  /\ notifier' =
       [notifier EXCEPT ![w] = IF l = Queued THEN "none" ELSE "armed"]
  /\ UNCHANGED <<status, stored, queueVars, callVars, running, exited>>

(* clSetUserEventStatus: once, to CL_COMPLETE or an error.  JS may give an    *)
(* error as a negative number or as JS_INT made it: the bits are the same.  *)
SetUserEventStatus(e, s) ==
  /\ InJS
  /\ e \in UserEvents
  /\ status[e] = Submitted /\ s <= Complete
  /\ status' = [status EXCEPT ![e] = s]
  /\ UNCHANGED <<regVars, handle, notifier, stored, queueVars, callVars, running, exited>>

(* Mutant: ~NoCLEventWorker without uv_close.                               *)
ReturnWithoutClose ==
  /\ InJS
  /\ running' = NoWorker
  /\ UNCHANGED <<status, regVars, handle, notifier, stored, queueVars, callVars, exited>>

(* JS returns to the loop.  After a callback Nan::AsyncWorker destroys the   *)
(* worker, and ~NoCLEventWorker closes the handle.                         *)
ReturnToLoop ==
  /\ InJS
  /\ handle' = IF running = Script THEN handle ELSE [handle EXCEPT ![running] = "closing"]
  /\ running' = NoWorker
  /\ UNCHANGED <<status, regVars, notifier, stored, queueVars, callVars, exited>>

-----------------------------------------------------------------------------
(* The driver's thread                                                     *)

(* A command makes progress; a user event waits for JS.                    *)
Progress(e) ==
  /\ e \notin UserEvents /\ status[e] > Complete
  /\ \E s \in {status[e] - 1, Error} : status' = [status EXCEPT ![e] = s]
  /\ UNCHANGED <<regVars, handle, notifier, stored, queueVars, callVars, running, exited>>

(* Mutant: uv_async_send comes before the status is stored.                 *)
NotifyWakesFirst(w) ==
  /\ notifier[w] = "armed" /\ Reached(w)
  /\ notifier' = [notifier EXCEPT ![w] = "stored"]
  /\ pending' = [pending EXCEPT ![w] = TRUE]
  /\ UNCHANGED <<status, regVars, handle, stored, work, callVars, running, exited>>

(* Mutant: the status is stored with its sign turned.                       *)
NotifyNegates(w) ==
  /\ notifier[w] = "armed" /\ Reached(w)
  /\ notifier' = [notifier EXCEPT ![w] = "stored"]
  /\ stored' = [stored EXCEPT ![w] = 0 - level[w]]
  /\ UNCHANGED <<status, regVars, handle, queueVars, callVars, running, exited>>

(* notifyCB: CallBackIsDone stores the level reached, or the error.         *)
NotifyStore(w) ==
  /\ notifier[w] = "armed" /\ Reached(w)
  /\ notifier' = [notifier EXCEPT ![w] = "stored"]
  /\ stored' = [stored EXCEPT ![w] = IF status[event[w]] < 0 THEN status[event[w]] ELSE level[w]]
  /\ UNCHANGED <<status, regVars, handle, queueVars, callVars, running, exited>>

(* Mutant: uv_async_send is forgotten.                                     *)
NotifyForgets(w) ==
  /\ notifier[w] = "stored"
  /\ notifier' = [notifier EXCEPT ![w] = "done"]
  /\ UNCHANGED <<status, regVars, handle, stored, queueVars, callVars, running, exited>>

(* notifyCB: uv_async_send.                                                *)
NotifySend(w) ==
  /\ notifier[w] = "stored"
  /\ notifier' = [notifier EXCEPT ![w] = "done"]
  /\ pending' = [pending EXCEPT ![w] = TRUE]
  /\ UNCHANGED <<status, regVars, handle, stored, work, callVars, running, exited>>

-----------------------------------------------------------------------------
(* The uv loop and its pool                                                *)

(* Mutant: the handle is closed as soon as the worker is queued.            *)
DispatchCloses(w) ==
  /\ InLoop
  /\ handle[w] = "active" /\ pending[w]
  /\ pending' = [pending EXCEPT ![w] = FALSE]
  /\ work' = [work EXCEPT ![w] = "queued"]
  /\ handle' = [handle EXCEPT ![w] = "closing"]
  /\ UNCHANGED <<status, regVars, notifier, stored, callVars, running, exited>>

(* dispatched_async_uv_callback: AsyncQueueWorker.                          *)
Dispatch(w) ==
  /\ InLoop
  /\ handle[w] = "active" /\ pending[w]
  /\ pending' = [pending EXCEPT ![w] = FALSE]
  /\ work' = [work EXCEPT ![w] = "queued"]
  /\ UNCHANGED <<status, regVars, handle, notifier, stored, callVars, running, exited>>

(* Execute() on a pool thread, which posts the completion.                  *)
Execute(w) ==
  /\ work[w] = "queued"
  /\ work' = [work EXCEPT ![w] = "executed"]
  /\ UNCHANGED <<status, regVars, handle, notifier, stored, pending, callVars, running, exited>>

(* HandleOKCallback: JS is entered with the user data, the stored status as  *)
(* an unsigned number, and the event.                                      *)
HandleOKCallback(w) ==
  /\ InLoop
  /\ work[w] = "executed"
  /\ work' = [work EXCEPT ![w] = "none"]
  /\ calls' = [calls EXCEPT ![w] = @ + 1]
  /\ passed' = [passed EXCEPT ![w] = JS_INT(stored[w])]
  /\ running' = w
  /\ UNCHANGED <<status, regVars, handle, notifier, stored, pending, exited>>

(* delete_async_handle, the close callback.                                *)
DeleteAsyncHandle(w) ==
  /\ InLoop
  /\ handle[w] = "closing"
  /\ handle' = [handle EXCEPT ![w] = "freed"]
  /\ UNCHANGED <<status, regVars, notifier, stored, queueVars, callVars, running, exited>>

(* The loop has nothing left to wait for.                                  *)
NaturalExit ==
  /\ InLoop
  /\ ~LoopAlive
  /\ exited' = "natural"
  /\ UNCHANGED <<status, regVars, handle, notifier, stored, queueVars, callVars, running>>

(* process.exit(), as lib/opencl.js does on SIGINT.                         *)
ForcedExit ==
  /\ exited = "no"
  /\ exited' = "forced"
  /\ UNCHANGED <<status, regVars, handle, notifier, stored, queueVars, callVars, running>>

-----------------------------------------------------------------------------
Next ==
  \/ \E w \in Workers, e \in Events, l \in Levels : SetEventCallback(w, e, l)
  \/ \E e \in Events, s \in Statuses : SetUserEventStatus(e, s)
  \/ ReturnToLoop
  \/ \E e \in Events : Progress(e)
  \/ \E w \in Workers :
       \/ NotifyStore(w) \/ NotifySend(w)
       \/ Dispatch(w) \/ Execute(w) \/ HandleOKCallback(w) \/ DeleteAsyncHandle(w)
  \/ NaturalExit
  \/ ForcedExit

(* JS callbacks return, the driver delivers its notifications, the pool      *)
(* has a thread and the loop serves every source it polls.  Nothing makes    *)
(* a command finish or JS set a user event.                                *)
Fairness ==
  /\ WF_vars(ReturnToLoop)
  /\ WF_vars(NaturalExit)
  /\ \A w \in Workers :
       /\ WF_vars(NotifyStore(w)) /\ WF_vars(NotifySend(w)) /\ WF_vars(Execute(w))
       /\ WF_vars(Dispatch(w)) /\ WF_vars(HandleOKCallback(w)) /\ WF_vars(DeleteAsyncHandle(w))

SafeSpec == Init /\ [][Next]_vars
Spec == SafeSpec /\ Fairness

-----------------------------------------------------------------------------
(* JS receives the level it asked for, and then its event has reached it; or *)
(* its event has failed, and then JS does not receive the driver's negative *)
(* status but that plus 2^32, a number above every status that is no error  *)
(* (event.cpp:224, common.h:45).  The wake-up never overtakes the store.     *)
DeliveredStatus ==
  \A w \in Workers :
    calls[w] > 0 =>
      \/ passed[w] = level[w] /\ status[event[w]] <= level[w]
      \/ /\ status[event[w]] < 0 /\ passed[w] = status[event[w]] + Word
         /\ passed[w] > Queued

(* The worker is destroyed after its one call and never while the driver,   *)
(* the loop or the pool still holds a pointer to it.                       *)
FreedAfterLastUse ==
  \A w \in Workers :
    handle[w] \in {"closing", "freed"} =>
      notifier[w] = "done" /\ ~pending[w] /\ work[w] = "none" /\ calls[w] = 1

(* The process does not end by itself while a registered callback is owed,  *)
(* at whatever stage its notification is.                                  *)
NoCallbackLost ==
  exited = "natural" => \A w \in Workers : notifier[w] # "none" => calls[w] = 1

(* A registration the driver refused is never called, and its leaked async   *)
(* handle keeps the process from ending by itself.                         *)
RefusedHoldsTheLoop ==
  \A w \in Workers :
    event[w] # NoEvent /\ notifier[w] = "none" => calls[w] = 0 /\ exited # "natural"

(* A process with no refused registration and no callback waiting for an     *)
(* event ends once JS stops: a served worker leaves nothing in the loop.    *)
QuietProcessEnds ==
  <>[](running = NoWorker /\ \A w \in Workers : handle[w] = "active" => Reached(w))
    => <>(exited # "no")

-----------------------------------------------------------------------------
(* EventCallback implements CallbackOnce.                                  *)
Promise(w) ==
  IF calls[w] > 0 THEN IF calls[w] = 1 THEN "called" ELSE "called again"
  ELSE IF handle[w] = "none" THEN "idle"
  ELSE IF notifier[w] = "none" THEN "refused"
  ELSE "waiting"

Once == INSTANCE CallbackOnce WITH
  promise <- [w \in Workers |-> Promise(w)],
  ready <- [w \in Workers |-> Reached(w)],
  over <- exited

(* Every step is a step of CallbackOnce, and its fairness follows.         *)
ImplementsOnce == Once!Spec
=============================================================================
