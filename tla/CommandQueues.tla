--------------------------- MODULE CommandQueues ---------------------------
(***************************************************************************)
(* Commands, wait lists and the calls that block Node's main thread        *)
(* (src/commandqueue.cpp, src/svm.cpp, waitForEvents in src/event.cpp).    *)
(*                                                                         *)
(* enqueue*() hands a command and its wait list to the driver.  With a      *)
(* true blocking argument it returns when the command has ended; finish()  *)
(* and waitForEvents() wait as well.  They wait inside the driver, on the   *)
(* only thread that runs JS: until they return nobody sets a user event    *)
(* and nobody flushes a queue.                                             *)
(*                                                                         *)
(* The driver is modelled from OpenCL's rules, on which the code relies: a  *)
(* command may start once its queue has been flushed after it and what it   *)
(* comes after has ended; it fails if an event of its wait list failed; a   *)
(* blocking call flushes the queues it waits on, and no other.  Here        *)
(* commands that have started do end.                                      *)
(***************************************************************************)
EXTENDS Naturals, FiniteSets

CONSTANTS
  Queues,
  InOrder,       \* queues made without CL_QUEUE_OUT_OF_ORDER_EXEC_MODE_ENABLE
  UserEvents,
  MaxCommands,   \* bound on the number of commands enqueued
  MaxList,       \* bound on the length of the event lists JS passes
  NoQueue

ASSUME InOrderAreQueues == InOrder \subseteq Queues
ASSUME MaxCommandsIsNat == MaxCommands \in Nat
ASSUME MaxListIsNat == MaxList \in Nat
ASSUME UserEventsAreOther == UserEvents \cap (0..MaxCommands) = {}
ASSUME NoQueueIsNoQueue == NoQueue \notin Queues

Commands == 1..MaxCommands      \* numbered as they are enqueued
Events == Commands \cup UserEvents

VARIABLES
  issued,    \* how many commands have been enqueued
  queue,     \* queue[c]: the queue command c is in
  list,      \* list[c]: the event wait list the driver was given
  after,     \* after[c]: earlier commands of its queue that c comes after
  given,     \* given[c]: the event wait list JS passed (history variable)
  asked,     \* asked[c]: all that JS made c come after, transitively (history variable)
  sent,      \* sent[c]: c's queue has been flushed since c was enqueued
  status,    \* status[e]: "none", "pending", "complete", "failed"
  fence,     \* fence[q]: the last barrier in q, 0 when there is none
  blocked,   \* the main thread is inside a call that waits
  awaited    \* the events that call waits for

vars == <<issued, queue, list, after, given, asked, sent, status, fence, blocked, awaited>>

TypeOK ==
  /\ issued \in 0..MaxCommands
  /\ queue \in [Commands -> Queues \cup {NoQueue}]
  /\ list \in [Commands -> SUBSET Events]
  /\ after \in [Commands -> SUBSET Commands]
  /\ given \in [Commands -> SUBSET Events]
  /\ asked \in [Commands -> SUBSET Events]
  /\ sent \in [Commands -> BOOLEAN]
  /\ status \in [Events -> {"none", "pending", "complete", "failed"}]
  /\ fence \in [Queues -> 0..MaxCommands]
  /\ blocked \in BOOLEAN
  /\ awaited \in SUBSET Events

Init ==
  /\ issued = 0
  /\ queue = [c \in Commands |-> NoQueue]
  /\ list = [c \in Commands |-> {}]
  /\ after = [c \in Commands |-> {}]
  /\ given = [c \in Commands |-> {}]
  /\ asked = [c \in Commands |-> {}]
  /\ sent = [c \in Commands |-> FALSE]
  /\ status = [e \in Events |-> "none"]
  /\ fence = [q \in Queues |-> 0]
  /\ blocked = FALSE
  /\ awaited = {}

(* JS holds the event of each command: every event flag is true.            *)
Known == {e \in Events : status[e] # "none"}
Lists == {W \in SUBSET Known : Cardinality(W) <= MaxList}
Ended(e) == status[e] \in {"complete", "failed"}
In(q) == {c \in Commands : queue[c] = q}

(* The events of E and all they come after.                                *)
Closure(E) == E \cup UNION {asked[c] : c \in E \cap Commands}

(* What OpenCL makes the next command of q come after.                     *)
Earlier(q) == IF q \in InOrder THEN In(q) ELSE {fence[q]} \ {0}

(* A flush submits the commands in q.                                      *)
Submitted(q) == [c \in Commands |-> sent[c] \/ queue[c] = q]

-----------------------------------------------------------------------------
(* enqueue*()                                                              *)

(* The driver appends a command to q.  JS passed the wait list js, the       *)
(* handler passes W on; A are the earlier commands it must come after.     *)
Append(q, js, W, A, blocking) ==
  LET c == issued + 1 IN
  /\ ~blocked
  /\ issued < MaxCommands
  /\ issued' = c
  /\ queue' = [queue EXCEPT ![c] = q]
  /\ list' = [list EXCEPT ![c] = W]
  /\ after' = [after EXCEPT ![c] = A]
  /\ given' = [given EXCEPT ![c] = js]
  /\ asked' = [asked EXCEPT ![c] = Closure(js \cup A)]
  /\ status' = [status EXCEPT ![c] = "pending"]
  /\ sent' = IF blocking THEN [Submitted(q) EXCEPT ![c] = TRUE] ELSE sent
  /\ blocked' = blocking
  /\ awaited' = IF blocking THEN {c} ELSE {}

(* Mutant: GET_WAIT_LIST reads another argument and finds no list.          *)
EnqueueDropsList(q, W, blocking) ==
  Append(q, W, {}, Earlier(q), blocking) /\ UNCHANGED fence

(* GET_WAIT_LIST_AND_EVENT, the driver's call, RETURN_EVENT.                *)
Enqueue(q, W, blocking) == Append(q, W, W, Earlier(q), blocking) /\ UNCHANGED fence

(* With a blocking argument.                                               *)
EnqueueReadBuffer(q, W, blocking) == Enqueue(q, W, blocking)
EnqueueReadBufferRect(q, W, blocking) == Enqueue(q, W, blocking)
EnqueueWriteBuffer(q, W, blocking) == Enqueue(q, W, blocking)
EnqueueWriteBufferRect(q, W, blocking) == Enqueue(q, W, blocking)
EnqueueReadImage(q, W, blocking) == Enqueue(q, W, blocking)
EnqueueWriteImage(q, W, blocking) == Enqueue(q, W, blocking)
EnqueueMapBuffer(q, W, blocking) == Enqueue(q, W, blocking)
EnqueueMapImage(q, W, blocking) == Enqueue(q, W, blocking)
EnqueueSVMMemcpy(q, W, blocking) == Enqueue(q, W, blocking)
EnqueueSVMMap(q, W, blocking) == Enqueue(q, W, blocking)

(* Without.                                                                *)
EnqueueFillBuffer(q, W) == Enqueue(q, W, FALSE)
EnqueueCopyBuffer(q, W) == Enqueue(q, W, FALSE)
EnqueueCopyBufferRect(q, W) == Enqueue(q, W, FALSE)
EnqueueFillImage(q, W) == Enqueue(q, W, FALSE)
EnqueueCopyImage(q, W) == Enqueue(q, W, FALSE)
EnqueueCopyImageToBuffer(q, W) == Enqueue(q, W, FALSE)
EnqueueCopyBufferToImage(q, W) == Enqueue(q, W, FALSE)
EnqueueUnmapMemObject(q, W) == Enqueue(q, W, FALSE)
EnqueueMigrateMemObjects(q, W) == Enqueue(q, W, FALSE)
EnqueueNDRangeKernel(q, W) == Enqueue(q, W, FALSE)
EnqueueTask(q, W) == Enqueue(q, W, FALSE)
EnqueueSVMMemFill(q, W) == Enqueue(q, W, FALSE)
EnqueueSVMUnmap(q, W) == Enqueue(q, W, FALSE)
EnqueueSVMFree(q, W) == Enqueue(q, W, FALSE)

(* With an empty list a marker waits for all that is in the queue.          *)
EnqueueMarkerWithWaitList(q, W) ==
  /\ Append(q, W, W, IF W = {} THEN In(q) ELSE Earlier(q), FALSE)
  /\ UNCHANGED fence

(* A barrier too, and later commands of the queue wait for it.              *)
EnqueueBarrierWithWaitList(q, W) ==
  /\ Append(q, W, W, IF W = {} THEN In(q) ELSE Earlier(q), FALSE)
  /\ fence' = [fence EXCEPT ![q] = issued + 1]

-----------------------------------------------------------------------------
(* User events, flush, finish, waitForEvents                               *)

commandVars == <<issued, queue, list, after, given, asked, fence>>

CreateUserEvent(u) ==
  /\ ~blocked
  /\ status[u] = "none"
  /\ status' = [status EXCEPT ![u] = "pending"]
  /\ UNCHANGED <<commandVars, sent, blocked, awaited>>

(* Mutant: the status is not the one JS passed.                             *)
SetUserEventUnread(u, s) ==
  /\ ~blocked
  /\ status[u] = "pending"
  /\ status' = [status EXCEPT ![u] = "submitted"]
  /\ UNCHANGED <<commandVars, sent, blocked, awaited>>

(* To CL_COMPLETE or to an error, once.                                     *)
SetUserEventStatus(u, s) ==
  /\ ~blocked
  /\ status[u] = "pending"
  /\ status' = [status EXCEPT ![u] = s]
  /\ UNCHANGED <<commandVars, sent, blocked, awaited>>

Flush(q) ==
  /\ ~blocked
  /\ sent' = Submitted(q)
  /\ UNCHANGED <<commandVars, status, blocked, awaited>>

Finish(q) ==
  /\ ~blocked
  /\ sent' = Submitted(q)
  /\ blocked' = TRUE
  /\ awaited' = In(q)
  /\ UNCHANGED <<commandVars, status>>

(* Mutant: the events are polled, which flushes nothing.                    *)
WaitForEventsPolls(W) ==
  /\ ~blocked
  /\ W # {}
  /\ blocked' = TRUE
  /\ awaited' = W
  /\ UNCHANGED <<commandVars, status, sent>>

(* The array must hold an event; its queues are flushed.                    *)
WaitForEvents(W) ==
  /\ ~blocked
  /\ W # {}
  /\ sent' = [c \in Commands |-> sent[c] \/ \E d \in W \cap Commands : queue[c] = queue[d]]
  /\ blocked' = TRUE
  /\ awaited' = W
  /\ UNCHANGED <<commandVars, status>>

(* The call comes back; waitForEvents and blocking calls throw when an       *)
(* event failed, which changes nothing here.                               *)
Return ==
  /\ blocked
  /\ \A e \in awaited : Ended(e)
  /\ blocked' = FALSE
  /\ awaited' = {}
  /\ UNCHANGED <<commandVars, status, sent>>

-----------------------------------------------------------------------------
(* The driver                                                              *)

Execute(c) ==
  /\ status[c] = "pending" /\ sent[c]
  /\ \A e \in list[c] \cup after[c] : Ended(e)
  /\ \E s \in {"complete", "failed"} :
       /\ s = "complete" => \A e \in list[c] : status[e] = "complete"
       /\ status' = [status EXCEPT ![c] = s]
  /\ UNCHANGED <<commandVars, sent, blocked, awaited>>

-----------------------------------------------------------------------------
Enqueueing(q, W) ==
  \/ \E blocking \in BOOLEAN :
       \/ EnqueueReadBuffer(q, W, blocking)
       \/ EnqueueReadBufferRect(q, W, blocking)
       \/ EnqueueWriteBuffer(q, W, blocking)
       \/ EnqueueWriteBufferRect(q, W, blocking)
       \/ EnqueueReadImage(q, W, blocking)
       \/ EnqueueWriteImage(q, W, blocking)
       \/ EnqueueMapBuffer(q, W, blocking)
       \/ EnqueueMapImage(q, W, blocking)
       \/ EnqueueSVMMemcpy(q, W, blocking)
       \/ EnqueueSVMMap(q, W, blocking)
  \/ EnqueueFillBuffer(q, W) \/ EnqueueCopyBuffer(q, W)
  \/ EnqueueCopyBufferRect(q, W) \/ EnqueueFillImage(q, W)
  \/ EnqueueCopyImage(q, W) \/ EnqueueCopyImageToBuffer(q, W)
  \/ EnqueueCopyBufferToImage(q, W) \/ EnqueueUnmapMemObject(q, W)
  \/ EnqueueMigrateMemObjects(q, W) \/ EnqueueNDRangeKernel(q, W)
  \/ EnqueueTask(q, W) \/ EnqueueSVMMemFill(q, W)
  \/ EnqueueSVMUnmap(q, W) \/ EnqueueSVMFree(q, W)
  \/ EnqueueMarkerWithWaitList(q, W) \/ EnqueueBarrierWithWaitList(q, W)

Next ==
  \/ \E q \in Queues, W \in Lists : Enqueueing(q, W)
  \/ \E u \in UserEvents :
       \/ CreateUserEvent(u)
       \/ \E s \in {"complete", "failed"} : SetUserEventStatus(u, s)
  \/ \E q \in Queues : Flush(q) \/ Finish(q)
  \/ \E W \in Lists : WaitForEvents(W)
  \/ Return
  \/ \E c \in Commands : Execute(c)

(* The device ends the commands it may run, and a call whose events have     *)
(* ended comes back.  Nothing makes JS go on.                              *)
Fairness == WF_vars(Return) /\ \A c \in Commands : WF_vars(Execute(c))

SafeSpec == Init /\ [][Next]_vars
Spec == SafeSpec /\ Fairness

-----------------------------------------------------------------------------
(* A command ends after everything JS made it come after, by wait lists,     *)
(* in-order queues and barriers, through any number of commands and queues: *)
(* no enqueue*() loses a dependency on the way to the driver.              *)
RunsAfter == \A c \in Commands : Ended(c) => \A e \in asked[c] : Ended(e)

(* No command completes when an event JS made it wait for has failed.       *)
FailureSpreads ==
  \A c \in Commands :
    status[c] = "complete" => \A e \in given[c] : status[e] = "complete"

(* The main thread waits for something only JS could bring about: a user     *)
(* event it has not set, or a command in a queue that neither JS nor this   *)
(* call has flushed.                                                       *)
Hopeless ==
  /\ blocked
  /\ \E e \in Closure(awaited) :
       /\ status[e] = "pending"
       /\ \/ e \in UserEvents
          \/ ~sent[e] /\ \A d \in awaited \cap Commands : queue[d] # queue[e]

(* Then finish(), waitForEvents() or the blocking enqueue*() never returns:  *)
(* the process stands still for good, whatever the devices do              *)
(* (commandqueue.cpp:222, event.cpp:18).                                   *)
HopelessForever == [][Hopeless => Hopeless']_vars

(* In every other case it returns: nothing else can keep the main thread.   *)
CallReturns == (blocked /\ ~Hopeless) ~> ~blocked
=============================================================================
