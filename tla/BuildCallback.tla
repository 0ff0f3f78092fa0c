--------------------------- MODULE BuildCallback ---------------------------
(***************************************************************************)
(* The JS callback of buildProgram, compileProgram, linkProgram            *)
(* (src/program.cpp) and enqueueSVMFree (src/svm.cpp).                     *)
(*                                                                         *)
(* Nothing is registered with the uv loop while the driver works.  When it *)
(* is done its thread calls notifyPCB or notifySVMCB, which calls          *)
(* AsyncQueueWorker from there: uv_queue_work adds one to the loop's count  *)
(* of active requests with a plain load and store and posts the request.   *)
(* The main thread changes the same count, as plainly, when JS starts a     *)
(* request, when a driver calls back from inside the call and when the loop *)
(* completes a request.  The loop ends when the count is zero and no handle *)
(* is active.                                                              *)
(*                                                                         *)
(* Every update of the count is two steps, a load and a store, whichever    *)
(* thread makes it.                                                        *)
(***************************************************************************)
EXTENDS Integers, FiniteSets

CONSTANTS
  Workers,    \* NoCLProgramWorker and NoCLSVMWorker instances
  Requests,   \* other uv requests of the process: file system, event workers, ...
  NoWorker,
  Script      \* JS that no worker called

ASSUME NamesDiffer == {NoWorker, Script} \cap Workers = {} /\ NoWorker # Script
                      /\ NoWorker \notin Requests
ASSUME FinitelyMany == IsFiniteSet(Workers) /\ IsFiniteSet(Requests)
ASSUME RequestsAreOther == Requests \cap Workers = {}

VARIABLES
  driver,    \* driver[w]: "none", "refused", "working", "finished", "loaded", "counted", "done"
  seen,      \* seen[w]: the count the driver's thread loaded
  reqs,      \* active_reqs of the uv loop
  updating,  \* the request whose update of reqs the main thread is in, or NoWorker
  loaded,    \* the count the main thread loaded for it
  work,      \* work[r]: a uv_work_t or other request: "none", "queued", "executed"
  calls,     \* calls[w]: times HandleOKCallback ran
  freed,     \* freed[w]: the worker is deleted
  keeper,    \* JS holds an active handle: a timer, a server, a test runner
  running,   \* JS on the main thread, or NoWorker: the loop
  exited,    \* "no", "natural", "aborted" by libuv's assert, "forced"
  overlapped \* history: the count changed between a load and its store

mainVars == <<updating, loaded>>
system == <<driver, seen, reqs, mainVars, work, calls, freed, keeper, running, exited>>
vars == <<system, overlapped>>

TypeOK ==
  /\ driver \in [Workers -> {"none", "refused", "working", "finished", "loaded", "counted", "done"}]
  /\ seen \in [Workers -> Nat]
  /\ reqs \in Nat
  /\ updating \in Workers \cup Requests \cup {NoWorker}
  /\ loaded \in Nat
  /\ work \in [Workers \cup Requests -> {"none", "queued", "executed"}]
  /\ calls \in [Workers -> Nat]
  /\ freed \in [Workers -> BOOLEAN]
  /\ keeper \in BOOLEAN
  /\ running \in Workers \cup {Script, NoWorker}
  /\ exited \in {"no", "natural", "aborted", "forced"}
  /\ overlapped \in BOOLEAN

Init ==
  /\ driver = [w \in Workers |-> "none"]
  /\ seen = [w \in Workers |-> 0]
  /\ reqs = 0
  /\ updating = NoWorker
  /\ loaded = 0
  /\ work = [r \in Workers \cup Requests |-> "none"]
  /\ calls = [w \in Workers |-> 0]
  /\ freed = [w \in Workers |-> FALSE]
  /\ keeper = FALSE
  /\ running = Script
  /\ exited = "no"
  /\ overlapped = FALSE

(* In the middle of an update the main thread does nothing else.            *)
InJS == running # NoWorker /\ updating = NoWorker /\ exited = "no"
InLoop == running = NoWorker /\ updating = NoWorker /\ exited = "no"

-----------------------------------------------------------------------------
(* JS on the main thread                                                   *)

(* The first half of an update by the main thread.                          *)
Load(r) == updating' = r /\ loaded' = reqs

(* The driver goes on by itself; or it refuses and the worker is leaked; or  *)
(* it calls notify from inside the call, on the main thread.               *)
Start(w) ==
  /\ InJS
  /\ driver[w] = "none"
  /\ \/ driver' = [driver EXCEPT ![w] = "working"] /\ UNCHANGED mainVars
     \/ driver' = [driver EXCEPT ![w] = "refused"] /\ UNCHANGED mainVars
     \/ Load(w) /\ UNCHANGED driver
  /\ UNCHANGED <<seen, reqs, work, calls, freed, keeper, running, exited>>

BuildProgram(w) == Start(w)
CompileProgram(w) == Start(w)
LinkProgram(w) == Start(w)
EnqueueSVMFree(w) == Start(w)

(* JS starts a request of its own.                                         *)
StartRequest(r) ==
  /\ InJS
  /\ r \in Requests /\ work[r] = "none"
  /\ Load(r)
  /\ UNCHANGED <<driver, seen, reqs, work, calls, freed, keeper, running, exited>>

(* uv_queue_work on the main thread: the store, and the post.               *)
StartStore(r) ==
  /\ updating = r /\ running # NoWorker /\ exited = "no"
  /\ reqs' = loaded + 1
  /\ updating' = NoWorker
  /\ work' = [work EXCEPT ![r] = "queued"]
  /\ driver' = IF r \in Workers THEN [driver EXCEPT ![r] = "done"] ELSE driver
  /\ UNCHANGED <<seen, loaded, calls, freed, keeper, running, exited>>

SwitchKeeper ==
  /\ InJS
  /\ keeper' = ~keeper
  /\ UNCHANGED <<driver, seen, reqs, mainVars, work, calls, freed, running, exited>>

(* After a callback Nan::AsyncWorker deletes the worker.                    *)
ReturnToLoop ==
  /\ InJS
  /\ running' = NoWorker
  /\ freed' = IF running = Script THEN freed ELSE [freed EXCEPT ![running] = TRUE]
  /\ UNCHANGED <<driver, seen, reqs, mainVars, work, calls, keeper, exited>>

-----------------------------------------------------------------------------
(* The driver's thread                                                     *)

Finish(w) ==
  /\ driver[w] = "working"
  /\ driver' = [driver EXCEPT ![w] = "finished"]
  /\ UNCHANGED <<seen, reqs, mainVars, work, calls, freed, keeper, running, exited>>

(* notifyPCB, notifySVMCB: AsyncQueueWorker, uv_queue_work, uv__req_init.   *)
NotifyLoad(w) ==
  /\ driver[w] = "finished"
  /\ driver' = [driver EXCEPT ![w] = "loaded"]
  /\ seen' = [seen EXCEPT ![w] = reqs]
  /\ UNCHANGED <<reqs, mainVars, work, calls, freed, keeper, running, exited>>

NotifyStore(w) ==
  /\ driver[w] = "loaded"
  /\ driver' = [driver EXCEPT ![w] = "counted"]
  /\ reqs' = seen[w] + 1
  /\ UNCHANGED <<seen, mainVars, work, calls, freed, keeper, running, exited>>

(* Mutant: the request is counted and never posted.                         *)
NotifyNeverPosts(w) ==
  /\ driver[w] = "counted"
  /\ driver' = [driver EXCEPT ![w] = "done"]
  /\ UNCHANGED <<seen, reqs, mainVars, work, calls, freed, keeper, running, exited>>

(* Mutant: the request may be posted a second time.                         *)
NotifyPostsAgain(w) ==
  /\ driver[w] = "counted"
  /\ work' = [work EXCEPT ![w] = "queued"]
  /\ UNCHANGED <<driver, seen, reqs, mainVars, calls, freed, keeper, running, exited>>

(* uv__work_submit, under the pool's mutex.                                *)
NotifyPost(w) ==
  /\ driver[w] = "counted"
  /\ driver' = [driver EXCEPT ![w] = "done"]
  /\ work' = [work EXCEPT ![w] = "queued"]
  /\ UNCHANGED <<seen, reqs, mainVars, calls, freed, keeper, running, exited>>

-----------------------------------------------------------------------------
(* The uv loop and its pool                                                *)

Execute(r) ==
  /\ work[r] = "queued"
  /\ work' = [work EXCEPT ![r] = "executed"]
  /\ UNCHANGED <<driver, seen, reqs, mainVars, calls, freed, keeper, running, exited>>

(* Mutant: the count is taken down without looking at it.                   *)
CompleteUnchecked(r) ==
  /\ InLoop
  /\ work[r] = "executed"
  /\ Load(r)
  /\ UNCHANGED <<driver, seen, reqs, work, calls, freed, keeper, running, exited>>

(* uv__work_done takes the request off the count, which must not be zero.    *)
Complete(r) ==
  /\ InLoop
  /\ work[r] = "executed"
  /\ IF reqs = 0 THEN exited' = "aborted" /\ UNCHANGED mainVars
                 ELSE Load(r) /\ UNCHANGED exited
  /\ UNCHANGED <<driver, seen, reqs, work, calls, freed, keeper, running>>

(* Mutant: a completed request stays on the count.                          *)
CompleteUncounted(r) ==
  /\ updating = r /\ running = NoWorker /\ exited = "no"
  /\ updating' = NoWorker
  /\ work' = [work EXCEPT ![r] = "none"]
  /\ running' = IF r \in Workers THEN r ELSE Script
  /\ calls' = IF r \in Workers THEN [calls EXCEPT ![r] = @ + 1] ELSE calls
  /\ UNCHANGED <<driver, seen, reqs, loaded, freed, keeper, exited>>

(* The store, and the call back: HandleOKCallback for a worker.             *)
CompleteStore(r) ==
  /\ updating = r /\ running = NoWorker /\ exited = "no"
  /\ reqs' = loaded - 1
  /\ updating' = NoWorker
  /\ work' = [work EXCEPT ![r] = "none"]
  /\ running' = IF r \in Workers THEN r ELSE Script
  /\ calls' = IF r \in Workers THEN [calls EXCEPT ![r] = @ + 1] ELSE calls
  /\ UNCHANGED <<driver, seen, loaded, freed, keeper, exited>>

NaturalExit ==
  /\ InLoop
  /\ reqs = 0 /\ ~keeper
  /\ exited' = "natural"
  /\ UNCHANGED <<driver, seen, reqs, mainVars, work, calls, freed, keeper, running>>

ForcedExit ==
  /\ exited = "no"
  /\ exited' = "forced"
  /\ UNCHANGED <<driver, seen, reqs, mainVars, work, calls, freed, keeper, running>>

-----------------------------------------------------------------------------
Step ==
  \/ \E w \in Workers :
       \/ BuildProgram(w) \/ CompileProgram(w) \/ LinkProgram(w) \/ EnqueueSVMFree(w)
       \/ Finish(w) \/ NotifyLoad(w) \/ NotifyStore(w) \/ NotifyPost(w)
  \/ \E r \in Requests : StartRequest(r)
  \/ \E r \in Workers \cup Requests :
       StartStore(r) \/ Execute(r) \/ Complete(r) \/ CompleteStore(r)
  \/ SwitchKeeper \/ ReturnToLoop \/ NaturalExit \/ ForcedExit

Loaded == {w \in Workers : driver[w] = "loaded"}

Overlap ==
  overlapped' =
    \/ overlapped
    \/ /\ reqs' # reqs
       /\ Loaded \cap Loaded' # {} \/ (updating # NoWorker /\ updating' = updating)

Next == Step /\ Overlap

(* The driver finishes its notification, the pool has a thread, JS returns  *)
(* and the loop serves completed requests.                                 *)
Fairness ==
  /\ WF_system(ReturnToLoop)
  /\ WF_system(NaturalExit)
  /\ \A w \in Workers :
       WF_system(Finish(w)) /\ WF_system(NotifyLoad(w)) /\ WF_system(NotifyStore(w))
       /\ WF_system(NotifyPost(w))
  /\ \A r \in Workers \cup Requests :
       /\ WF_system(StartStore(r)) /\ WF_system(Execute(r))
       /\ SF_system(Complete(r)) /\ WF_system(CompleteStore(r))

SafeSpec == Init /\ [][Next]_vars
Spec == SafeSpec /\ Fairness

-----------------------------------------------------------------------------
(* The callback runs at most once, after the driver is done with the worker *)
(* and never for a call it refused; the worker is deleted only after it     *)
(* and when neither the driver nor the pool has a pointer to it.           *)
CalledOnceThenFreed ==
  \A w \in Workers :
    /\ calls[w] > 0 => calls[w] = 1 /\ driver[w] = "done" /\ work[w] = "none"
    /\ freed[w] => calls[w] = 1

(* The loop's count is exact, and libuv's assertion never fails, unless some   *)
(* update of it, by a driver's thread or by the main thread, came between    *)
(* the load and the store of another: the rule of event.cpp:233,            *)
(* AsyncQueueWorker on the main thread only, which program.cpp:210 and       *)
(* svm.cpp:106 do not keep, is what makes the count right.                   *)
WrongOnlyByOverlap ==
  ~overlapped =>
    /\ reqs = Cardinality({r \in Workers \cup Requests : work[r] # "none"})
                + Cardinality({w \in Workers : driver[w] = "counted"})
    /\ exited # "aborted"

(* BuildCallback implements CallbackOnce only if every end of the process   *)
(* counts as forced: a natural end may come while a callback is owed.       *)
Promise(w) ==
  IF calls[w] > 0 THEN IF calls[w] = 1 THEN "called" ELSE "called again"
  ELSE IF driver[w] = "none" THEN "idle"
  ELSE IF driver[w] = "refused" THEN "refused"
  ELSE "waiting"

Once == INSTANCE CallbackOnce WITH
  promise <- [w \in Workers |-> Promise(w)],
  ready <- [w \in Workers |-> driver[w] \in {"finished", "loaded", "counted", "done"}],
  over <- IF exited = "no" THEN "no" ELSE "forced"

(* The callback of an accepted call is made once, after the driver is done, *)
(* and is made if the process goes on (program.cpp:173-211, svm.cpp:68-107). *)
ImplementsOnceUntilExit == Once!Spec

(* What the tests expect of a program that only builds and waits            *)
(* (test.program.js:58 "should build and call the callback"): the process   *)
(* does not come to its natural end while a callback is owed.              *)
NoCallbackLost ==
  exited = "natural" =>
    \A w \in Workers : driver[w] \notin {"none", "refused"} => calls[w] = 1
=============================================================================
