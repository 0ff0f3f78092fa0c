------------------------ MODULE CommandQueuesProofs ------------------------
(***************************************************************************)
(* Proofs about CommandQueues: the order JS asked for is the order commands *)
(* end in, a failure spreads along wait lists, and a call that only JS      *)
(* could release never returns, for any queues, events and bounds.         *)
(***************************************************************************)
EXTENDS CommandQueues, TLAPS

(* The order is passed on through commands that came before, so the         *)
(* invariant says which those are and that asked gathers what they ask.     *)
Numbered ==
  /\ \A c \in Commands : status[c] # "none" <=> c <= issued
  /\ \A c \in Commands : c > issued => queue[c] = NoQueue
  /\ \A q \in Queues : fence[q] <= issued

Before(c) == list[c] \cup after[c]

Linked ==
  \A c \in Commands : c <= issued =>
    /\ list[c] = given[c]
    /\ \A d \in Before(c) \cap Commands : d < c
    /\ asked[c] = Closure(Before(c))

EndsLate ==
  \A c \in Commands : Ended(c) => \A e \in Before(c) : Ended(e)

IInv == TypeOK /\ Numbered /\ Linked /\ EndsLate /\ RunsAfter /\ FailureSpreads

-----------------------------------------------------------------------------
(* All the handlers that enqueue hand the wait list on as it is.            *)
LEMMA EnqueueingAppends ==
  ASSUME NEW q, NEW W, Enqueueing(q, W)
  PROVE  \E blocking \in BOOLEAN, A \in {In(q), Earlier(q)} :
           /\ Append(q, W, W, A, blocking)
           /\ fence' = fence \/ fence' = [fence EXCEPT ![q] = issued + 1]
<1>1. CASE \E blocking \in BOOLEAN : Enqueue(q, W, blocking)
  BY <1>1 DEF Enqueue
<1>2. CASE EnqueueMarkerWithWaitList(q, W)
  <2>1. CASE W = {}
    BY <1>2, <2>1 DEF EnqueueMarkerWithWaitList
  <2>2. CASE W # {}
    BY <1>2, <2>2 DEF EnqueueMarkerWithWaitList
  <2> QED BY <2>1, <2>2
<1>3. CASE EnqueueBarrierWithWaitList(q, W)
  <2>1. CASE W = {}
    BY <1>3, <2>1 DEF EnqueueBarrierWithWaitList
  <2>2. CASE W # {}
    BY <1>3, <2>2 DEF EnqueueBarrierWithWaitList
  <2> QED BY <2>1, <2>2
<1> QED
  BY <1>1, <1>2, <1>3 DEF Enqueueing, EnqueueReadBuffer, EnqueueReadBufferRect,
     EnqueueWriteBuffer, EnqueueWriteBufferRect, EnqueueReadImage, EnqueueWriteImage,
     EnqueueMapBuffer, EnqueueMapImage, EnqueueSVMMemcpy, EnqueueSVMMap,
     EnqueueFillBuffer, EnqueueCopyBuffer, EnqueueCopyBufferRect, EnqueueFillImage,
     EnqueueCopyImage, EnqueueCopyImageToBuffer, EnqueueCopyBufferToImage,
     EnqueueUnmapMemObject, EnqueueMigrateMemObjects, EnqueueNDRangeKernel,
     EnqueueTask, EnqueueSVMMemFill, EnqueueSVMUnmap, EnqueueSVMFree

LEMMA InitIInv == Init => IInv
<1> SUFFICES ASSUME Init PROVE IInv
  OBVIOUS
<1>1. TypeOK
  <2>1. 0 \in 0..MaxCommands
    BY MaxCommandsIsNat
  <2>2. /\ issued \in 0..MaxCommands
        /\ queue \in [Commands -> Queues \cup {NoQueue}]
        /\ sent \in [Commands -> BOOLEAN]
        /\ status \in [Events -> {"none", "pending", "complete", "failed"}]
        /\ fence \in [Queues -> 0..MaxCommands]
    BY <2>1 DEF Init
  <2>3. /\ list \in [Commands -> SUBSET Events]
        /\ after \in [Commands -> SUBSET Commands]
        /\ given \in [Commands -> SUBSET Events]
        /\ asked \in [Commands -> SUBSET Events]
    BY DEF Init
  <2>4. blocked \in BOOLEAN /\ awaited \in SUBSET Events
    BY DEF Init
  <2> QED BY <2>2, <2>3, <2>4 DEF TypeOK
<1>2. Numbered
  BY MaxCommandsIsNat DEF Init, Numbered, Commands, Events
<1>3. Linked
  BY MaxCommandsIsNat DEF Init, Linked, Commands
<1>4. EndsLate /\ RunsAfter /\ FailureSpreads
  BY DEF Init, EndsLate, RunsAfter, FailureSpreads, Ended, Events
<1> QED BY <1>1, <1>2, <1>3, <1>4 DEF IInv

-----------------------------------------------------------------------------
(* A new command comes after earlier ones only.                             *)
LEMMA AppendKeeps ==
  ASSUME IInv, NEW q \in Queues, NEW W \in SUBSET Known, NEW blocking \in BOOLEAN,
         NEW A \in {In(q), Earlier(q)}, Append(q, W, W, A, blocking),
         fence' = fence \/ fence' = [fence EXCEPT ![q] = issued + 1]
  PROVE  IInv'
<1> DEFINE n == issued + 1
<1>0. /\ TypeOK /\ Numbered /\ Linked /\ EndsLate /\ RunsAfter /\ FailureSpreads
      /\ issued \in Nat /\ n \in Commands /\ MaxCommands \in Nat
  BY MaxCommandsIsNat DEF IInv, TypeOK, Append, Commands
<1>1. /\ issued' = n
      /\ queue' = [queue EXCEPT ![n] = q]
      /\ list' = [list EXCEPT ![n] = W]
      /\ after' = [after EXCEPT ![n] = A]
      /\ given' = [given EXCEPT ![n] = W]
      /\ asked' = [asked EXCEPT ![n] = Closure(W \cup A)]
      /\ status' = [status EXCEPT ![n] = "pending"]
      /\ sent' = IF blocking THEN [Submitted(q) EXCEPT ![n] = TRUE] ELSE sent
      /\ blocked' = blocking
      /\ awaited' = IF blocking THEN {n} ELSE {}
  BY DEF Append
<1>2. /\ W \subseteq Events
      /\ \A d \in W \cap Commands : d <= issued
  BY <1>0 DEF Known, Numbered
<1>3. A \subseteq Commands /\ \A d \in A : d <= issued
  <2>1. In(q) \subseteq Commands /\ \A d \in In(q) : d <= issued
    BY <1>0, NoQueueIsNoQueue DEF In, Numbered, TypeOK, Commands
  <2>2. fence[q] \in 0..MaxCommands /\ fence[q] <= issued
    BY <1>0 DEF TypeOK, Numbered
  <2>3. {fence[q]} \ {0} \subseteq Commands /\ \A d \in {fence[q]} \ {0} : d <= issued
    BY <2>2, <1>0 DEF Commands
  <2> QED BY <2>1, <2>3 DEF Earlier
<1>4. status[n] = "none"
  BY <1>0 DEF Numbered, Commands
<1>5. Closure(W \cup A) \subseteq Events
  BY <1>0, <1>2, <1>3 DEF Closure, TypeOK, Events
<1>6. TypeOK'
  <2>1. /\ list' \in [Commands -> SUBSET Events]
        /\ given' \in [Commands -> SUBSET Events]
        /\ after' \in [Commands -> SUBSET Commands]
        /\ asked' \in [Commands -> SUBSET Events]
    BY <1>0, <1>1, <1>2, <1>3, <1>5 DEF TypeOK
  <2>2. /\ sent' \in [Commands -> BOOLEAN]
        /\ blocked' \in BOOLEAN
    BY <1>0, <1>1 DEF TypeOK, Submitted
  <2>3. /\ status' \in [Events -> {"none", "pending", "complete", "failed"}]
        /\ awaited' \in SUBSET Events
    BY <1>0, <1>1 DEF TypeOK, Events
  <2>4. issued' \in 0..MaxCommands
    BY <1>0, <1>1 DEF Commands
  <2>5. queue' \in [Commands -> Queues \cup {NoQueue}]
    BY <1>0, <1>1 DEF TypeOK
  <2>6. fence' \in [Queues -> 0..MaxCommands]
    BY <1>0, <1>1, <2>4 DEF TypeOK
  <2> QED BY <2>1, <2>2, <2>3, <2>4, <2>5, <2>6 DEF TypeOK
<1>7. \A c \in Commands : Ended(c)' <=> Ended(c)
  BY <1>0, <1>1, <1>4 DEF Ended, TypeOK, Events
<1>8. \A e \in Events : Ended(e) => Ended(e)' /\ status'[e] = status[e]
  BY <1>0, <1>1, <1>4 DEF Ended, TypeOK
<1>9. Numbered'
  <2>1. \A c \in Commands : status'[c] # "none" <=> c <= issued'
    BY <1>0, <1>1 DEF Numbered, TypeOK, Events, Commands
  <2>2. \A c \in Commands : c > issued' => queue'[c] = NoQueue
    BY <1>0, <1>1 DEF Numbered, TypeOK, Commands
  <2>3. \A p \in Queues : fence'[p] <= issued'
    BY <1>0, <1>1 DEF Numbered, TypeOK
  <2> QED BY <2>1, <2>2, <2>3 DEF Numbered
<1>10. \A c \in Commands : c # n =>
         /\ list'[c] = list[c] /\ after'[c] = after[c]
         /\ given'[c] = given[c] /\ asked'[c] = asked[c]
  BY <1>0, <1>1 DEF TypeOK
<1>11. /\ list'[n] = W /\ after'[n] = A
       /\ given'[n] = W /\ asked'[n] = Closure(W \cup A)
  BY <1>0, <1>1 DEF TypeOK
<1>12. ASSUME NEW E \in SUBSET Events, \A d \in E \cap Commands : d <= issued
       PROVE  Closure(E)' = Closure(E)
  BY <1>12, <1>10, <1>0 DEF Closure, Commands
<1>13. Linked'
  <2> SUFFICES ASSUME NEW c \in Commands, c <= issued'
               PROVE  /\ list'[c] = given'[c]
                      /\ \A d \in Before(c)' \cap Commands : d < c
                      /\ asked'[c] = Closure(Before(c))'
    BY DEF Linked
  <2>1. CASE c = n
    <3>1. Before(c)' = W \cup A /\ W \cup A \in SUBSET Events
      BY <2>1, <1>11, <1>2, <1>3 DEF Before, Events
    <3>2. \A d \in (W \cup A) \cap Commands : d <= issued /\ d < n
      BY <1>2, <1>3, <1>0 DEF Commands
    <3>3. Closure(W \cup A)' = Closure(W \cup A)
      <4> HIDE DEF Closure
      <4> QED BY <3>1, <3>2, <1>12
    <3>4. Closure(Before(c))' = Closure(W \cup A)
      BY <3>1, <3>3 DEF Closure
    <3> QED BY <2>1, <3>1, <3>2, <3>4, <1>11
  <2>2. CASE c # n
    <3>1. c <= issued
      BY <2>2, <1>0, <1>1 DEF Commands
    <3>2. /\ list[c] = given[c]
          /\ \A d \in Before(c) \cap Commands : d < c
          /\ asked[c] = Closure(Before(c))
      BY <3>1, <1>0 DEF Linked
    <3>3. Before(c)' = Before(c) /\ Before(c) \in SUBSET Events
      BY <2>2, <1>10, <1>0 DEF Before, TypeOK, Events
    <3>4. \A d \in Before(c) \cap Commands : d <= issued
      BY <3>1, <3>2, <1>0 DEF Commands
    <3>5. \A d \in Before(c) \cap Commands : asked'[d] = asked[d]
      BY <3>4, <1>10, <1>0 DEF Commands
    <3>6. Closure(Before(c))' = Closure(Before(c))
      BY <3>3, <3>5 DEF Closure
    <3> QED BY <2>2, <3>2, <3>3, <3>6, <1>10
  <2> QED BY <2>1, <2>2
<1>14. ASSUME NEW c \in Commands, Ended(c)' PROVE c # n /\ Ended(c)
  BY <1>14, <1>7, <1>4 DEF Ended
<1>15. EndsLate'
  <2> SUFFICES ASSUME NEW c \in Commands, Ended(c)', NEW e \in Before(c)'
               PROVE  Ended(e)'
    BY DEF EndsLate
  <2>1. c # n /\ Ended(c)
    BY <1>14
  <2>2. e \in Before(c) /\ e \in Events
    BY <2>1, <1>10, <1>0 DEF Before, TypeOK, Events
  <2> QED BY <2>1, <2>2, <1>8, <1>0 DEF EndsLate
<1>16. RunsAfter'
  <2> SUFFICES ASSUME NEW c \in Commands, Ended(c)', NEW e \in asked'[c]
               PROVE  Ended(e)'
    BY DEF RunsAfter
  <2>1. c # n /\ Ended(c)
    BY <1>14
  <2>2. e \in asked[c] /\ e \in Events
    BY <2>1, <1>10, <1>0 DEF TypeOK
  <2> QED BY <2>1, <2>2, <1>8, <1>0 DEF RunsAfter
<1>17. FailureSpreads'
  <2> SUFFICES ASSUME NEW c \in Commands, status'[c] = "complete", NEW e \in given'[c]
               PROVE  status'[e] = "complete"
    BY DEF FailureSpreads
  <2>1. c # n /\ status[c] = "complete"
    BY <1>0, <1>1 DEF TypeOK, Events
  <2>2. e \in given[c] /\ e \in Events
    BY <2>1, <1>10, <1>0 DEF TypeOK
  <2>3. status[e] = "complete"
    BY <2>1, <2>2, <1>0 DEF FailureSpreads
  <2> QED BY <2>2, <2>3, <1>8 DEF Ended
<1> QED BY <1>6, <1>9, <1>13, <1>15, <1>16, <1>17 DEF IInv

-----------------------------------------------------------------------------
(* The other steps move no command and end no event that had not ended but  *)
(* one.                                                                    *)
StatusMoves ==
  /\ UNCHANGED commandVars
  /\ \A e \in Events : Ended(e) => status'[e] = status[e]
  /\ \A c \in Commands : status'[c] # "none" <=> status[c] # "none"

LEMMA MovesKeep ==
  ASSUME IInv, TypeOK', StatusMoves,
         \A c \in Commands : Ended(c)' =>
           Ended(c) \/ \A e \in Before(c) : Ended(e),
         \A c \in Commands : status'[c] = "complete" =>
           status[c] = "complete" \/ \A e \in given[c] : status[e] = "complete"
  PROVE  IInv'
<1>0. TypeOK /\ Numbered /\ Linked /\ EndsLate /\ RunsAfter /\ FailureSpreads
  BY DEF IInv
<1>1. /\ issued' = issued /\ queue' = queue /\ list' = list /\ after' = after
      /\ given' = given /\ asked' = asked /\ fence' = fence
  BY DEF StatusMoves, commandVars
<1>2. \A e \in Events : Ended(e) => Ended(e)' /\ status'[e] = status[e]
  BY DEF StatusMoves, Ended
<1>3. \A c \in Commands : c \in Events
  BY DEF Events
<1>4. \A c \in Commands : status'[c] # "none" => c <= issued
  BY <1>0 DEF StatusMoves, Numbered
<1>5. Numbered'
  BY <1>0, <1>1 DEF StatusMoves, Numbered
<1>6. Linked'
  BY <1>0, <1>1 DEF Linked, Before, Closure
<1>7. ASSUME NEW c \in Commands, Ended(c)', NEW e \in Before(c) PROVE Ended(e)
  BY <1>7, <1>0 DEF EndsLate
<1>8. EndsLate'
  <2> SUFFICES ASSUME NEW c \in Commands, Ended(c)', NEW e \in Before(c)'
               PROVE  Ended(e)'
    BY DEF EndsLate
  <2>1. e \in Before(c) /\ e \in Events
    BY <1>0, <1>1 DEF Before, TypeOK, Events
  <2> QED BY <2>1, <1>7, <1>2
<1>9. RunsAfter'
  <2> SUFFICES ASSUME NEW c \in Commands, Ended(c)', NEW e \in asked'[c]
               PROVE  Ended(e)'
    BY DEF RunsAfter
  <2>1. c <= issued
    BY <1>4 DEF Ended
  <2>2. e \in Closure(Before(c)) /\ e \in Events
    BY <2>1, <1>0, <1>1 DEF Linked, TypeOK
  <2>3. CASE e \in Before(c)
    BY <2>2, <2>3, <1>7, <1>2
  <2>4. CASE \E d \in Before(c) \cap Commands : e \in asked[d]
    <3>1. PICK d \in Before(c) \cap Commands : e \in asked[d]
      BY <2>4
    <3>2. Ended(d)
      BY <3>1, <1>7
    <3>3. Ended(e)
      BY <3>1, <3>2, <1>0 DEF RunsAfter
    <3> QED BY <3>3, <2>2, <1>2
  <2> QED BY <2>2, <2>3, <2>4 DEF Closure
<1>10. FailureSpreads'
  <2> SUFFICES ASSUME NEW c \in Commands, status'[c] = "complete", NEW e \in given'[c]
               PROVE  status'[e] = "complete"
    BY DEF FailureSpreads
  <2>1. e \in given[c] /\ e \in Events
    BY <1>0, <1>1 DEF TypeOK
  <2>2. status[e] = "complete"
    BY <2>1, <1>0 DEF FailureSpreads
  <2> QED BY <2>1, <2>2, <1>2 DEF Ended
<1> QED BY <1>5, <1>6, <1>8, <1>9, <1>10 DEF IInv
-----------------------------------------------------------------------------
LEMMA NextIInv == IInv /\ [Next]_vars => IInv'
<1> SUFFICES ASSUME IInv, [Next]_vars PROVE IInv'
  OBVIOUS
<1>0. TypeOK /\ Linked
  BY DEF IInv
<1>1. ASSUME NEW q \in Queues, NEW W \in Lists, Enqueueing(q, W)
      PROVE  IInv'
  <2>1. W \in SUBSET Known
    BY DEF Lists
  <2>2. PICK blocking \in BOOLEAN, A \in {In(q), Earlier(q)} :
           /\ Append(q, W, W, A, blocking)
           /\ fence' = fence \/ fence' = [fence EXCEPT ![q] = issued + 1]
    BY <1>1, EnqueueingAppends
  <2> QED BY <2>1, <2>2, AppendKeeps
<1>2. ASSUME NEW u \in UserEvents, NEW s \in {"pending", "complete", "failed"},
             status[u] \in {"none", "pending"},
             status' = [status EXCEPT ![u] = s],
             UNCHANGED <<commandVars, sent, blocked, awaited>>
      PROVE  IInv'
  <2>1. u \in Events /\ \A c \in Commands : c \in Events /\ c # u
    BY UserEventsAreOther DEF Events, Commands
  <2>2. TypeOK'
    BY <1>0, <1>2, <2>1 DEF TypeOK, commandVars
  <2>3. \A c \in Commands : status'[c] = status[c]
    BY <1>0, <1>2, <2>1 DEF TypeOK
  <2>4. StatusMoves
    BY <1>0, <1>2, <2>3 DEF StatusMoves, TypeOK, Ended
  <2> QED BY <2>2, <2>3, <2>4, MovesKeep DEF Ended
<1>3. ASSUME UNCHANGED commandVars, UNCHANGED status, TypeOK'
      PROVE  IInv'
  <2>1. StatusMoves
    BY <1>3 DEF StatusMoves
  <2> QED BY <1>3, <2>1, MovesKeep DEF Ended
<1>4. ASSUME NEW c \in Commands, Execute(c)
      PROVE  IInv'
  <2>1. PICK s \in {"complete", "failed"} :
          /\ s = "complete" => \A e \in list[c] : status[e] = "complete"
          /\ status' = [status EXCEPT ![c] = s]
    BY <1>4 DEF Execute
  <2>2. /\ status[c] = "pending" /\ c \in Events
        /\ \A e \in Before(c) : Ended(e)
        /\ UNCHANGED <<commandVars, sent, blocked, awaited>>
    BY <1>4 DEF Execute, Before, Events
  <2>3. TypeOK'
    BY <1>0, <2>1, <2>2 DEF TypeOK, commandVars
  <2>4. \A e \in Events : e # c => status'[e] = status[e]
    BY <1>0, <2>1 DEF TypeOK
  <2>5. status'[c] = s
    BY <1>0, <2>1, <2>2 DEF TypeOK
  <2>6. StatusMoves
    BY <2>2, <2>4, <2>5 DEF StatusMoves, Ended, Events
  <2>7. \A d \in Commands : Ended(d)' => Ended(d) \/ \A e \in Before(d) : Ended(e)
    BY <2>2, <2>4 DEF Ended, Events
  <2>8. list[c] = given[c]
    BY <1>0, <2>2 DEF Linked, IInv, Numbered
  <2>9. \A d \in Commands : status'[d] = "complete" =>
           status[d] = "complete" \/ \A e \in given[d] : status[e] = "complete"
    BY <2>1, <2>4, <2>5, <2>8 DEF Events
  <2> QED BY <2>3, <2>6, <2>7, <2>9, MovesKeep
<1>5. ASSUME NEW u \in UserEvents, CreateUserEvent(u)
      PROVE  IInv'
  BY <1>5, <1>2 DEF CreateUserEvent
<1>6. ASSUME NEW u \in UserEvents, NEW s \in {"complete", "failed"},
             SetUserEventStatus(u, s)
      PROVE  IInv'
  BY <1>6, <1>2 DEF SetUserEventStatus
<1>7. ASSUME NEW q \in Queues, Flush(q)
      PROVE  IInv'
  <2>1. TypeOK'
    BY <1>0, <1>7 DEF Flush, TypeOK, Submitted, commandVars
  <2> QED BY <1>7, <2>1, <1>3 DEF Flush
<1>8. ASSUME NEW q \in Queues, Finish(q)
      PROVE  IInv'
  <2>1. TypeOK'
    BY <1>0, <1>8 DEF Finish, TypeOK, Submitted, commandVars, In, Events
  <2> QED BY <1>8, <2>1, <1>3 DEF Finish
<1>9. ASSUME NEW W \in Lists, WaitForEvents(W)
      PROVE  IInv'
  <2>1. sent' \in [Commands -> BOOLEAN]
    BY <1>0, <1>9 DEF WaitForEvents, TypeOK
  <2>2. TypeOK'
    BY <1>0, <1>9, <2>1 DEF WaitForEvents, TypeOK, commandVars, Lists, Known
  <2> QED BY <1>9, <2>2, <1>3 DEF WaitForEvents
<1>10. CASE Return
  <2>1. TypeOK'
    BY <1>0, <1>10 DEF Return, TypeOK, commandVars
  <2> QED BY <1>10, <2>1, <1>3 DEF Return
<1>11. CASE UNCHANGED vars
  <2>1. TypeOK'
    BY <1>0, <1>11 DEF vars, TypeOK
  <2> QED BY <1>11, <2>1, <1>3 DEF vars, commandVars
<1> QED
  BY <1>1, <1>4, <1>5, <1>6, <1>7, <1>8, <1>9, <1>10, <1>11 DEF Next

LEMMA Invariance == SafeSpec => []IInv
<1> QED BY InitIInv, NextIInv, PTL DEF SafeSpec

-----------------------------------------------------------------------------
(* Type correctness: a command keeps its place among the commands enqueued, *)
(* and a call waits for events there are.                                  *)
THEOREM TypeCorrect == SafeSpec => []TypeOK
<1>1. IInv => TypeOK
  BY DEF IInv
<1> QED BY <1>1, Invariance, PTL

(* Commands end in the order JS asked for, through any chain of wait lists, *)
(* in-order queues, markers and barriers, over any number of queues.        *)
THEOREM Ordered == SafeSpec => []RunsAfter
<1>1. IInv => RunsAfter
  BY DEF IInv
<1> QED BY <1>1, Invariance, PTL

(* A command completes only when all of its wait list has completed: what   *)
(* JS reads after a command that completed was computed, not skipped.       *)
THEOREM FailuresSpread == SafeSpec => []FailureSpreads
<1>1. IInv => FailureSpreads
  BY DEF IInv
<1> QED BY <1>1, Invariance, PTL

(* A call that waits for what only JS can do holds the main thread for good: *)
(* no step of the driver releases it, because what it waits for cannot end  *)
(* before the event or the command that nobody can set or send.             *)
THEOREM NoWayOut == SafeSpec => HopelessForever
<1>1. ASSUME IInv, [Next]_vars, Hopeless
      PROVE  Hopeless'
  <2>0. TypeOK /\ RunsAfter /\ blocked
    BY <1>1 DEF IInv, Hopeless
  <2>1. PICK e \in Closure(awaited) :
          /\ status[e] = "pending"
          /\ \/ e \in UserEvents
             \/ ~sent[e] /\ \A d \in awaited \cap Commands : queue[d] # queue[e]
    BY <1>1 DEF Hopeless
  <2>2. \A c \in UserEvents : c \notin Commands
    BY UserEventsAreOther DEF Commands
  <2>3. ~Return
    <3> SUFFICES ASSUME Return PROVE FALSE
      OBVIOUS
    <3>1. \A d \in awaited : Ended(d)
      BY DEF Return
    <3>2. CASE e \in awaited
      BY <2>1, <3>1, <3>2 DEF Ended
    <3>3. CASE \E d \in awaited \cap Commands : e \in asked[d]
      BY <2>0, <2>1, <3>1, <3>3 DEF RunsAfter, Ended
    <3> QED BY <3>2, <3>3, <2>1 DEF Closure
  <2>4. CASE \E c \in Commands : Execute(c)
    <3>1. PICK c \in Commands : Execute(c)
      BY <2>4
    <3>2. /\ sent[c] /\ UNCHANGED <<commandVars, sent, blocked, awaited>>
          /\ \E s : status' = [status EXCEPT ![c] = s]
      BY <3>1 DEF Execute
    <3>3. c # e
      BY <2>1, <2>2, <3>2
    <3>4. e \in Events
      BY <2>0, <2>1 DEF TypeOK, Closure
    <3>5. status'[e] = "pending"
      BY <2>0, <2>1, <3>2, <3>3, <3>4 DEF TypeOK
    <3>6. Closure(awaited)' = Closure(awaited)
      BY <3>2 DEF Closure, commandVars
    <3> QED BY <2>0, <2>1, <3>2, <3>5, <3>6 DEF Hopeless, commandVars
  <2>5. CASE UNCHANGED vars
    <3>1. Closure(awaited)' = Closure(awaited)
      BY <2>5 DEF vars, Closure
    <3> QED BY <2>0, <2>1, <2>5, <3>1 DEF vars, Hopeless
  <2>6. ASSUME NEW q \in Queues, NEW W \in Lists, Enqueueing(q, W)
        PROVE  FALSE
    BY <2>0, <2>6, EnqueueingAppends DEF Append
  <2> QED
    BY <1>1, <2>0, <2>3, <2>4, <2>5, <2>6 DEF Next, CreateUserEvent,
       SetUserEventStatus, Flush, Finish, WaitForEvents
<1>2. [Next]_vars /\ IInv => [Hopeless => Hopeless']_vars
  BY <1>1
<1> QED BY <1>2, Invariance, PTL DEF SafeSpec, HopelessForever
=============================================================================
