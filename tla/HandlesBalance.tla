--------------------------- MODULE HandlesBalance ---------------------------
(***************************************************************************)
(* Handles seen by a program that pairs its calls as OpenCL asks: one      *)
(* release*() for every create*(), retain*() or get*Info() that gave it a  *)
(* reference.  `balance` adds its calls up; the driver's count is compared *)
(* with it.  The second part is the end of the process: lib/opencl.js runs *)
(* releaseAll() when Node exits.                                           *)
(***************************************************************************)
EXTENDS Handles, Integers

VARIABLES
  balance,   \* balance[o]: references obtained minus references given back by JS
  phase      \* "running" JS, "exiting": inside the 'exit' handler, "exited"

balanceVars == <<vars, balance, phase>>

BalanceTypeOK ==
  /\ TypeOK
  /\ balance \in [Objs -> Int]
  /\ phase \in {"running", "exiting", "exited"}

BalanceInit == Init /\ balance = [o \in Objs |-> 0] /\ phase = "running"

(* Calls that obtain a reference and return it to JS.                      *)
Obtain ==
  /\ phase = "running"
  /\ \/ Creation
     \/ Query
     \/ \E w \in Wrappers, k \in Kinds : Acquire(w, k)
  /\ balance' = [o \in Objs |-> balance[o] + refs'[o] - refs[o]]
  /\ UNCHANGED phase

(* A release*() call of a program that still has a reference to give back:  *)
(* it answers CL_SUCCESS whether or not the driver was called.             *)
GiveBack ==
  /\ phase = "running"
  /\ \E w \in Wrappers, k \in Kinds :
       /\ Unwrap(w, k)
       /\ balance[raw[w]] > 0
       /\ ReleaseHandle(w, k)
       /\ balance' = [balance EXCEPT ![raw[w]] = @ - 1]
  /\ UNCHANGED phase

(* A wrapper JS lets go of gives back what JS has not, now or during the    *)
(* idle collection releaseAll() asks V8 for.                               *)
LetGo ==
  /\ phase # "exited"
  /\ \E w \in Wrappers :
       /\ Collect(w)
       /\ balance' = IF released[w] THEN balance ELSE [balance EXCEPT ![raw[w]] = @ - 1]
  /\ UNCHANGED phase

Free ==
  /\ \E o \in Objs : DriverDestroy(o) /\ balance' = [balance EXCEPT ![o] = 0]
  /\ UNCHANGED phase

(* process.on('exit'): releaseAll() calls Nan::IdleNotification(5), which   *)
(* may collect some unreachable wrappers, and returns.                     *)
ReleaseAll ==
  /\ phase = "running"
  /\ phase' = "exiting"
  /\ UNCHANGED <<vars, balance>>

Exit ==
  /\ phase = "exiting"
  /\ phase' = "exited"
  /\ UNCHANGED <<vars, balance>>

BalanceNext == Obtain \/ GiveBack \/ LetGo \/ Free \/ ReleaseAll \/ Exit

BalanceSpec == BalanceInit /\ [][BalanceNext]_balanceVars

-----------------------------------------------------------------------------
(* A paired program never loses an object it still has a reference to: the  *)
(* wrappers keep at least what the program's calls add up to, however       *)
(* releases, queries and collections of its wrappers interleave.           *)
NoEarlyFree == \A o \in Objs : Alive(o) => refs[o] >= balance[o]

(* What "one-to-one low-level wrapper" (README.md:99) says of the counts:   *)
(* OpenCL's count is what the program's calls add up to.                   *)
OneToOne == \A o \in Objs : Alive(o) /\ balance[o] >= 0 => refs[o] = balance[o]

(* What lib/opencl.js:24 says of releaseAll(): no object of the program     *)
(* keeps a reference when the process is gone.                             *)
AllReleasedAtExit == phase = "exited" => \A o \in Objs : refs[o] = 0
=============================================================================
