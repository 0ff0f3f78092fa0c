------------------------ MODULE HandlesBalanceProofs ------------------------
(***************************************************************************)
(* Proofs about HandlesBalance for any sets of addresses, wrappers and      *)
(* kinds.  A program that pairs its calls takes the steps of Handles, so    *)
(* all that is proved of Handles holds of it; what is added is the ledger   *)
(* of its calls, which the driver's counts always cover.                   *)
(***************************************************************************)
EXTENDS HandlesBalance, HandlesProofs

(* The count of every address, in use or free, covers the program's calls:  *)
(* an address the driver reuses starts with no debt of an earlier object.  *)
Covered == \A o \in Objs : refs[o] >= balance[o]

BalanceInv == IInv /\ BalanceTypeOK /\ Covered

-----------------------------------------------------------------------------
(* Every step of the paired program is one of Handles, or none of its state *)
(* is touched: the end of the process changes neither wrappers nor objects. *)
LEMMA BalanceStepIsStep ==
  ASSUME [BalanceNext]_balanceVars
  PROVE  [Next]_vars
<1>1. ASSUME NEW w \in Wrappers, NEW k \in Kinds, Acquire(w, k) \/ ReleaseHandle(w, k)
      PROVE  Next
  <2>1. k \in {"context", "queue", "mem", "sampler", "program", "kernel", "event"}
    BY KindsAreKinds
  <2>2. Counting
    BY <1>1, <2>1 DEF Counting, RetainContext, RetainCommandQueue, RetainMemObject,
       RetainSampler, RetainProgram, RetainKernel, RetainEvent, ReleaseContext,
       ReleaseCommandQueue, ReleaseMemObject, ReleaseSampler, ReleaseProgram,
       ReleaseKernel, ReleaseEvent
  <2> QED  BY <2>2 DEF Next
<1>2. CASE Obtain
  BY <1>1, <1>2 DEF Obtain, Next
<1>3. CASE GiveBack
  <2>1. \E w \in Wrappers, k \in Kinds : ReleaseHandle(w, k)  BY <1>3 DEF GiveBack
  <2> QED  BY <1>1, <2>1
<1>4. CASE LetGo
  <2>1. \E w \in Wrappers : Collect(w)  BY <1>4 DEF LetGo
  <2> QED  BY <2>1 DEF Next
<1>5. CASE Free
  <2>1. \E o \in Objs : DriverDestroy(o)  BY <1>5 DEF Free
  <2> QED  BY <2>1 DEF Next
<1>6. CASE ReleaseAll \/ Exit  BY <1>6 DEF ReleaseAll, Exit
<1>7. CASE UNCHANGED balanceVars  BY <1>7 DEF balanceVars
<1> QED  BY <1>2, <1>3, <1>4, <1>5, <1>6, <1>7 DEF BalanceNext

(* The end of the process, and a step of nobody, leave the wrappers and the  *)
(* objects as they are.                                                    *)
LEMMA StutterKeepsHandles ==
  ASSUME IInv, UNCHANGED vars
  PROVE  IInv'
<1> USE DEF vars
<1>1. TypeOK' /\ UnusedPlaces'  BY DEF IInv, TypeOK, UnusedPlaces
<1>2. \A o : Alive(o)' <=> Alive(o)  BY DEF Alive
<1>3. UnreleasedValid'  BY DEF IInv, UnreleasedValid, Valid, Alive
<1>4. \A o : Owners(o)' = Owners(o)  BY DEF Owners
<1>5. Accounting'  BY <1>2, <1>4 DEF IInv, Accounting
<1>6. ParentsOutliveChildren'  BY DEF IInv, ParentsOutliveChildren, Alive
<1> QED  BY <1>1, <1>3, <1>5, <1>6 DEF IInv

(* What Handles proves of its own steps, for the paired program.            *)
LEMMA BalanceStepKeepsHandles ==
  ASSUME IInv, [BalanceNext]_balanceVars
  PROVE  IInv'
<1>1. [Next]_vars  BY BalanceStepIsStep
<1> QED  BY <1>1, NextKeeps, StutterKeepsHandles

-----------------------------------------------------------------------------
(* A call that hands references to JS adds to the ledger what it adds to    *)
(* the counts.                                                             *)
LEMMA ObtainCovers ==
  ASSUME BalanceInv, IInv', Obtain
  PROVE  BalanceTypeOK' /\ Covered'
<1>1. refs \in [Objs -> Nat] /\ refs' \in [Objs -> Nat] /\ balance \in [Objs -> Int]
  BY DEF BalanceInv, BalanceTypeOK, IInv, TypeOK
<1>2. balance' = [o \in Objs |-> balance[o] + refs'[o] - refs[o]] /\ phase' = phase
  BY DEF Obtain
<1>3. \A o \in Objs : refs[o] >= balance[o]  BY DEF BalanceInv, Covered
<1>4. \A o \in Objs : refs'[o] >= balance'[o]  BY <1>1, <1>2, <1>3
<1>5. balance' \in [Objs -> Int]  BY <1>1, <1>2
<1> QED  BY <1>2, <1>4, <1>5 DEF BalanceInv, BalanceTypeOK, IInv, Covered

(* A release*() call takes one off the ledger and at most one off the       *)
(* count: none when the wrapper was released before.                       *)
LEMMA GiveBackCovers ==
  ASSUME BalanceInv, IInv', GiveBack
  PROVE  BalanceTypeOK' /\ Covered'
<1>1. PICK w \in Wrappers, k \in Kinds :
        /\ Unwrap(w, k)
        /\ ReleaseHandle(w, k)
        /\ balance' = [balance EXCEPT ![raw[w]] = @ - 1]
  BY DEF GiveBack
<1>2. raw[w] \in Objs  BY <1>1 DEF Unwrap, Valid, Alive
<1>3. refs \in [Objs -> Nat] /\ refs' \in [Objs -> Nat] /\ balance \in [Objs -> Int]
  BY DEF BalanceInv, BalanceTypeOK, IInv, TypeOK
<1>4. refs' = refs \/ refs' = [refs EXCEPT ![raw[w]] = @ - 1]
  BY <1>1 DEF ReleaseHandle, Release, vars
<1>5. \A o \in Objs : refs[o] >= balance[o]  BY DEF BalanceInv, Covered
<1>6. \A o \in Objs : refs'[o] >= balance'[o]
  <2> SUFFICES ASSUME NEW o \in Objs PROVE refs'[o] >= balance'[o]  OBVIOUS
  <2>1. CASE o = raw[w]
    <3>1. balance'[o] = balance[o] - 1  BY <1>1, <1>2, <1>3, <2>1
    <3>2. refs'[o] = refs[o] \/ refs'[o] = refs[o] - 1  BY <1>2, <1>3, <1>4, <2>1
    <3> QED  BY <1>3, <1>5, <3>1, <3>2
  <2>2. CASE o # raw[w]
    <3>1. balance'[o] = balance[o] /\ refs'[o] = refs[o]  BY <1>1, <1>3, <1>4, <2>2
    <3> QED  BY <1>5, <3>1
  <2> QED  BY <2>1, <2>2
<1>7. balance' \in [Objs -> Int]  BY <1>1, <1>2, <1>3
<1>8. phase' = phase  BY DEF GiveBack
<1> QED  BY <1>6, <1>7, <1>8 DEF BalanceInv, BalanceTypeOK, IInv, Covered

(* A collected wrapper takes one off both, or off neither.                  *)
LEMMA LetGoCovers ==
  ASSUME BalanceInv, IInv', LetGo
  PROVE  BalanceTypeOK' /\ Covered'
<1>1. PICK w \in Wrappers :
        /\ Collect(w)
        /\ balance' = IF released[w] THEN balance ELSE [balance EXCEPT ![raw[w]] = @ - 1]
  BY DEF LetGo
<1>3. refs \in [Objs -> Nat] /\ refs' \in [Objs -> Nat] /\ balance \in [Objs -> Int]
  BY DEF BalanceInv, BalanceTypeOK, IInv, TypeOK
<1>4. \A o \in Objs : refs[o] >= balance[o]  BY DEF BalanceInv, Covered
<1>5. balance' \in [Objs -> Int] /\ Covered'
  <2>1. CASE released[w]
    <3>1. refs' = refs /\ balance' = balance  BY <1>1, <2>1 DEF Collect
    <3> QED  BY <1>3, <1>4, <3>1 DEF Covered
  <2>2. CASE ~released[w]
    <3>1. /\ refs' = [refs EXCEPT ![raw[w]] = @ - 1]
          /\ balance' = [balance EXCEPT ![raw[w]] = @ - 1]
      BY <1>1, <2>2 DEF Collect
    <3>2. raw[w] \in Objs
      BY <1>1, <2>2, OwnedIsReferenced DEF Collect, BalanceInv
    <3>3. balance' \in [Objs -> Int]  BY <1>3, <3>1, <3>2
    <3>4. \A o \in Objs : refs'[o] >= balance'[o]
      BY <1>3, <1>4, <3>1, <3>2
    <3> QED  BY <3>3, <3>4 DEF Covered
  <2> QED  BY <2>1, <2>2
<1>6. phase' = phase  BY DEF LetGo
<1> QED  BY <1>5, <1>6 DEF BalanceInv, BalanceTypeOK, IInv

(* An object the driver frees takes its debt with it.                       *)
LEMMA FreeCovers ==
  ASSUME BalanceInv, IInv', Free
  PROVE  BalanceTypeOK' /\ Covered'
<1>1. PICK o \in Objs : DriverDestroy(o) /\ balance' = [balance EXCEPT ![o] = 0]
  BY DEF Free
<1>2. refs \in [Objs -> Nat] /\ balance \in [Objs -> Int]
  BY DEF BalanceInv, BalanceTypeOK, IInv, TypeOK
<1>3. refs' = refs  BY <1>1 DEF DriverDestroy
<1>4. \A p \in Objs : refs[p] >= balance[p]  BY DEF BalanceInv, Covered
<1>5. \A p \in Objs : refs'[p] >= balance'[p]  BY <1>1, <1>2, <1>3, <1>4
<1>6. balance' \in [Objs -> Int] /\ phase' = phase  BY <1>1, <1>2 DEF Free
<1> QED  BY <1>5, <1>6 DEF BalanceInv, BalanceTypeOK, IInv, Covered

(* No step of the paired program leaves it owed more than the driver counts. *)
LEMMA BalanceNextKeeps ==
  ASSUME BalanceInv, [BalanceNext]_balanceVars
  PROVE  BalanceInv'
<1>1. IInv'  BY BalanceStepKeepsHandles DEF BalanceInv
<1>2. CASE ReleaseAll \/ Exit
  <2>1. UNCHANGED <<vars, balance>> /\ phase' \in {"running", "exiting", "exited"}
    BY <1>2 DEF ReleaseAll, Exit
  <2> QED  BY <1>1, <2>1 DEF BalanceInv, BalanceTypeOK, Covered, IInv, vars
<1>3. CASE UNCHANGED balanceVars
  BY <1>1, <1>3 DEF balanceVars, BalanceInv, BalanceTypeOK, Covered, IInv, vars
<1>4. CASE Obtain \/ GiveBack \/ LetGo \/ Free
  BY <1>1, <1>4, ObtainCovers, GiveBackCovers, LetGoCovers, FreeCovers DEF BalanceInv
<1> QED  BY <1>2, <1>3, <1>4 DEF BalanceNext

-----------------------------------------------------------------------------
(* The inductive invariant holds in every state of a paired program.        *)
THEOREM BalanceInvariance == BalanceSpec => []BalanceInv
<1>1. BalanceInit => BalanceInv
  BY InitEstablishes DEF BalanceInit, BalanceInv, BalanceTypeOK, IInv, TypeOK, Covered, Init
<1> QED  BY <1>1, BalanceNextKeeps, PTL DEF BalanceSpec

(* A program that pairs its calls is a program of Handles, up to the exit   *)
(* of the process: every theorem about Spec holds of it.                   *)
THEOREM PairedProgramIsProgram == BalanceSpec => Spec
<1>1. BalanceInit => Init  BY DEF BalanceInit
<1> QED  BY <1>1, BalanceStepIsStep, PTL DEF BalanceSpec, Spec

(* The ledger is a number for every address, whatever is reused.            *)
THEOREM BalanceTypeCorrect == BalanceSpec => []BalanceTypeOK
<1>1. BalanceInv => BalanceTypeOK  BY DEF BalanceInv
<1> QED  BY <1>1, BalanceInvariance, PTL

(* An object the program still has a reference to keeps a count that covers *)
(* it: its wrappers never let the driver free it early.                    *)
THEOREM NoEarlyFreeHolds == BalanceSpec => []NoEarlyFree
<1>1. BalanceInv => NoEarlyFree  BY DEF BalanceInv, Covered, NoEarlyFree
<1> QED  BY <1>1, BalanceInvariance, PTL
=============================================================================
