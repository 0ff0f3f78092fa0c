---------------------------- MODULE CallbackOnce ----------------------------
(***************************************************************************)
(* What a function that takes a JS callback promises of it: a registration *)
(* that is accepted is called once, after what it waits for has happened   *)
(* and never before; one that is refused is never called; and the process  *)
(* does not come to its natural end while a call is owed.                  *)
(***************************************************************************)
CONSTANT Workers   \* registrations

VARIABLES
  promise,   \* promise[w]: "idle", "waiting", "refused" or "called"
  ready,     \* ready[w]: what a waiting registration waits for has happened
  over       \* the process: "no", ended by itself, or "forced" to end

vars == <<promise, ready, over>>

Init ==
  /\ promise = [w \in Workers |-> "idle"]
  /\ ready = [w \in Workers |-> FALSE]
  /\ over = "no"

(* The condition may hold already.                                         *)
Register(w) ==
  /\ over = "no" /\ promise[w] = "idle"
  /\ promise' = [promise EXCEPT ![w] = "waiting"]
  /\ ready' \in {ready, [ready EXCEPT ![w] = TRUE]}
  /\ UNCHANGED over

Refuse(w) ==
  /\ over = "no" /\ promise[w] = "idle"
  /\ promise' = [promise EXCEPT ![w] = "refused"]
  /\ UNCHANGED <<ready, over>>

(* One occurrence may be what several registrations wait for.              *)
Occur ==
  /\ \E S \in SUBSET {w \in Workers : promise[w] = "waiting"} :
       ready' = [w \in Workers |-> ready[w] \/ w \in S]
  /\ UNCHANGED <<promise, over>>

Call(w) ==
  /\ over = "no" /\ promise[w] = "waiting" /\ ready[w]
  /\ promise' = [promise EXCEPT ![w] = "called"]
  /\ UNCHANGED <<ready, over>>

End ==
  /\ over = "no"
  /\ \/ over' = "natural" /\ \A w \in Workers : promise[w] # "waiting"
     \/ over' = "forced"
  /\ UNCHANGED <<promise, ready>>

Next == Occur \/ End \/ \E w \in Workers : Register(w) \/ Refuse(w) \/ Call(w)

SafeSpec == Init /\ [][Next]_vars
Spec == SafeSpec /\ \A w \in Workers : WF_vars(Call(w))
=============================================================================
