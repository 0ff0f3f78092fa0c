--------------------------- MODULE MCMarshalling ----------------------------
(* Program binaries, kernel arguments and number conversions for TLC: the     *)
(* widths are small, in the order they have in C.  A behaviour is about one  *)
(* of the three.                                                           *)
EXTENDS ProgramBinaries, KernelArgs

marshallingVars == <<vars, amount, declared>>

Start == Init /\ amount = -1 /\ declared = NoParameter

(* A number is given, or a kernel is created.                              *)
Give(n) == Start /\ amount' = n /\ UNCHANGED <<vars, declared>>

Declare(d) == Start /\ declared' = d /\ UNCHANGED <<vars, amount>>

MarshallingNext ==
  \/ amount = -1 /\ declared = NoParameter /\ Next /\ UNCHANGED <<amount, declared>>
  \/ \E n \in Amounts : Give(n)
  \/ \E d \in Declared : Declare(d)

MarshallingSpec == Start /\ [][MarshallingNext]_marshallingVars
=============================================================================
