----------------------------- MODULE KernelArgs -----------------------------
(***************************************************************************)
(* setKernelArg and its table of conversions (src/kernel.cpp), as a         *)
(* function from what a kernel declares, the type name JS gives and the JS *)
(* value to what the driver is asked and what JS is told.                  *)
(*                                                                         *)
(* The driver, as OpenCL has it: it refuses a size that is not that of the  *)
(* declared type, and a handle that is not of the declared kind; a vector   *)
(* of three takes the room of four.  Bit widths may be smaller than in C:    *)
(* each is twice the one before.                                           *)
(***************************************************************************)
EXTENDS Conversions, FiniteSets

CONSTANTS
  CharBits, ShortBits,   \* 8 and 16 in the code
  HalfBits, FloatBits,   \* bits of a significand: 11 and 24
  Lanes                  \* lengths of vectors

VARIABLE declared   \* what the kernel declares its parameter to be

ASSUME WidthsDouble ==
  CharBits \in Nat \ {0} /\ ShortBits = 2 * CharBits /\ IntBits = 2 * ShortBits
ASSUME LanesAreVectors == Lanes \subseteq Nat \ {0, 1} /\ (3 \in Lanes => 4 \in Lanes)

Byte == 2 ^ CharBits

(* All that the proofs need of these powers of two.                         *)
ASSUME WordIsFourBytes ==
  Byte \in Nat \ {0} /\ Byte % 2 = 0 /\ Word = (Byte * Byte) * (Byte * Byte)

Signs == [char |-> TRUE, uchar |-> FALSE, short |-> TRUE, ushort |-> FALSE,
          int |-> TRUE, uint |-> FALSE, long |-> TRUE, ulong |-> FALSE]
Integral == DOMAIN Signs
Floating == {"half", "float", "double"}

Bits(name) ==
  CASE name \in {"char", "uchar"} -> CharBits
    [] name \in {"short", "ushort", "half"} -> ShortBits
    [] name \in {"int", "uint", "float"} -> IntBits
    [] name \in {"long", "ulong", "double"} -> 2 * IntBits

(* How many values an integral type has.                                   *)
Modulus(name) ==
  CASE name \in {"char", "uchar"} -> Byte
    [] name \in {"short", "ushort"} -> Byte * Byte
    [] name \in {"int", "uint"} -> Word
    [] name \in {"long", "ulong"} -> Long

HandleBits == 2 * IntBits    \* a cl_mem or cl_sampler, and size_t

(* What a kernel declares a parameter to be.                               *)
Number(name, lanes) == [is |-> "number", name |-> name, lanes |-> lanes]
Pointer == [is |-> "pointer"]       \* to global or constant memory
Local == [is |-> "local"]           \* to local memory
Image == [is |-> "image"]
Sampler == [is |-> "sampler"]
Struct == [is |-> "struct"]

NoParameter == [is |-> "none"]     \* before there is a kernel

Declared ==
  {Number(name, lanes) : name \in Integral \cup Floating, lanes \in Lanes \cup {1}}
    \cup {Pointer, Local, Image, Sampler, Struct}

(* JS values.  Numbers that are no integers: those like 1.5, and those like   *)
(* 1.1 that only a double holds.                                           *)
Num(n) == [js |-> "int", n |-> n]
Fraction == [js |-> "fraction"]
FineFraction == [js |-> "fine"]
Array(items) == [js |-> "array", items |-> items]
Mem == [js |-> "mem"]
SamplerObject == [js |-> "sampler"]
Other == [js |-> "other"]           \* undefined; as a bool, strings and objects are true

IsNumber(v) == v.js \in {"int", "fraction", "fine"}
IsInt32(v) == v.js = "int" /\ ToInt32(v.n) = v.n
IsUint32(v) == v.js = "int" /\ ToUint32(v.n) = v.n

-----------------------------------------------------------------------------
(* Integers a half or a float holds: a significand times a power of two.     *)
Significand(name) == IF name = "half" THEN HalfBits ELSE FloatBits
Exponents(name) == 0..(IF name = "half" THEN ShortBits - HalfBits ELSE 2 * IntBits)

Holds(name, n) ==
  \E e \in Exponents(name) :
    LET limit == 2 ^ (Significand(name) + e) IN
    n % 2 ^ e = 0 /\ -limit < n /\ n < limit

ASSUME SignificandsFit == HalfBits \in 1..ShortBits /\ FloatBits \in Nat \ {0}

(* All that the proofs need of these powers of two.                         *)
ASSUME ZeroIsHeld == Holds("half", 0) /\ Holds("float", 0)

-----------------------------------------------------------------------------
(* PrimitiveTypeMapCache: one element                                      *)

Accepts(name, v) ==
  CASE name \in {"char", "uchar", "short", "ushort", "int"} -> IsInt32(v)
    [] name = "uint" -> IsUint32(v)
    [] OTHER -> IsNumber(v)

(* Mutant: unsigned types are read as signed ones.                          *)
FitSigned(name, n) == Signed(n, Modulus(name))

(* A number in the bits of an integral type.                               *)
Fit(name, n) ==
  IF Signs[name] THEN Signed(n, Modulus(name)) ELSE n % Modulus(name)

(* What the driver finds: an integral type by way of 32 or 64 bits; a float   *)
(* rounds what it does not hold; a half gets the integer for its bits, which *)
(* is a half of another value; JS numbers are doubles.                      *)
Converted(name, v) ==
  CASE name \in Integral ->
         IF v.js = "int" THEN Num(Fit(name, ToInt64(v.n))) ELSE [js |-> "truncated"]
    [] name = "half" -> IF v = Num(0) THEN v ELSE [js |-> "bits"]
    [] name = "float" ->
         IF v = FineFraction \/ (v.js = "int" /\ ~Holds(name, v.n)) THEN [js |-> "rounded"] ELSE v
    [] name = "double" -> v

-----------------------------------------------------------------------------
(* Answers: an error before any call, or the size and the data for the     *)
(* driver.                                                                 *)
Throws(error) == [error |-> error]
Calls(size, data) == [size |-> size, data |-> data]

(* CONVERT_NUMBER and CONVERT_VECT.                                        *)
Convert(t, v) ==
  IF t.lanes = 1
    THEN IF Accepts(t.name, v) THEN Calls(Bits(t.name), Converted(t.name, v))
                               ELSE Throws("INVALID_ARG_VALUE")
  ELSE IF v.js # "array" THEN Throws("INVALID_ARG_VALUE")
  ELSE IF Len(v.items) # t.lanes THEN Throws("INVALID_ARG_SIZE")
  ELSE IF \E i \in 1..t.lanes : ~Accepts(t.name, v.items[i]) THEN Throws("INVALID_ARG_VALUE")
  ELSE Calls(t.lanes * Bits(t.name), Array([i \in 1..t.lanes |-> Converted(t.name, v.items[i])]))

(* The branches of setKernelArg, in their order.  The kernel's own handle    *)
(* is passed for a sampler.                                                *)
ArgLocal(v) ==
  IF ~IsNumber(v) THEN Throws("INVALID_ARG_VALUE")
  ELSE Calls(IF v.js = "int" THEN SignedSize(v.n) ELSE 1, [js |-> "null"])

ArgMem(v) == IF v = Mem THEN Calls(HandleBits, v) ELSE Throws("INVALID_MEM_OBJECT")

(* Mutant: the sampler's handle is passed.                                 *)
ArgSamplerItself(v) == IF v = SamplerObject THEN Calls(HandleBits, v) ELSE Throws("INVALID_SAMPLER")

ArgSampler(v) ==
  IF v = SamplerObject THEN Calls(HandleBits, [js |-> "kernel"]) ELSE Throws("INVALID_SAMPLER")

(* Without a type name the declared type is asked for.                      *)
ByDeclaration(d, v) ==
  CASE d.is = "local" -> ArgLocal(v)
    [] d.is = "pointer" -> ArgMem(v)
    [] d.is = "number" -> Convert(d, v)
    [] d.is = "sampler" -> ArgSampler(v)
    [] OTHER -> Throws("Unsupported")

(* Type names JS gives: those of numbers, "float*" and the like, "cl_mem",   *)
(* "local", "sampler_t", "bool" and any other.                             *)
Named(t, v) ==
  CASE t.is = "cl_mem" -> ArgMem(v)
    [] t.is = "bool" -> Calls(IntBits, Num(IF v \in {Num(0), Other} THEN 0 ELSE 1))
    [] OTHER -> ByDeclaration(t, v)

TypeNames == Declared \cup {[is |-> "cl_mem"], [is |-> "bool"]}

-----------------------------------------------------------------------------
DeclaredBits(d) == Bits(d.name) * (IF d.lanes = 3 THEN 4 ELSE d.lanes)

(* clSetKernelArg.                                                         *)
Driver(d, size, data) ==
  CASE d.is = "number" -> data.js # "null" /\ size = DeclaredBits(d)
    [] d.is = "local" -> data.js = "null" /\ size > 0
    [] d.is = "pointer" -> data.js \in {"mem", "null"} /\ size = HandleBits
    [] d.is = "image" -> data.js = "mem" /\ size = HandleBits
    [] d.is = "sampler" -> data.js = "sampler" /\ size = HandleBits
    [] d.is = "struct" -> FALSE

(* The data are set: the driver holds them in place of what it held.        *)
Succeeds(d, answer) == "data" \in DOMAIN answer /\ Driver(d, answer.size, answer.data)

-----------------------------------------------------------------------------
(* JS values: every integer around the widths of the types, and arrays.      *)
Integers64 == -Long..Long
Items == {Num(n) : n \in {-1, 0, Word \div 2, Long - 1}} \cup {FineFraction, Mem}
Scalars == {Num(n) : n \in Integers64} \cup {Fraction, FineFraction, Mem, SamplerObject, Other}
Arrays == UNION {{Array(items) : items \in [1..n -> Items]} : n \in Lanes \cup {0, 1}}
Values == Scalars \cup Arrays

(* The numbers a type has.                                                 *)
Represents(name, v) ==
  CASE name = "double" -> IsNumber(v)
    [] name \in {"half", "float"} -> v = Fraction \/ (v.js = "int" /\ Holds(name, v.n))
    [] name \in Integral ->
         /\ v.js = "int"
         /\ IF Signs[name] THEN Signed(v.n, Modulus(name)) = v.n ELSE v.n \in 0..(Modulus(name) - 1)

(* Numbers of the type that arrive as others.                               *)
Misread(name, v) ==
  \/ name = "half" /\ v # Num(0)
  \/ name = "ulong" /\ 2 * v.n >= Long

Elements(v) == IF v.js = "array" THEN v.items ELSE <<v>>

(* Without a type name, a value of the shape of the declared number whose    *)
(* elements the type has is accepted, unless it is a vector of three, which  *)
(* the driver refuses.  Of what is accepted, an element reaches the driver   *)
(* unchanged exactly if the type has it and it is neither a half other than  *)
(* zero nor a ulong of 2^63 or more: a number a float does not hold, or an    *)
(* integer beyond the type, arrives as another and JS is told nothing.  A    *)
(* value of another shape, or with an element that is no number, never       *)
(* reaches the driver (kernel.cpp:113-193, 310).                             *)
ArgumentsArrive ==
  declared.is = "number" => \A v \in Values :
    LET d == declared
        answer == ByDeclaration(d, v)
        shaped == (v.js = "array" <=> d.lanes > 1) /\ Len(Elements(v)) = d.lanes
        given == Elements(v)
    IN
    /\ Succeeds(d, answer) =>
         /\ shaped /\ d.lanes # 3
         /\ \A i \in 1..d.lanes :
              /\ IsNumber(given[i])
              /\ Elements(answer.data)[i] = given[i] <=>
                   Represents(d.name, given[i]) /\ ~Misread(d.name, given[i])
    /\ shaped /\ d.lanes # 3 /\ (\A i \in 1..d.lanes : Represents(d.name, given[i]))
         => Succeeds(d, answer)

(* Some value sets a parameter of the type under one of the type names, or    *)
(* under none, except: a sampler, under no name, since the kernel's handle  *)
(* is passed; a vector of three, only as something else of the size of four *)
(* elements; an image, only as "cl_mem" or as a pointer                    *)
(* (kernel.cpp:304-330).                                                   *)
WaysToSet ==
  declared \notin {NoParameter, Struct} =>
    LET d == declared
        byName == {t \in TypeNames : \E v \in Values : Succeeds(d, Named(t, v))}
        byDeclaration == \E v \in Values : Succeeds(d, ByDeclaration(d, v))
        three == d.is = "number" /\ d.lanes = 3
    IN
    /\ byDeclaration <=> ~three /\ d \notin {Sampler, Image}
    /\ byName = {} <=> d = Sampler
    /\ d = Image => byName = {Pointer, [is |-> "cl_mem"]}
    /\ three => \A t \in byName : t.is = "number" => t.lanes # 3
=============================================================================
