---------------------------- MODULE Conversions ----------------------------
(***************************************************************************)
(* Numbers on their way between JS and the driver.                         *)
(*                                                                         *)
(* JS numbers are exact over all the integers used here.  Handlers read     *)
(* sizes with Nan::To<uint32_t>, some with int32_t or int64_t, and answer   *)
(* with JS_INT, which takes an unsigned int.  The driver's size_t and       *)
(* cl_ulong have twice the bits of a cl_int.                               *)
(***************************************************************************)
EXTENDS Integers, Sequences

CONSTANTS
  IntBits,   \* 32 in the code
  MaxItem    \* bound on the elements of the arrays looked at

ASSUME IntBitsIsPositive == IntBits \in Nat \ {0}
VARIABLE amount   \* a number JS or the driver has given, -1 before it has

Word == 2 ^ IntBits     \* 2^32
Long == Word * Word     \* 2^64

(* All that the proofs need of a power of two.                             *)
ASSUME WordIsEven == Word \in Nat \ {0} /\ Word % 2 = 0
ASSUME MaxItemFits == MaxItem \in 0..(Word - 1)

(* The bits of n read as a signed integer below 2^(bits - 1).              *)
Signed(n, modulus) ==
  LET low == n % modulus IN IF 2 * low >= modulus THEN low - modulus ELSE low

ToUint32(n) == n % Word
ToInt32(n) == Signed(n, Word)

(* As a C cast: the nearest value when out of range, which is what V8 does. *)
ToInt64(n) ==
  IF 2 * n >= Long THEN (Long \div 2) - 1 ELSE IF 2 * n < -Long THEN -(Long \div 2) ELSE n

(* size_t from a signed integer.                                           *)
ToSize(n) == n % Long

-----------------------------------------------------------------------------
(* What the get*Info() handlers answer                                     *)

JS_INT(n) == n % Word

(* cl_uint parameters, through int.                                        *)
UintInfo(n) == JS_INT(Signed(n, Word))

(* size_t through JS_INT: CL_MEM_SIZE, CL_MEM_OFFSET, image and work-group   *)
(* sizes, binary sizes, work-item sizes.                                   *)
SizeInfo(n) == JS_INT(n)

(* size_t of getDeviceInfo, through int.                                    *)
DeviceSizeInfo(n) == Signed(n, Word)

(* Mutant: the halves are swapped.                                         *)
UlongInfoSwapped(n) == <<JS_INT(n % Word), JS_INT(n \div Word)>>

(* cl_ulong: two numbers, [hi, lo].                                        *)
UlongInfo(n) == <<JS_INT(n \div Word), JS_INT(n % Word)>>

-----------------------------------------------------------------------------
(* Sizes and offsets on their way in                                       *)

(* createBuffer.                                                           *)
BufferSize(n) == ToSize(ToInt64(n))

(* Mutant: read with the width of createBuffer.                             *)
TransferSizeWide(n) == ToSize(ToInt64(n))

(* enqueueReadBuffer and the other commands, createSubBuffer, SVMAlloc.     *)
TransferSize(n) == ToUint32(n)

(* Local memory of a kernel, binaries, origins of enqueueMapImage.          *)
SignedSize(n) == ToSize(ToInt32(n))

(* Mutant: only what JS gave is read, and at most three elements.           *)
TripleDefaults(items, default) ==
  [i \in 1..3 |-> IF i <= Len(items) THEN ToUint32(items[i]) ELSE default]

(* Origins, offsets and regions of the Rect and image handlers: at least    *)
(* two elements are read, a missing one as zero; the array has three.       *)
Triple(items, default) ==
  LET read == IF Len(items) > 2 THEN Len(items) ELSE 2 IN
  [i \in 1..(IF read > 3 THEN read ELSE 3) |->
     IF i <= Len(items) THEN ToUint32(items[i]) ELSE IF i <= read THEN 0 ELSE default]

-----------------------------------------------------------------------------
Amounts == 0..(Long - 1)
Sizes == 0..((Long \div 2) - 1)     \* below 2^63

(* How README.md:90 puts the two halves together.                          *)
Rejoined(pair) == pair[1] * Word + pair[2]

(* JS learns every cl_ulong and every cl_uint exactly; a size_t exactly if  *)
(* it is below 2^32, and of a device below 2^31 (memobj.cpp:310,            *)
(* device.cpp:250): no size comes back changed below these limits, every    *)
(* size does from there on.                                                *)
InfoArrives ==
  amount \in Amounts =>
    /\ Rejoined(UlongInfo(amount)) = amount
    /\ amount < Word => UintInfo(amount) = amount
    /\ SizeInfo(amount) = amount <=> amount < Word
    /\ DeviceSizeInfo(amount) = amount <=> 2 * amount < Word

(* A buffer can be made larger than any command can reach: createBuffer      *)
(* takes any size below 2^63, and what JS then asks of it is the whole buffer exactly  *)
(* up to 2^32 - 1; beyond, the commands move the remainder and report       *)
(* success.  A size of local memory or of a binary arrives up to 2^31 - 1;  *)
(* beyond it is another, most often larger than any memory (memobj.cpp:29,  *)
(* commandqueue.cpp:251, kernel.cpp:302).                                  *)
SizesArrive ==
  amount \in Sizes =>
    LET size == BufferSize(amount) IN
    /\ size = amount
    /\ TransferSize(amount) = size <=> amount < Word
    /\ TransferSize(SizeInfo(size)) = TransferSize(amount)
    /\ SignedSize(amount) = amount <=> 2 * amount < Word
    /\ SignedSize(amount) \notin Word \div 2..(Long - (Word \div 2) - 1)

(* Origins and regions of two or three elements reach the driver as given,  *)
(* a missing third as the default; with one element the second is zero,     *)
(* never the default; the three places are enough up to three elements      *)
(* (commandqueue.cpp:309).                                                 *)
TriplesArrive ==
  amount \in 0..MaxItem =>
    \A default \in {0, 1}, n \in 0..4 : \A items \in [1..n -> {amount, MaxItem}] :
      LET t == Triple(items, default) IN
      /\ Len(t) = 3 <=> n <= 3
      /\ \A i \in 1..n : t[i] = items[i]
      /\ n = 2 => t[3] = default
      /\ n < 2 => t[2] = 0
=============================================================================
