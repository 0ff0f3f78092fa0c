------------------------- MODULE MarshallingProofs --------------------------
(***************************************************************************)
(* Proofs about the numbers, kernel arguments and binaries that pass between *)
(* JS and the driver.                                                      *)
(*                                                                         *)
(* The properties of Conversions and KernelArgs say of every number what    *)
(* TLC finds for those of a small width; here they hold for every width,    *)
(* that of the code included.  They rest on a few facts about division by   *)
(* Word, which the provers do not expand: WordIsEven and WordIsFourBytes    *)
(* are all they know of it.                                                *)
(***************************************************************************)
EXTENDS MCMarshalling, FiniteSetTheorems, WellFoundedInduction, TLAPS

-----------------------------------------------------------------------------
(* Division                                                                *)

(* A quotient and a remainder make up the number.                          *)
LEMMA Divided ==
  ASSUME NEW n \in Int, NEW w \in Nat \ {0}
  PROVE  /\ n \div w \in Int
         /\ n % w \in 0..(w - 1)
         /\ n = (n \div w) * w + (n % w)
<1>1. n \div w \in Int /\ n % w \in 0..(w - 1)
  BY Z3
<1>2. n = (n \div w) * w + (n % w)
  BY Z3
<1> QED
  BY <1>1, <1>2

(* A number below the modulus is its own remainder; one between the modulus *)
(* and zero, from below, gets the modulus added.                           *)
LEMMA SmallRemainder ==
  ASSUME NEW n \in Int, NEW w \in Nat \ {0}
  PROVE  /\ n \in 0..(w - 1) => n % w = n
         /\ n \in (-w)..(-1) => n % w = n + w
<1>1. ASSUME n \in 0..(w - 1) PROVE n % w = n
  BY <1>1, Z3
<1>2. ASSUME n \in (-w)..(-1) PROVE n % w = n + w
  BY <1>2, Z3
<1> QED
  BY <1>1, <1>2

(* A word has an even number of values, and a long that of two words.       *)
LEMMA Widths ==
  /\ Word \in Nat \ {0} /\ Word >= 2 /\ 2 * (Word \div 2) = Word
  /\ Long \in Nat \ {0} /\ 2 * Word <= Long
<1>1. Word \in Nat \ {0} /\ Word >= 2 /\ 2 * (Word \div 2) = Word
  BY WordIsEven
<1>2. Long \in Nat \ {0} /\ 2 * Word <= Long
  BY <1>1, Z3 DEF Long
<1> QED
  BY <1>1, <1>2

(* The two lemmas above for a word, and the second for a long.              *)
LEMMA OfWord ==
  ASSUME NEW n \in Int
  PROVE  /\ n % Word \in 0..(Word - 1)
         /\ n \in 0..(Word - 1) => n % Word = n
         /\ n \in (-Word)..(-1) => n % Word = n + Word
<1>1. Word \in Nat \ {0}
  BY Widths
<1>2. n % Word \in 0..(Word - 1)
  BY <1>1, Divided
<1>3. /\ n \in 0..(Word - 1) => n % Word = n
      /\ n \in (-Word)..(-1) => n % Word = n + Word
  BY <1>1, SmallRemainder, Zenon
<1> QED
  BY <1>2, <1>3

LEMMA OfLong ==
  ASSUME NEW n \in Int
  PROVE  /\ n \in 0..(Long - 1) => n % Long = n
         /\ n \in (-Long)..(-1) => n % Long = n + Long
<1>1. Long \in Nat \ {0}
  BY Widths
<1> QED
  BY <1>1, SmallRemainder, Zenon

(* The halves of a long are words and make it up.                          *)
LEMMA Halves ==
  ASSUME NEW n \in 0..(Long - 1)
  PROVE  /\ n \div Word \in 0..(Word - 1)
         /\ n = (n \div Word) * Word + (n % Word)
<1>1. n \in Nat /\ n < Long /\ Word \in Nat \ {0}
  BY Widths
<1>2. n \div Word \in 0..(Word - 1)
  BY <1>1, Z3 DEF Long
<1>3. n = (n \div Word) * Word + (n % Word)
  BY <1>1, Z3
<1> QED
  BY <1>2, <1>3

-----------------------------------------------------------------------------
(* What the get*Info() handlers answer                                     *)

(* A number read as signed in a word, and what is left of it in an unsigned *)
(* word.                                                                   *)
LEMMA SignedWord ==
  ASSUME NEW n \in Int
  PROVE  /\ 2 * (n % Word) < Word => Signed(n, Word) = n % Word
         /\ 2 * (n % Word) >= Word => Signed(n, Word) = (n % Word) - Word
         /\ JS_INT(Signed(n, Word)) = n % Word
<1>1. n % Word \in 0..(Word - 1)
  BY OfWord
<1>2. /\ 2 * (n % Word) < Word => Signed(n, Word) = n % Word
      /\ 2 * (n % Word) >= Word => Signed(n, Word) = (n % Word) - Word
  BY <1>1, Widths DEF Signed
<1>3. CASE 2 * (n % Word) < Word
  <2>1. (n % Word) % Word = n % Word
    BY <1>1, OfWord
  <2> QED
    BY <1>2, <1>3, <2>1 DEF JS_INT
<1>4. CASE 2 * (n % Word) >= Word
  <2>1. (n % Word) - Word \in (-Word)..(-1)
    BY <1>1, Widths
  <2>2. ((n % Word) - Word) % Word = ((n % Word) - Word) + Word
    BY <2>1, OfWord
  <2> QED
    BY <1>1, <1>2, <1>4, <2>2, Widths DEF JS_INT
<1> QED
  BY <1>1, <1>2, <1>3, <1>4, Widths

(* Every number the driver answers with: JS has it exactly below the limits *)
(* InfoArrives names, and not from there on.                               *)
LEMMA InfoOfAmount == InfoArrives
<1> SUFFICES ASSUME amount \in Amounts
             PROVE  /\ Rejoined(UlongInfo(amount)) = amount
                    /\ amount < Word => UintInfo(amount) = amount
                    /\ SizeInfo(amount) = amount <=> amount < Word
                    /\ DeviceSizeInfo(amount) = amount <=> 2 * amount < Word
  BY DEF InfoArrives
<1> DEFINE low == amount % Word
           high == amount \div Word
<1>1. amount \in Nat /\ amount < Long
  BY Widths DEF Amounts
<1>2. low \in 0..(Word - 1) /\ high \in 0..(Word - 1) /\ amount = high * Word + low
  BY <1>1, OfWord, Halves, Widths
<1>3. amount < Word => low = amount
  BY <1>1, OfWord, Widths
<1>4. Rejoined(UlongInfo(amount)) = amount
  <2>1. high % Word = high /\ low % Word = low
    BY <1>2, OfWord
  <2> QED
    BY <1>2, <2>1 DEF Rejoined, UlongInfo, JS_INT
<1>5. amount < Word => UintInfo(amount) = amount
  BY <1>1, <1>3, SignedWord DEF UintInfo
<1>6. SizeInfo(amount) = amount <=> amount < Word
  <2>1. SizeInfo(amount) = low
    BY DEF SizeInfo, JS_INT
  <2> QED
    BY <1>1, <1>2, <1>3, <2>1, Widths
<1>7. DeviceSizeInfo(amount) = amount <=> 2 * amount < Word
  BY <1>1, <1>2, <1>3, SignedWord, Widths DEF DeviceSizeInfo
<1> QED
  BY <1>4, <1>5, <1>6, <1>7

(* InfoArrives holds of every number in every behaviour.                    *)
THEOREM InfoArrivesHolds == MarshallingSpec => []InfoArrives
BY InfoOfAmount, PTL

-----------------------------------------------------------------------------
(* Sizes and offsets on their way in                                       *)

(* Every size JS may give: what reaches the driver of it, as SizesArrive     *)
(* says.                                                                   *)
LEMMA SizesOfAmount == SizesArrive
<1> SUFFICES ASSUME amount \in Sizes
             PROVE  LET size == BufferSize(amount) IN
                    /\ size = amount
                    /\ TransferSize(amount) = size <=> amount < Word
                    /\ TransferSize(SizeInfo(size)) = TransferSize(amount)
                    /\ SignedSize(amount) = amount <=> 2 * amount < Word
                    /\ SignedSize(amount) \notin Word \div 2..(Long - (Word \div 2) - 1)
  BY DEF SizesArrive
<1> DEFINE low == amount % Word
<1>1. amount \in Nat /\ 2 * amount < Long /\ amount \in 0..(Long - 1)
  BY Widths DEF Sizes
<1>2. low \in 0..(Word - 1)
  BY <1>1, OfWord
<1>3. amount < Word => low = amount
  BY <1>1, OfWord, Widths
<1>4. BufferSize(amount) = amount
  <2>1. ToInt64(amount) = amount
    BY <1>1, Widths DEF ToInt64
  <2> QED
    BY <1>1, <2>1, OfLong DEF BufferSize, ToSize
<1>5. TransferSize(amount) = amount <=> amount < Word
  <2>1. TransferSize(amount) = low
    BY DEF TransferSize, ToUint32
  <2> QED
    BY <1>1, <1>2, <1>3, <2>1, Widths
<1>6. TransferSize(SizeInfo(amount)) = TransferSize(amount)
  <2>1. low % Word = low
    BY <1>2, OfWord
  <2> QED
    BY <2>1 DEF TransferSize, ToUint32, SizeInfo, JS_INT
<1>7. SignedSize(amount) = IF 2 * low < Word THEN low ELSE (low - Word) + Long
  <2>1. CASE 2 * low < Word
    <3>1. ToInt32(amount) = low /\ low \in 0..(Long - 1)
      BY <1>1, <1>2, <2>1, SignedWord, Widths DEF ToInt32
    <3>2. low % Long = low
      BY <3>1, OfLong
    <3> QED
      BY <2>1, <3>1, <3>2 DEF SignedSize, ToSize
  <2>2. CASE ~(2 * low < Word)
    <3>1. ToInt32(amount) = low - Word /\ low - Word \in (-Long)..(-1)
      BY <1>1, <1>2, <2>2, SignedWord, Widths DEF ToInt32
    <3>2. (low - Word) % Long = (low - Word) + Long
      BY <3>1, OfLong
    <3> QED
      BY <2>2, <3>1, <3>2 DEF SignedSize, ToSize
  <2> QED
    BY <2>1, <2>2
<1>8. SignedSize(amount) = amount <=> 2 * amount < Word
  BY <1>1, <1>2, <1>3, <1>7, Widths
<1>9. SignedSize(amount) \notin Word \div 2..(Long - (Word \div 2) - 1)
  BY <1>1, <1>2, <1>7, Widths
<1> QED
  BY <1>4, <1>5, <1>6, <1>8, <1>9

(* SizesArrive holds of every size in every behaviour.                      *)
THEOREM SizesArriveHolds == MarshallingSpec => []SizesArrive
BY SizesOfAmount, PTL

(* Lists of up to four elements, each of them small enough: what reaches the *)
(* driver, as TriplesArrive says.                                          *)
LEMMA TriplesOfAmount == TriplesArrive
<1> SUFFICES ASSUME amount \in 0..MaxItem,
                    NEW default \in {0, 1}, NEW n \in 0..4, NEW items \in [1..n -> {amount, MaxItem}]
             PROVE  LET t == Triple(items, default) IN
                    /\ Len(t) = 3 <=> n <= 3
                    /\ \A i \in 1..n : t[i] = items[i]
                    /\ n = 2 => t[3] = default
                    /\ n < 2 => t[2] = 0
  BY DEF TriplesArrive
<1> DEFINE t == Triple(items, default)
           places == IF n <= 3 THEN 3 ELSE 4
<1>1. Len(items) = n /\ DOMAIN items = 1..n
  OBVIOUS
<1>2. ASSUME NEW i \in 1..n PROVE items[i] \in 0..(Word - 1) /\ ToUint32(items[i]) = items[i]
  <2>1. items[i] \in 0..(Word - 1)
    <3>1. items[i] \in {amount, MaxItem}
      OBVIOUS
    <3> QED
      BY <3>1, MaxItemFits, Widths
  <2> QED
    BY <2>1, OfWord DEF ToUint32
<1>3. t = [i \in 1..places |->
             IF i <= n THEN ToUint32(items[i])
             ELSE IF i <= (IF n > 2 THEN n ELSE 2) THEN 0 ELSE default]
  <2>1. (IF (IF n > 2 THEN n ELSE 2) > 3 THEN (IF n > 2 THEN n ELSE 2) ELSE 3) = places
    OBVIOUS
  <2> QED
    BY <1>1, <2>1 DEF Triple
<1> HIDE DEF t
<1>4. Len(t) = places
  BY <1>3
<1>5. \A i \in 1..n : t[i] = items[i]
  BY <1>2, <1>3
<1>6. (n = 2 => t[3] = default) /\ (n < 2 => t[2] = 0)
  BY <1>3
<1>7. (Len(t) = 3 <=> n <= 3) /\ (\A i \in 1..n : t[i] = items[i])
        /\ (n = 2 => t[3] = default) /\ (n < 2 => t[2] = 0)
  BY <1>4, <1>5, <1>6
<1> QED
  BY <1>7 DEF t

(* TriplesArrive holds of every element in every behaviour.                 *)
THEOREM TriplesArriveHolds == MarshallingSpec => []TriplesArrive
BY TriplesOfAmount, PTL

-----------------------------------------------------------------------------
(* The arrays of getProgramInfo                                            *)

(* The driver's binaries.                                                  *)
BuiltType == built \in [Program -> Nat] /\ version \in [Program -> Nat]

(* An array is as long as the binary was in the version it was made for,     *)
(* which is the driver's or one before it.                                 *)
Allocated ==
  arrays # <<>> =>
    /\ arrays \in [Program -> [length : Nat, saw : Nat]]
    /\ \A d \in Program :
         /\ arrays[d].saw <= version[d]
         /\ arrays[d].saw = version[d] => arrays[d].length = built[d]

(* What JS holds of a binary that was not replaced fills its array.          *)
Copied ==
  binaries # <<>> =>
    /\ binaries \in [Program -> [of : Nat, length : Nat, room : Nat, saw : Nat]]
    /\ \A d \in Program :
         binaries[d].of = binaries[d].saw => binaries[d].length = binaries[d].room

BinariesInv == BuiltType /\ Allocated /\ Copied

(* A build that ends replaces versions by later ones, so what arrays there   *)
(* are stays true of the versions they were made for.                      *)
LEMMA ReplaceKeeps ==
  ASSUME BuiltType, Allocated,
         NEW D \in SUBSET Program, NEW binary \in [D -> Lengths \cup {0}],
         Replace(D, binary), arrays' = arrays
  PROVE  BuiltType' /\ Allocated'
<1>1. Program' = Program
  BY DEF Program
<1>2. \A d \in D : binary[d] \in Nat
  <2>1. Lengths \cup {0} \subseteq Nat
    BY LengthsArePositive
  <2> QED
    BY <2>1
<1>3. /\ built' = [d \in Program |-> IF d \in D THEN binary[d] ELSE built[d]]
      /\ version' = [d \in Program |-> version[d] + IF d \in D THEN 1 ELSE 0]
  BY DEF Replace
<1>4. BuiltType'
  <2>1. built' \in [Program -> Nat]
    BY <1>2, <1>3 DEF BuiltType
  <2>2. version' \in [Program -> Nat]
    BY <1>3 DEF BuiltType
  <2> QED
    BY <2>1, <2>2 DEF BuiltType
<1>5. Allocated'
  <2> SUFFICES ASSUME arrays # <<>>, NEW d \in Program
               PROVE  /\ arrays \in [Program -> [length : Nat, saw : Nat]]
                      /\ arrays[d].saw <= version'[d]
                      /\ arrays[d].saw = version'[d] => arrays[d].length = built'[d]
    BY <1>1 DEF Allocated, Program
  <2>1. /\ arrays \in [Program -> [length : Nat, saw : Nat]]
        /\ arrays[d].saw <= version[d]
        /\ arrays[d].saw = version[d] => arrays[d].length = built[d]
    BY DEF Allocated
  <2>2. arrays[d].saw \in Nat /\ version[d] \in Nat
    BY <2>1 DEF BuiltType
  <2>3. CASE d \in D
    <3>1. version'[d] = version[d] + 1
      BY <1>3, <2>3
    <3> QED
      BY <2>1, <2>2, <3>1
  <2>4. CASE d \notin D
    <3>1. version'[d] = version[d] /\ built'[d] = built[d]
      BY <1>3, <2>2, <2>4
    <3> QED
      BY <2>1, <3>1
  <2> QED
    BY <2>3, <2>4
<1> QED
  BY <1>4, <1>5

(* Initially no program is built and nothing allocated.                     *)
LEMMA BinariesStart == Start => BinariesInv
BY DEF Start, Init, BinariesInv, BuiltType, Allocated, Copied

LEMMA BinariesStep == BinariesInv /\ [MarshallingNext]_marshallingVars => BinariesInv'
<1> SUFFICES ASSUME BinariesInv, [MarshallingNext]_marshallingVars
             PROVE  BinariesInv'
  OBVIOUS
<1> USE DEF BinariesInv
<1>1. ASSUME NEW D \in SUBSET Program \ {{}}, BuildProgram(D) PROVE BinariesInv'
  <2>1. PICK binary \in [D -> Lengths \cup {0}] : Replace(D, binary)
    BY <1>1 DEF BuildProgram
  <2>2. BuiltType' /\ Allocated'
    BY <1>1, <2>1, ReplaceKeeps DEF BuildProgram
  <2>3. Copied'
    BY <1>1 DEF BuildProgram, Copied, Program
  <2> QED
    BY <2>2, <2>3
<1>2. ASSUME NEW D \in SUBSET Program \ {{}}, BuildProgramAsync(D) PROVE BinariesInv'
  BY <1>2 DEF BuildProgramAsync, BuiltType, Allocated, Copied, Program
<1>3. ASSUME NEW d \in Program, FinishDevice(d) PROVE BinariesInv'
  <2>1. PICK length \in Lengths \cup {0} : Replace({d}, [x \in {d} |-> length])
    BY <1>3 DEF FinishDevice
  <2>2. [x \in {d} |-> length] \in [{d} -> Lengths \cup {0}]
    OBVIOUS
  <2>3. BuiltType' /\ Allocated'
    BY <1>3, <2>1, <2>2, ReplaceKeeps DEF FinishDevice
  <2>4. Copied'
    BY <1>3 DEF FinishDevice, Copied, Program
  <2> QED
    BY <2>3, <2>4
<1>4. ASSUME GetBinarySizes PROVE BinariesInv'
  BY <1>4 DEF GetBinarySizes, BuiltType, Allocated, Copied, Program
<1>5. ASSUME AllocateBinaries PROVE BinariesInv'
  <2>1. arrays' = [d \in Program |-> [length |-> built[d], saw |-> version[d]]]
    BY <1>5 DEF AllocateBinaries
  <2>2. BuiltType' /\ Copied'
    BY <1>5 DEF AllocateBinaries, BuiltType, Copied, Program
  <2>3. \A d \in Program : built[d] \in Nat /\ version[d] \in Nat
    BY DEF BuiltType
  <2>4. Allocated'
    <3>1. arrays' \in [Program -> [length : Nat, saw : Nat]]
      BY <2>1, <2>3
    <3>2. \A d \in Program : arrays'[d].saw = version[d] /\ arrays'[d].length = built[d]
      BY <2>1
    <3> QED
      BY <1>5, <2>3, <3>1, <3>2 DEF AllocateBinaries, Allocated, Program
  <2> QED
    BY <2>2, <2>4
<1>6. ASSUME CopyBinaries PROVE BinariesInv'
  <2>1. /\ arrays # <<>> /\ arrays' = <<>>
        /\ binaries' = [d \in Program |->
             [of |-> version[d], length |-> built[d], room |-> arrays[d].length, saw |-> arrays[d].saw]]
        /\ UNCHANGED <<built, version>>
    BY <1>6 DEF CopyBinaries
  <2>2. BuiltType' /\ Allocated'
    BY <2>1 DEF BuiltType, Allocated, Program
  <2>3. \A d \in Program :
          /\ built[d] \in Nat /\ version[d] \in Nat
          /\ arrays[d].length \in Nat /\ arrays[d].saw \in Nat
          /\ arrays[d].saw = version[d] => arrays[d].length = built[d]
    BY <2>1 DEF BuiltType, Allocated
  <2>4. Copied'
    <3>1. binaries' \in [Program -> [of : Nat, length : Nat, room : Nat, saw : Nat]]
      BY <2>1, <2>3
    <3>2. \A d \in Program :
            binaries'[d].of = binaries'[d].saw => binaries'[d].length = binaries'[d].room
      BY <2>1, <2>3
    <3> QED
      BY <3>1, <3>2 DEF Copied, Program
  <2> QED
    BY <2>2, <2>4
<1>7. ASSUME UNCHANGED vars PROVE BinariesInv'
  BY <1>7 DEF vars, BuiltType, Allocated, Copied, Program
<1>8. CASE Next
  BY <1>1, <1>2, <1>3, <1>4, <1>5, <1>6, <1>8 DEF Next
<1>9. CASE \E n \in Amounts : Give(n)
  BY <1>7, <1>9 DEF Give
<1>10. CASE \E d \in Declared : Declare(d)
  BY <1>7, <1>10 DEF Declare
<1>11. CASE UNCHANGED marshallingVars
  BY <1>7, <1>11 DEF marshallingVars
<1> QED
  BY <1>8, <1>9, <1>10, <1>11 DEF MarshallingNext

LEMMA BinariesSafe == BinariesInv => WritesInside
<1> SUFFICES ASSUME BinariesInv, NEW d \in DOMAIN binaries,
                    binaries[d].length > binaries[d].room
             PROVE  binaries[d].of # binaries[d].saw
  BY DEF WritesInside
<1>1. binaries # <<>>
  OBVIOUS
<1>2. /\ d \in Program /\ binaries[d].length \in Nat /\ binaries[d].room \in Nat
      /\ binaries[d].of = binaries[d].saw => binaries[d].length = binaries[d].room
  BY <1>1 DEF BinariesInv, Copied
<1> QED
  BY <1>2

(* The arrays of getProgramInfo are those of the versions they were made for *)
(* throughout, whatever builds end meanwhile.                              *)
THEOREM BinariesInvariance == MarshallingSpec => []BinariesInv
BY BinariesStart, BinariesStep, PTL DEF MarshallingSpec

(* The driver writes past an array only if a build for its device ended      *)
(* between the two questions of getProgramInfo.                            *)
THEOREM WritesInsideHolds == MarshallingSpec => []WritesInside
BY BinariesInvariance, BinariesSafe, PTL

-----------------------------------------------------------------------------
(* Kernel arguments                                                        *)

(* A JS value that is no array.                                            *)
Element == {Num(n) : n \in Int} \cup {Fraction, FineFraction, Mem, SamplerObject, Other}

NumberTypes == Integral \cup Floating

(* The names of the types, spelled out: no two strings are the same.         *)
LEMMA TypesOfNumbers ==
  /\ Integral = {"char", "uchar", "short", "ushort", "int", "uint", "long", "ulong"}
  /\ \A name \in Integral :
       Signs[name] <=> name \in {"char", "short", "int", "long"}
<1>1. Integral = {"char", "uchar", "short", "ushort", "int", "uint", "long", "ulong"}
  BY DEF Integral, Signs
<1>2. /\ Signs["char"] /\ Signs["short"] /\ Signs["int"] /\ Signs["long"]
      /\ ~Signs["uchar"] /\ ~Signs["ushort"] /\ ~Signs["uint"] /\ ~Signs["ulong"]
  BY DEF Signs
<1> QED
  BY <1>1, <1>2

(* No type is both integral and floating.                                   *)
LEMMA IntegralOrFloating == \A name : ~(name \in Integral /\ name \in Floating)
BY TypesOfNumbers DEF Floating

(* Every type has an even number of values, within the width by way of       *)
(* which a number of it is read.                                           *)
LEMMA Moduli ==
  ASSUME NEW name \in Integral
  PROVE  /\ Modulus(name) \in Nat \ {0} /\ 2 * (Modulus(name) \div 2) = Modulus(name)
         /\ Modulus(name) <= Long
         /\ name \in {"char", "uchar", "short", "ushort"} => 2 * Modulus(name) <= Word
         /\ name \in {"int", "uint"} => Modulus(name) = Word
         /\ name \in {"long", "ulong"} => Modulus(name) = Long
<1> DEFINE half == Byte \div 2
           short == Byte * Byte
<1>1. Byte \in Nat /\ Byte >= 2 /\ half \in Nat /\ Byte = 2 * half
  BY WordIsFourBytes
<1>2. short \in Nat /\ short >= 4 /\ short = 2 * (half * Byte) /\ half * Byte \in Nat
  BY <1>1, Z3
<1>3. Word = short * short
  BY WordIsFourBytes
<1>4. Word \in Nat /\ 4 * short <= Word /\ Word = 2 * ((half * Byte) * short)
        /\ (half * Byte) * short \in Nat
  <2> HIDE DEF short, half
  <2> QED
    BY <1>1, <1>2, <1>3, Z3
<1>5. Long \in Nat /\ 2 * Word <= Long /\ 2 * (Long \div 2) = Long
  <2>1. Long = 2 * ((Word \div 2) * Word) /\ (Word \div 2) * Word \in Nat
    BY Widths, Z3 DEF Long
  <2> QED
    BY <2>1, Widths
<1>6. 4 * Byte <= 2 * short
  BY <1>1, Z3
<1> HIDE DEF short, half
<1>7. CASE name \in {"char", "uchar"}
  BY <1>1, <1>2, <1>4, <1>5, <1>6, <1>7 DEF Modulus
<1>8. CASE name \in {"short", "ushort"}
  <2>1. Modulus(name) = short
    BY <1>8 DEF Modulus, short
  <2> QED
    BY <1>2, <1>4, <1>5, <1>8, <2>1
<1>9. CASE name \in {"int", "uint"}
  BY <1>5, <1>9, Widths DEF Modulus
<1>10. CASE name \in {"long", "ulong"}
  BY <1>5, <1>10, Widths DEF Modulus
<1> QED
  BY <1>7, <1>8, <1>9, <1>10, TypesOfNumbers

(* Reading as signed changes no number between the negated half and the half *)
(* of the modulus, and every other.                                        *)
LEMMA SignedFixes ==
  ASSUME NEW n \in Int, NEW m \in Nat \ {0}, 2 * (m \div 2) = m
  PROVE  Signed(n, m) = n <=> -m <= 2 * n /\ 2 * n < m
<1> DEFINE low == n % m
<1>1. low \in 0..(m - 1)
  BY Divided
<1>2. Signed(n, m) = IF 2 * low >= m THEN low - m ELSE low
  BY DEF Signed
<1>3. ASSUME -m <= 2 * n, 2 * n < m PROVE Signed(n, m) = n
  <2>1. CASE n >= 0
    <3>1. low = n
      BY <1>3, <2>1, SmallRemainder
    <3> QED
      BY <1>2, <1>3, <3>1
  <2>2. CASE n < 0
    <3>1. n \in (-m)..(-1)
      BY <1>3, <2>2
    <3>2. low = n + m
      BY <3>1, SmallRemainder
    <3> QED
      BY <1>2, <1>3, <3>2
  <2> QED
    BY <2>1, <2>2
<1>4. ASSUME Signed(n, m) = n PROVE -m <= 2 * n /\ 2 * n < m
  <2> HIDE DEF low
  <2> QED
    BY <1>1, <1>2, <1>4
<1> QED
  BY <1>3, <1>4

(* An integral type represents integers alone.                              *)
LEMMA RepresentedIntegers ==
  ASSUME NEW name \in Integral, NEW v \in Element
  PROVE  Represents(name, v) <=>
           \E n \in Int :
             /\ v = Num(n)
             /\ IF Signs[name] THEN Signed(n, Modulus(name)) = n ELSE n \in 0..(Modulus(name) - 1)
<1>1. name \notin Floating
  BY IntegralOrFloating
<1>2. Represents(name, v) <=>
        /\ v.js = "int"
        /\ IF Signs[name] THEN Signed(v.n, Modulus(name)) = v.n ELSE v.n \in 0..(Modulus(name) - 1)
  BY <1>1 DEF Represents, Floating
<1>3. v.js = "int" <=> \E n \in Int : v = Num(n)
  BY DEF Element, Num, Fraction, FineFraction, Mem, SamplerObject, Other
<1>4. \A n : Num(n).n = n
  BY DEF Num
<1> QED
  BY <1>2, <1>3, <1>4

(* Numbers of a type pass its test.                                        *)
LEMMA RepresentedAccepted ==
  ASSUME NEW name \in NumberTypes, NEW v \in Element, Represents(name, v)
  PROVE  IsNumber(v) /\ Accepts(name, v)
<1>1. CASE name \in Floating
  <2>1. name \notin Integral
    BY <1>1, IntegralOrFloating
  <2>2. IsNumber(v)
    <3>1. CASE name = "double"
      BY <2>1, <3>1 DEF Represents
    <3>2. CASE name \in {"half", "float"}
      <4>1. v = Fraction \/ v.js = "int"
        BY <2>1, <3>2 DEF Represents
      <4> QED
        BY <4>1 DEF IsNumber, Fraction
    <3> QED
      BY <1>1, <3>1, <3>2 DEF Floating
  <2> QED
    BY <1>1, <2>2 DEF Accepts, Floating
<1>2. CASE name \in Integral \ Floating
  <2>1. v.js = "int" /\ v.n \in Int
    BY <1>2, RepresentedIntegers DEF Num
  <2>2. /\ Signs[name] => -Modulus(name) <= 2 * v.n /\ 2 * v.n < Modulus(name)
        /\ ~Signs[name] => v.n \in 0..(Modulus(name) - 1)
    <3>1. Modulus(name) \in Nat \ {0} /\ 2 * (Modulus(name) \div 2) = Modulus(name)
      BY <1>2, Moduli
    <3>2. Signs[name] => Signed(v.n, Modulus(name)) = v.n
      BY <1>2, RepresentedIntegers DEF Num
    <3>3. ~Signs[name] => v.n \in 0..(Modulus(name) - 1)
      BY <1>2, RepresentedIntegers DEF Num
    <3> QED
      BY <2>1, <3>1, <3>2, <3>3, SignedFixes
  <2>3. name \in {"char", "uchar", "short", "ushort", "int"} => IsInt32(v)
    <3>1. name \in {"char", "uchar", "short", "ushort", "int"}
            => -Word <= 2 * v.n /\ 2 * v.n < Word
      <4>1. /\ name \in {"char", "uchar", "short", "ushort"} =>
                  Modulus(name) \in Nat /\ 2 * Modulus(name) <= Word
            /\ name = "int" => Modulus(name) = Word /\ Signs[name]
        BY <1>2, Moduli, TypesOfNumbers
      <4> QED
        BY <2>1, <2>2, <4>1, Widths
    <3>2. (-Word <= 2 * v.n /\ 2 * v.n < Word) => Signed(v.n, Word) = v.n
      BY <2>1, SignedFixes, Widths
    <3> QED
      BY <2>1, <3>1, <3>2 DEF IsInt32, ToInt32
  <2>4. name = "uint" => IsUint32(v)
    BY <1>2, <2>1, <2>2, Moduli, TypesOfNumbers, OfWord DEF IsUint32, ToUint32
  <2> QED
    BY <2>1, <2>3, <2>4 DEF Accepts, IsNumber
<1> QED
  BY <1>1, <1>2 DEF NumberTypes

(* A number in the bits of a type is one of the type.                        *)
LEMMA FitRange ==
  ASSUME NEW name \in Integral, NEW n \in Int
  PROVE  IF Signs[name] THEN Signed(Fit(name, n), Modulus(name)) = Fit(name, n)
                        ELSE Fit(name, n) \in 0..(Modulus(name) - 1)
<1>1. Modulus(name) \in Nat \ {0} /\ 2 * (Modulus(name) \div 2) = Modulus(name)
  BY Moduli
<1>2. n % Modulus(name) \in 0..(Modulus(name) - 1)
  BY <1>1, Divided
<1>3. ASSUME Signs[name] PROVE Signed(Fit(name, n), Modulus(name)) = Fit(name, n)
  <2> DEFINE m == Modulus(name)
             fit == Signed(n, m)
  <2>1. fit \in Int /\ -m <= 2 * fit /\ 2 * fit < m
    BY <1>1, <1>2 DEF Signed
  <2> HIDE DEF m, fit
  <2>2. m \in Nat \ {0} /\ 2 * (m \div 2) = m
    BY <1>1 DEF m
  <2>3. Signed(fit, m) = fit
    BY <2>1, <2>2, SignedFixes
  <2> QED
    BY <1>3, <2>3 DEF Fit, m, fit
<1>4. ASSUME ~Signs[name] PROVE Fit(name, n) \in 0..(Modulus(name) - 1)
  BY <1>2, <1>4 DEF Fit
<1> QED
  BY <1>3, <1>4

(* Of a type that is not integral, the values that reach the driver as they  *)
(* are.                                                                    *)
LEMMA FloatingArrives ==
  ASSUME NEW name \in Floating, NEW v \in Element, IsNumber(v)
  PROVE  Converted(name, v) = v <=> Represents(name, v) /\ ~Misread(name, v)
<1>1. name \notin Integral
  BY IntegralOrFloating
<1>2. v \notin {[js |-> "bits"], [js |-> "rounded"]}
  BY DEF Element, Num, Fraction, FineFraction, Mem, SamplerObject, Other
<1>3. v.js = "int" \/ v = Fraction \/ v = FineFraction
  BY DEF IsNumber, Element, Num, Fraction, FineFraction, Mem, SamplerObject, Other
<1>4. Fraction # FineFraction /\ Fraction.js # "int" /\ FineFraction.js # "int"
  BY DEF Fraction, FineFraction
<1>5. CASE name = "half"
  <2>1. Converted(name, v) = IF v = Num(0) THEN v ELSE [js |-> "bits"]
    BY <1>1, <1>5 DEF Converted
  <2>2. Represents(name, Num(0))
    BY <1>1, <1>5, ZeroIsHeld DEF Represents, Num
  <2> QED
    BY <1>2, <1>5, <2>1, <2>2 DEF Misread
<1>6. CASE name = "float"
  <2>1. Converted(name, v) = IF v = FineFraction \/ (v.js = "int" /\ ~Holds(name, v.n))
                               THEN [js |-> "rounded"] ELSE v
    BY <1>1, <1>6 DEF Converted
  <2>2. Represents(name, v) <=> v = Fraction \/ (v.js = "int" /\ Holds(name, v.n))
    BY <1>1, <1>6 DEF Represents
  <2>3. ~Misread(name, v)
    BY <1>6 DEF Misread
  <2> QED
    BY <1>2, <1>3, <1>4, <2>1, <2>2, <2>3
<1>7. CASE name = "double"
  BY <1>1, <1>7 DEF Converted, Represents, Misread
<1> QED
  BY <1>5, <1>6, <1>7 DEF Floating

(* A number reaches the driver as it is exactly if its type has it and the    *)
(* code does not misread it.                                               *)
LEMMA RepresentedArrives ==
  ASSUME NEW name \in NumberTypes, NEW v \in Element, IsNumber(v)
  PROVE  Converted(name, v) = v <=> Represents(name, v) /\ ~Misread(name, v)
<1>1. CASE name \in Floating
  BY <1>1, FloatingArrives
<1>2. CASE name \in Integral /\ v.js # "int"
  <2>1. Converted(name, v) = [js |-> "truncated"]
    BY <1>2, IntegralOrFloating DEF Converted, Floating
  <2>2. [js |-> "truncated"] # v
    BY DEF Element, Num, Fraction, FineFraction, Mem, SamplerObject, Other
  <2>3. ~Represents(name, v)
    BY <1>2, RepresentedIntegers DEF Num
  <2> QED
    BY <2>1, <2>2, <2>3
<1>3. CASE name \in Integral /\ v.js = "int"
  <2>1. PICK n \in Int : v = Num(n)
    BY <1>3 DEF Element, Num, Fraction, FineFraction, Mem, SamplerObject, Other
  <2>2. v.js = "int" /\ v.n = n
    BY <2>1 DEF Num
  <2>3. \A m : Num(m) = v <=> m = n
    BY <2>1 DEF Num
  <2>4. Modulus(name) \in Nat \ {0} /\ 2 * (Modulus(name) \div 2) = Modulus(name) /\ Modulus(name) <= Long
    BY <1>3, Moduli
  <2>5. Converted(name, v) = Num(Fit(name, ToInt64(n)))
    BY <1>3, <2>2, IntegralOrFloating DEF Converted, Floating
  <2>6. Misread(name, v) <=> name = "ulong" /\ 2 * n >= Long
    BY <1>3, <2>2, TypesOfNumbers DEF Misread
  <2>7. Represents(name, v) <=>
          IF Signs[name] THEN Signed(n, Modulus(name)) = n ELSE n \in 0..(Modulus(name) - 1)
    BY <1>3, <2>3, RepresentedIntegers
  <2>8. ASSUME Fit(name, ToInt64(n)) = n PROVE Represents(name, v)
    <3>1. ToInt64(n) \in Int
      BY Widths DEF ToInt64
    <3> QED
      BY <1>3, <2>7, <2>8, <3>1, FitRange
  <2>9. ASSUME Represents(name, v)
        PROVE  Fit(name, ToInt64(n)) = n <=> ~Misread(name, v)
    <3>1. CASE Signs[name]
      <4>1. Signed(n, Modulus(name)) = n
        BY <2>7, <2>9, <3>1
      <4>2. -Long <= 2 * n /\ 2 * n < Long
        BY <2>4, <4>1, SignedFixes, Widths
      <4>3. ToInt64(n) = n
        BY <4>2, Widths DEF ToInt64
      <4>4. name # "ulong"
        BY <1>3, <3>1, TypesOfNumbers
      <4> QED
        BY <2>6, <3>1, <4>1, <4>3, <4>4 DEF Fit
    <3>2. CASE ~Signs[name] /\ 2 * n < Long
      <4>1. n \in 0..(Modulus(name) - 1)
        BY <2>7, <2>9, <3>2
      <4>2. ToInt64(n) = n
        BY <3>2, <4>1, Widths DEF ToInt64
      <4>3. n % Modulus(name) = n
        BY <2>4, <4>1, SmallRemainder
      <4>4. Fit(name, ToInt64(n)) = n
        BY <3>2, <4>2, <4>3 DEF Fit
      <4> QED
        BY <2>6, <3>2, <4>4, Widths
    <3>3. CASE ~Signs[name] /\ 2 * n >= Long
      <4>1. n \in 0..(Modulus(name) - 1)
        BY <2>7, <2>9, <3>3
      <4>2. name = "ulong" /\ Modulus(name) = Long
        <5>1. name \in {"uchar", "ushort", "uint", "ulong"}
          BY <1>3, <3>3, TypesOfNumbers
        <5>2. /\ name \in {"uchar", "ushort"} => 2 * Modulus(name) <= Word
              /\ name = "uint" => Modulus(name) = Word
              /\ name = "ulong" => Modulus(name) = Long
          BY <1>3, Moduli
        <5> QED
          BY <2>4, <3>3, <4>1, <5>1, <5>2, Widths
      <4>3. ToInt64(n) = (Long \div 2) - 1 /\ (Long \div 2) - 1 \in 0..(Long - 1)
        BY <3>3, Widths DEF ToInt64
      <4>4. Fit(name, ToInt64(n)) = (Long \div 2) - 1
        BY <3>3, <4>2, <4>3, OfLong, Widths DEF Fit
      <4>5. (Long \div 2) - 1 # n
        BY <3>3, <4>1, Widths
      <4> QED
        BY <2>6, <3>3, <4>2, <4>4, <4>5
    <3> QED
      BY <3>1, <3>2, <3>3, Widths
  <2> QED
    BY <2>3, <2>5, <2>8, <2>9
<1> QED
  BY <1>1, <1>2, <1>3 DEF NumberTypes

(* What is no element is an array of elements, of one of the lengths.        *)
LEMMA ValuesAre ==
  ASSUME NEW v \in Values
  PROVE  \/ v \in Element /\ v.js # "array"
         \/ /\ v.js = "array" /\ v.items \in Seq(Element)
            /\ Len(v.items) \in Lanes \cup {0, 1}
<1>1. CASE v \in Scalars
  BY <1>1, Widths
     DEF Scalars, Integers64, Element, Num, Fraction, FineFraction, Mem, SamplerObject, Other
<1>2. CASE v \in Arrays
  <2>1. PICK n \in Lanes \cup {0, 1} : \E items \in [1..n -> Items] : v = Array(items)
    BY <1>2 DEF Arrays
  <2>2. PICK items \in [1..n -> Items] : v = Array(items)
    BY <2>1
  <2>3. n \in Nat
    BY LanesAreVectors
  <2>4. Items \subseteq Element
    BY Widths DEF Items, Element
  <2>5. items \in Seq(Element) /\ Len(items) = n
    BY <2>2, <2>3, <2>4
  <2> QED
    BY <2>1, <2>2, <2>5 DEF Array
<1> QED
  BY <1>1, <1>2 DEF Values

(* A declared number.                                                      *)
Numbers == {Number(name, lanes) : name \in NumberTypes, lanes \in Lanes \cup {1}}

LEMMA NumbersAre ==
  ASSUME NEW d \in Numbers
  PROVE  /\ d.is = "number" /\ d.name \in NumberTypes
         /\ d.lanes \in Lanes \cup {1} /\ d.lanes \in Nat \ {0}
         /\ d = Number(d.name, d.lanes)
BY LanesAreVectors DEF Numbers, Number

(* Sizes are positive and each a power of two times that of a char.          *)
LEMMA Sizings ==
  ASSUME NEW name \in NumberTypes
  PROVE  /\ CharBits \in Nat \ {0}
         /\ Bits(name) \in {CharBits, 2 * CharBits, 4 * CharBits, 8 * CharBits}
         /\ Bits(name) \in Nat \ {0}
<1>1. CharBits \in Nat \ {0} /\ ShortBits = 2 * CharBits /\ IntBits = 4 * CharBits
  BY WidthsDouble
<1>2. name \in {"char", "uchar", "short", "ushort", "int", "uint", "long", "ulong",
                "half", "float", "double"}
  BY TypesOfNumbers DEF NumberTypes, Floating
<1>3. Bits(name) \in {CharBits, ShortBits, IntBits, 2 * IntBits}
  BY <1>2, Zenon DEF Bits
<1> QED
  BY <1>1, <1>3

(* Only numbers pass a test.                                               *)
LEMMA AcceptedIsNumber ==
  ASSUME NEW name \in NumberTypes, NEW v, Accepts(name, v)
  PROVE  IsNumber(v)
BY DEF Accepts, IsInt32, IsUint32, IsNumber

(* What numbers are converted to.                                          *)
DataKinds == {"int", "fraction", "fine", "truncated", "bits", "rounded"}

(* A converted number is some number.                                      *)
LEMMA ConvertedIsData ==
  ASSUME NEW name \in NumberTypes, NEW v, IsNumber(v)
  PROVE  Converted(name, v).js \in DataKinds
BY DEF Converted, IsNumber, Num, DataKinds, NumberTypes, Floating

(* The values the table of conversions takes for a type, and what it makes   *)
(* of them.                                                                *)
Taken(d, v) ==
  IF d.lanes = 1 THEN Accepts(d.name, v)
  ELSE /\ v.js = "array" /\ Len(v.items) = d.lanes
       /\ \A i \in 1..d.lanes : Accepts(d.name, v.items[i])

Data(d, v) ==
  IF d.lanes = 1 THEN Converted(d.name, v)
  ELSE Array([i \in 1..d.lanes |-> Converted(d.name, v.items[i])])

LEMMA Answers ==
  /\ \A error : "data" \notin DOMAIN Throws(error)
  /\ \A size, data : /\ "data" \in DOMAIN Calls(size, data)
                     /\ Calls(size, data).size = size /\ Calls(size, data).data = data
BY DEF Throws, Calls

LEMMA ConvertAnswers ==
  ASSUME NEW d \in Numbers, NEW v
  PROVE  /\ "data" \in DOMAIN Convert(d, v) <=> Taken(d, v)
         /\ Taken(d, v) => /\ Convert(d, v).size = d.lanes * Bits(d.name)
                           /\ Convert(d, v).data = Data(d, v)
<1>1. CASE d.lanes = 1
  <2>1. 1 * Bits(d.name) = Bits(d.name)
    BY NumbersAre, Sizings
  <2> QED
    BY <1>1, <2>1, Answers DEF Convert, Taken, Data
<1>2. CASE d.lanes # 1
  BY <1>2, Answers DEF Convert, Taken, Data
<1> QED
  BY <1>1, <1>2

(* A value sets a parameter declared as a number, without a type name, when  *)
(* it is taken and the type is no vector of three.                         *)
LEMMA NumberSet ==
  ASSUME NEW d \in Numbers, NEW v
  PROVE  /\ ByDeclaration(d, v) = Convert(d, v)
         /\ Succeeds(d, Convert(d, v)) <=> Taken(d, v) /\ d.lanes # 3
<1>1. d.is = "number" /\ d.name \in NumberTypes /\ d.lanes \in Nat \ {0}
  BY NumbersAre
<1>2. ByDeclaration(d, v) = Convert(d, v)
  BY <1>1 DEF ByDeclaration
<1>3. d.lanes * Bits(d.name) = DeclaredBits(d) <=> d.lanes # 3
  <2>1. Bits(d.name) \in Nat \ {0}
    BY <1>1, Sizings
  <2>2. CASE d.lanes = 3
    BY <2>1, <2>2 DEF DeclaredBits
  <2>3. CASE d.lanes # 3
    <3>1. DeclaredBits(d) = Bits(d.name) * d.lanes
      BY <2>3 DEF DeclaredBits
    <3> QED
      BY <1>1, <2>1, <2>3, <3>1, Z3
  <2> QED
    BY <2>2, <2>3
<1>4. ASSUME Taken(d, v) PROVE Data(d, v).js # "null"
  <2>1. CASE d.lanes = 1
    BY <1>1, <1>4, <2>1, AcceptedIsNumber, ConvertedIsData DEF Taken, Data, DataKinds
  <2>2. CASE d.lanes # 1
    BY <2>2 DEF Data, Array
  <2> QED
    BY <2>1, <2>2
<1>5. Succeeds(d, Convert(d, v)) <=>
        /\ "data" \in DOMAIN Convert(d, v)
        /\ Convert(d, v).data.js # "null"
        /\ Convert(d, v).size = DeclaredBits(d)
  BY <1>1 DEF Succeeds, Driver
<1>6. Succeeds(d, Convert(d, v)) <=> Taken(d, v) /\ d.lanes # 3
  BY <1>3, <1>4, <1>5, ConvertAnswers
<1> QED
  BY <1>2, <1>6

(* What ArgumentsArrive says, of every declared number and every value.      *)
LEMMA ArgumentArrives ==
  ASSUME NEW d \in Numbers, NEW v \in Values
  PROVE  LET answer == ByDeclaration(d, v)
             shaped == (v.js = "array" <=> d.lanes > 1) /\ Len(Elements(v)) = d.lanes
             given == Elements(v)
         IN
         /\ Succeeds(d, answer) =>
              /\ shaped /\ d.lanes # 3
              /\ \A i \in 1..d.lanes :
                   /\ IsNumber(given[i])
                   /\ Elements(answer.data)[i] = given[i] <=>
                        Represents(d.name, given[i]) /\ ~Misread(d.name, given[i])
         /\ shaped /\ d.lanes # 3 /\ (\A i \in 1..d.lanes : Represents(d.name, given[i]))
              => Succeeds(d, answer)
<1> DEFINE answer == ByDeclaration(d, v)
           shaped == (v.js = "array" <=> d.lanes > 1) /\ Len(Elements(v)) = d.lanes
           given == Elements(v)
<1>1. d.name \in NumberTypes /\ d.lanes \in Nat \ {0}
  BY NumbersAre
<1>2. answer = Convert(d, v) /\ (Succeeds(d, answer) <=> Taken(d, v) /\ d.lanes # 3)
  BY NumberSet
<1>3. CASE v \in Element /\ v.js # "array"
  <2>1. given = <<v>> /\ Len(given) = 1 /\ given[1] = v
    BY <1>3 DEF Elements
  <2>2. ASSUME Taken(d, v)
        PROVE  d.lanes = 1 /\ IsNumber(v) /\ Elements(answer.data) = <<Converted(d.name, v)>>
    <3>1. d.lanes = 1 /\ Accepts(d.name, v)
      BY <1>3, <2>2 DEF Taken
    <3>2. IsNumber(v)
      BY <1>1, <3>1, AcceptedIsNumber
    <3>3. answer.data = Converted(d.name, v)
      BY <1>2, <2>2, <3>1, ConvertAnswers DEF Data
    <3>4. answer.data.js # "array"
      BY <1>1, <3>2, <3>3, ConvertedIsData DEF DataKinds
    <3> QED
      BY <3>1, <3>2, <3>3, <3>4 DEF Elements
  <2>3. ASSUME shaped, \A i \in 1..d.lanes : Represents(d.name, given[i])
        PROVE  Taken(d, v)
    <3>1. d.lanes = 1 /\ Represents(d.name, v)
      BY <1>1, <2>1, <2>3
    <3> QED
      BY <1>1, <1>3, <3>1, RepresentedAccepted DEF Taken
  <2>4. ASSUME Taken(d, v)
        PROVE  Elements(answer.data)[1] = v <=> Represents(d.name, v) /\ ~Misread(d.name, v)
    BY <1>1, <1>3, <2>2, <2>4, RepresentedArrives
  <2>5. Taken(d, v) =>
          /\ shaped
          /\ \A i \in 1..d.lanes :
               /\ IsNumber(given[i])
               /\ Elements(answer.data)[i] = given[i] <=>
                    Represents(d.name, given[i]) /\ ~Misread(d.name, given[i])
    BY <1>3, <2>1, <2>2, <2>4
  <2> QED
    BY <1>2, <2>3, <2>5
<1>4. CASE v.js = "array" /\ v.items \in Seq(Element)
  <2>1. given = v.items
    BY <1>4 DEF Elements
  <2>2. ASSUME Taken(d, v)
        PROVE  /\ d.lanes > 1 /\ Len(given) = d.lanes
               /\ \A i \in 1..d.lanes : given[i] \in Element /\ Accepts(d.name, given[i])
               /\ \A i \in 1..d.lanes : Elements(answer.data)[i] = Converted(d.name, given[i])
    <3>1. d.lanes # 1
      <4>1. ASSUME d.lanes = 1 PROVE FALSE
        <5>1. IsNumber(v)
          BY <1>1, <2>2, <4>1, AcceptedIsNumber DEF Taken
        <5> QED
          BY <1>4, <5>1 DEF IsNumber
      <4> QED
        BY <4>1
    <3>2. Len(given) = d.lanes /\ \A i \in 1..d.lanes : Accepts(d.name, given[i])
      BY <2>1, <2>2, <3>1 DEF Taken
    <3>3. \A i \in 1..d.lanes : given[i] \in Element
      BY <1>4, <2>1, <3>2
    <3>4. answer.data = Array([i \in 1..d.lanes |-> Converted(d.name, given[i])])
      BY <1>2, <2>1, <2>2, <3>1, ConvertAnswers DEF Data
    <3>5. Elements(answer.data) = [i \in 1..d.lanes |-> Converted(d.name, given[i])]
      BY <3>4 DEF Elements, Array
    <3> QED
      BY <1>1, <3>1, <3>2, <3>3, <3>5
  <2>3. ASSUME shaped, \A i \in 1..d.lanes : Represents(d.name, given[i])
        PROVE  Taken(d, v)
    <3>1. d.lanes # 1 /\ Len(v.items) = d.lanes
      BY <1>1, <1>4, <2>1, <2>3
    <3>2. ASSUME NEW i \in 1..d.lanes PROVE Accepts(d.name, v.items[i])
      <4>1. v.items[i] \in Element /\ Represents(d.name, v.items[i])
        BY <1>4, <2>1, <2>3, <3>1
      <4> QED
        BY <1>1, <4>1, RepresentedAccepted
    <3> QED
      BY <1>4, <3>1, <3>2 DEF Taken
  <2>4. ASSUME Taken(d, v), NEW i \in 1..d.lanes
        PROVE  /\ IsNumber(given[i])
               /\ Elements(answer.data)[i] = given[i] <=>
                    Represents(d.name, given[i]) /\ ~Misread(d.name, given[i])
    <3>1. /\ given[i] \in Element /\ Accepts(d.name, given[i])
          /\ Elements(answer.data)[i] = Converted(d.name, given[i])
      BY <2>2, <2>4
    <3> QED
      BY <1>1, <3>1, AcceptedIsNumber, RepresentedArrives
  <2>5. Taken(d, v) => shaped
    BY <1>4, <2>2
  <2> QED
    BY <1>2, <2>3, <2>4, <2>5
<1> QED
  BY <1>3, <1>4, ValuesAre

(* A kernel's parameter is declared once.                                  *)
THEOREM DeclaredInvariance == MarshallingSpec => [](declared \in Declared \cup {NoParameter})
<1>1. Start => declared \in Declared \cup {NoParameter}
  BY DEF Start
<1>2. declared \in Declared \cup {NoParameter} /\ [MarshallingNext]_marshallingVars
        => (declared \in Declared \cup {NoParameter})'
  <2> SUFFICES ASSUME declared \in Declared \cup {NoParameter},
                      [MarshallingNext]_marshallingVars
               PROVE  (declared \in Declared \cup {NoParameter})'
    OBVIOUS
  <2>1. Declared' = Declared /\ NoParameter' = NoParameter
    BY DEF Declared, NoParameter, Number, Integral, Signs, Floating, Pointer, Local, Image, Sampler,
           Struct
  <2>2. declared' = declared \/ declared' \in Declared
    BY DEF MarshallingNext, marshallingVars, Give, Declare
  <2> QED
    BY <2>1, <2>2
<1> QED
  BY <1>1, <1>2, PTL DEF MarshallingSpec

LEMMA DeclaredNumber ==
  ASSUME declared \in Declared \cup {NoParameter}, declared.is = "number"
  PROVE  declared \in Numbers
BY DEF Declared, NoParameter, Numbers, NumberTypes, Number, Pointer, Local, Image, Sampler, Struct

LEMMA ArgumentsArriveOfDeclared ==
  declared \in Declared \cup {NoParameter} => ArgumentsArrive
BY DeclaredNumber, ArgumentArrives DEF ArgumentsArrive

(* ArgumentsArrive holds of every declared number and every value JS gives.  *)
THEOREM ArgumentsArriveHolds == MarshallingSpec => []ArgumentsArrive
BY DeclaredInvariance, ArgumentsArriveOfDeclared, PTL

-----------------------------------------------------------------------------
(* Type names                                                              *)

(* The value that sets a number: zero, or an array of zeros.                 *)
Zero(d) == IF d.lanes = 1 THEN Num(0) ELSE Array([i \in 1..d.lanes |-> Num(0)])

LEMMA ZeroTaken ==
  ASSUME NEW d \in Numbers
  PROVE  Zero(d) \in Values /\ Taken(d, Zero(d))
<1>1. d.name \in NumberTypes /\ d.lanes \in Lanes \cup {1} /\ d.lanes \in Nat \ {0}
  BY NumbersAre
<1>2. Num(0) \in Element /\ Num(0) \in Items /\ Num(0) \in Scalars
  BY Widths DEF Element, Items, Scalars, Integers64
<1>3. Represents(d.name, Num(0))
  <2>1. Num(0).js = "int" /\ Num(0).n = 0
    BY DEF Num
  <2>2. CASE d.name \in Floating
    <3>1. d.name \notin Integral
      BY <2>2, IntegralOrFloating
    <3>2. d.name = "double" => Represents(d.name, Num(0))
      BY <2>1, <3>1 DEF Represents, IsNumber
    <3>3. d.name \in {"half", "float"} => Represents(d.name, Num(0))
      BY <2>1, <3>1, ZeroIsHeld DEF Represents
    <3> QED
      BY <2>2, <3>2, <3>3 DEF Floating
  <2>3. CASE d.name \in Integral \ Floating
    <3>1. Modulus(d.name) \in Nat \ {0} /\ 2 * (Modulus(d.name) \div 2) = Modulus(d.name)
      BY <2>3, Moduli
    <3>2. Signed(0, Modulus(d.name)) = 0 /\ 0 \in 0..(Modulus(d.name) - 1)
      BY <3>1, SignedFixes
    <3> QED
      BY <1>2, <2>3, <3>2, RepresentedIntegers
  <2> QED
    BY <1>1, <2>2, <2>3 DEF NumberTypes
<1>4. Accepts(d.name, Num(0))
  BY <1>1, <1>2, <1>3, RepresentedAccepted
<1>5. CASE d.lanes = 1
  BY <1>2, <1>4, <1>5 DEF Zero, Taken, Values
<1>6. CASE d.lanes # 1
  <2> DEFINE zeros == [i \in 1..d.lanes |-> Num(0)]
  <2>1. zeros \in [1..d.lanes -> Items] /\ Len(zeros) = d.lanes
          /\ \A i \in 1..d.lanes : zeros[i] = Num(0)
    BY <1>1, <1>2
  <2>2. Zero(d) = Array(zeros)
    BY <1>6 DEF Zero
  <2> HIDE DEF zeros
  <2>3. Zero(d) \in Values
    BY <1>1, <2>1, <2>2 DEF Values, Arrays
  <2>4. Zero(d).js = "array" /\ Zero(d).items = zeros
    BY <2>2 DEF Array
  <2> QED
    BY <1>4, <1>6, <2>1, <2>3, <2>4 DEF Taken
<1> QED
  BY <1>5, <1>6

(* What declared parameters and type names there are.                       *)
LEMMA Kinds ==
  /\ Declared = Numbers \cup {Pointer, Local, Image, Sampler, Struct}
  /\ Pointer.is = "pointer" /\ Local.is = "local" /\ Image.is = "image"
  /\ Sampler.is = "sampler" /\ Struct.is = "struct"
  /\ TypeNames = Declared \cup {[is |-> "cl_mem"], [is |-> "bool"]}
BY DEF Declared, Numbers, Number, NumberTypes, Pointer, Local, Image, Sampler, Struct, TypeNames

(* What the driver is asked under each type name, if it is asked: a memory   *)
(* object for "cl_mem" and pointers alone, the kernel for a sampler, never a *)
(* sampler.                                                                *)
LEMMA NamedData ==
  ASSUME NEW t \in TypeNames, NEW v, "data" \in DOMAIN Named(t, v)
  PROVE  /\ Named(t, v).data.js # "sampler"
         /\ Named(t, v).data.js = "mem" => t \in {Pointer, [is |-> "cl_mem"]}
         /\ t \in Numbers => Named(t, v).size = t.lanes * Bits(t.name)
<1>1. CASE t \in Numbers
  <2>1. t.is = "number" /\ t.name \in NumberTypes
    BY <1>1, NumbersAre
  <2>2. Named(t, v) = Convert(t, v)
    BY <1>1, <2>1, NumberSet DEF Named
  <2>3. Taken(t, v) /\ Convert(t, v).data = Data(t, v)
          /\ Convert(t, v).size = t.lanes * Bits(t.name)
    BY <1>1, <2>2, ConvertAnswers
  <2>4. Data(t, v).js \in DataKinds \cup {"array"}
    <3>1. CASE t.lanes = 1
      BY <2>1, <2>3, <3>1, AcceptedIsNumber, ConvertedIsData DEF Taken, Data
    <3>2. CASE t.lanes # 1
      BY <3>2 DEF Data, Array
    <3> QED
      BY <3>1, <3>2
  <2> QED
    BY <2>2, <2>3, <2>4 DEF DataKinds
<1>2. CASE t = Pointer \/ t = [is |-> "cl_mem"]
  <2>1. Named(t, v) = ArgMem(v) /\ t \notin Numbers
    BY <1>2, Kinds, NumbersAre DEF Named, ByDeclaration
  <2> QED
    BY <1>2, <2>1, Answers DEF ArgMem, Mem
<1>3. CASE t = [is |-> "bool"]
  <2>1. /\ t \notin Numbers
        /\ Named(t, v) = Calls(IntBits, Num(IF v \in {Num(0), Other} THEN 0 ELSE 1))
    BY <1>3, NumbersAre DEF Named
  <2> QED
    BY <2>1, Answers DEF Num
<1>4. CASE t = Local
  <2>1. Named(t, v) = ArgLocal(v) /\ t \notin Numbers
    BY <1>4, Kinds, NumbersAre DEF Named, ByDeclaration
  <2> QED
    BY <2>1, Answers DEF ArgLocal
<1>5. CASE t = Sampler
  <2>1. Named(t, v) = ArgSampler(v) /\ t \notin Numbers
    BY <1>5, Kinds, NumbersAre DEF Named, ByDeclaration
  <2> QED
    BY <2>1, Answers DEF ArgSampler
<1>6. CASE t = Image \/ t = Struct
  <2>1. Named(t, v) = Throws("Unsupported")
    BY <1>6, Kinds DEF Named, ByDeclaration
  <2> QED
    BY <2>1, Answers
<1> QED
  BY <1>1, <1>2, <1>3, <1>4, <1>5, <1>6, Kinds

(* A number under the name of a number: the sizes must be equal, and then    *)
(* zeros set it.                                                           *)
LEMMA NumberByName ==
  ASSUME NEW d \in Numbers, NEW t \in Numbers
  PROVE  /\ t.lanes * Bits(t.name) = DeclaredBits(d) => Succeeds(d, Named(t, Zero(t)))
         /\ \A v : Succeeds(d, Named(t, v)) => t.lanes * Bits(t.name) = DeclaredBits(d)
<1>1. d.is = "number" /\ t.is = "number" /\ t.name \in NumberTypes
  BY NumbersAre
<1>2. \A v : Named(t, v) = Convert(t, v)
  BY <1>1, NumberSet DEF Named
<1>3. \A v : Succeeds(d, Convert(t, v)) <=>
               /\ Taken(t, v) /\ Data(t, v).js # "null"
               /\ t.lanes * Bits(t.name) = DeclaredBits(d)
  BY <1>1, ConvertAnswers DEF Succeeds, Driver
<1>4. Data(t, Zero(t)).js # "null"
  <2>1. CASE t.lanes = 1
    BY <1>1, <2>1, ZeroTaken, AcceptedIsNumber, ConvertedIsData DEF Taken, Data, DataKinds
  <2>2. CASE t.lanes # 1
    BY <2>2 DEF Data, Array
  <2> QED
    BY <2>1, <2>2
<1> QED
  BY <1>2, <1>3, <1>4, ZeroTaken

(* A vector of three takes the size of one of four of its type, which no     *)
(* other vector of three has.                                              *)
LEMMA ThreeAsFour ==
  ASSUME NEW d \in Numbers, d.lanes = 3
  PROVE  /\ \E t \in Numbers : t.lanes * Bits(t.name) = DeclaredBits(d)
         /\ \A t \in Numbers : t.lanes * Bits(t.name) = DeclaredBits(d) => t.lanes # 3
<1>1. d.name \in NumberTypes /\ d.lanes \in Lanes \cup {1}
  BY NumbersAre
<1>2. DeclaredBits(d) = Bits(d.name) * 4 /\ Bits(d.name) \in Nat \ {0}
  BY <1>1, Sizings DEF DeclaredBits
<1>3. \E t \in Numbers : t.lanes * Bits(t.name) = DeclaredBits(d)
  <2>1. Number(d.name, 4) \in Numbers
    BY <1>1, LanesAreVectors DEF Numbers
  <2>2. Number(d.name, 4).lanes = 4 /\ Number(d.name, 4).name = d.name
    BY DEF Number
  <2> QED
    BY <1>2, <2>1, <2>2
<1>4. ASSUME NEW t \in Numbers, t.lanes = 3, t.lanes * Bits(t.name) = DeclaredBits(d)
      PROVE  FALSE
  <2>1. t.name \in NumberTypes
    BY NumbersAre
  <2>2. /\ CharBits \in Nat \ {0}
        /\ Bits(t.name) \in {CharBits, 2 * CharBits, 4 * CharBits, 8 * CharBits}
        /\ Bits(d.name) \in {CharBits, 2 * CharBits, 4 * CharBits, 8 * CharBits}
    BY <1>1, <2>1, Sizings
  <2>3. 3 * Bits(t.name) = 4 * Bits(d.name)
    BY <1>2, <1>4, <2>2
  <2> QED
    BY <2>2, <2>3
<1> QED
  BY <1>3, <1>4

(* The values that set the other parameters: a size for local memory, a      *)
(* memory object for a pointer or, under "cl_mem", an image.                *)
LEMMA OneIsASize == Num(1) \in Values /\ Succeeds(Local, ArgLocal(Num(1)))
<1>1. Num(1) \in Values
  BY Widths DEF Values, Scalars, Integers64
<1>2. Word >= 4
  <2>1. Byte * Byte \in Nat /\ Byte * Byte >= 4
    BY WordIsFourBytes, Z3
  <2> DEFINE short == Byte * Byte
  <2>2. short \in Nat /\ short >= 4 /\ Word = short * short
    BY <2>1, WordIsFourBytes
  <2> HIDE DEF short
  <2> QED
    BY <2>2, Z3
<1>3. SignedSize(1) = 1
  <2>1. ToInt32(1) = 1
    BY <1>2, SignedFixes, Widths DEF ToInt32
  <2> QED
    BY <1>2, <2>1, OfLong, Widths DEF SignedSize, ToSize
<1>4. IsNumber(Num(1)) /\ Num(1).js = "int" /\ Num(1).n = 1
  BY DEF IsNumber, Num
<1>5. ArgLocal(Num(1)) = Calls(1, [js |-> "null"])
  BY <1>3, <1>4 DEF ArgLocal
<1>6. Succeeds(Local, Calls(1, [js |-> "null"]))
  BY Answers, Kinds DEF Succeeds, Driver
<1> QED
  BY <1>1, <1>5, <1>6

LEMMA MemoryObjectIsSet ==
  /\ Mem \in Values
  /\ Succeeds(Pointer, ArgMem(Mem)) /\ Succeeds(Image, ArgMem(Mem))
<1>1. Mem \in Values
  BY DEF Values, Scalars
<1>2. ArgMem(Mem) = Calls(HandleBits, Mem) /\ Mem.js = "mem"
  BY DEF ArgMem, Mem
<1> QED
  BY <1>1, <1>2, Answers, Kinds DEF Succeeds, Driver

(* WaysToSet for each kind of parameter.                                    *)
ByName(d) == {t \in TypeNames : \E v \in Values : Succeeds(d, Named(t, v))}
ByNoName(d) == \E v \in Values : Succeeds(d, ByDeclaration(d, v))

LEMMA WaysForNumbers ==
  ASSUME NEW d \in Numbers
  PROVE  /\ ByNoName(d) <=> d.lanes # 3
         /\ ByName(d) # {}
         /\ d.lanes = 3 => \A t \in ByName(d) : t \in Numbers => t.lanes # 3
<1>1. \A t \in Numbers : t \in TypeNames
  BY Kinds
<1>2. ByNoName(d) <=> d.lanes # 3
  BY NumberSet, ZeroTaken DEF ByNoName
<1>3. CASE d.lanes = 3
  <2>1. PICK t \in Numbers : t.lanes * Bits(t.name) = DeclaredBits(d)
    BY <1>3, ThreeAsFour
  <2>2. t \in ByName(d)
    BY <1>1, <2>1, NumberByName, ZeroTaken DEF ByName
  <2>3. ASSUME NEW u \in ByName(d), u \in Numbers PROVE u.lanes # 3
    BY <1>3, <2>3, NumberByName, ThreeAsFour DEF ByName
  <2> QED
    BY <1>2, <1>3, <2>2, <2>3
<1>4. CASE d.lanes # 3
  <2>1. Succeeds(d, ByDeclaration(d, Zero(d)))
    BY <1>4, NumberSet, ZeroTaken
  <2>2. Named(d, Zero(d)) = ByDeclaration(d, Zero(d))
    BY NumbersAre DEF Named
  <2>3. d \in ByName(d)
    BY <1>1, <2>1, <2>2, ZeroTaken DEF ByName
  <2> QED
    BY <1>2, <1>4, <2>3
<1> QED
  BY <1>3, <1>4

LEMMA WaysForMemory ==
  /\ ByNoName(Pointer) /\ ByName(Pointer) # {}
  /\ ByNoName(Local) /\ ByName(Local) # {}
  /\ ~ByNoName(Image) /\ ByName(Image) = {Pointer, [is |-> "cl_mem"]}
<1>1. /\ Named(Pointer, Mem) = ArgMem(Mem) /\ ByDeclaration(Pointer, Mem) = ArgMem(Mem)
      /\ Named([is |-> "cl_mem"], Mem) = ArgMem(Mem)
      /\ Named(Local, Num(1)) = ArgLocal(Num(1)) /\ ByDeclaration(Local, Num(1)) = ArgLocal(Num(1))
  BY Kinds DEF Named, ByDeclaration
<1>2. {Pointer, Local, [is |-> "cl_mem"]} \subseteq TypeNames
  BY Kinds
<1>3. ByNoName(Pointer) /\ Pointer \in ByName(Pointer)
  BY <1>1, <1>2, MemoryObjectIsSet DEF ByNoName, ByName
<1>4. ByNoName(Local) /\ Local \in ByName(Local)
  BY <1>1, <1>2, OneIsASize DEF ByNoName, ByName
<1>5. ~ByNoName(Image)
  <2>1. \A v : ByDeclaration(Image, v) = Throws("Unsupported")
    BY Kinds DEF ByDeclaration
  <2> QED
    BY <2>1, Answers DEF ByNoName, Succeeds
<1>6. {Pointer, [is |-> "cl_mem"]} \subseteq ByName(Image)
  BY <1>1, <1>2, MemoryObjectIsSet DEF ByName
<1>7. ASSUME NEW t \in ByName(Image) PROVE t \in {Pointer, [is |-> "cl_mem"]}
  <2>1. PICK v \in Values : Succeeds(Image, Named(t, v))
    BY DEF ByName
  <2>2. t \in TypeNames /\ "data" \in DOMAIN Named(t, v) /\ Named(t, v).data.js = "mem"
    BY <2>1, Kinds DEF ByName, Succeeds, Driver
  <2> QED
    BY <2>2, NamedData
<1> QED
  BY <1>3, <1>4, <1>5, <1>6, <1>7

LEMMA NoWayForSamplers == ~ByNoName(Sampler) /\ ByName(Sampler) = {}
<1>1. ASSUME NEW t \in TypeNames, NEW v PROVE ~Succeeds(Sampler, Named(t, v))
  <2>1. Succeeds(Sampler, Named(t, v)) =>
          "data" \in DOMAIN Named(t, v) /\ Named(t, v).data.js = "sampler"
    BY Kinds DEF Succeeds, Driver
  <2> QED
    BY <2>1, NamedData
<1>2. Sampler \in TypeNames /\ \A v : ByDeclaration(Sampler, v) = Named(Sampler, v)
  BY Kinds DEF Named
<1> QED
  BY <1>1, <1>2 DEF ByNoName, ByName

LEMMA WaysOfDeclared ==
  declared \in Declared \cup {NoParameter} => WaysToSet
<1> SUFFICES ASSUME declared \in Declared, declared # Struct PROVE WaysToSet
  BY DEF WaysToSet
<1> DEFINE three == declared.is = "number" /\ declared.lanes = 3
<1> SUFFICES /\ ByNoName(declared) <=> ~three /\ declared \notin {Sampler, Image}
             /\ ByName(declared) = {} <=> declared = Sampler
             /\ declared = Image => ByName(declared) = {Pointer, [is |-> "cl_mem"]}
             /\ three => \A t \in ByName(declared) : t.is = "number" => t.lanes # 3
  BY Zenon DEF WaysToSet, ByNoName, ByName
<1>2. CASE declared \in Numbers
  <2>1. /\ declared.is = "number"
        /\ declared \notin {Sampler, Image}
    BY <1>2, NumbersAre, Kinds
  <2>2. \A t \in ByName(declared) : t.is = "number" => t \in Numbers
    <3>1. [is |-> "cl_mem"].is # "number" /\ [is |-> "bool"].is # "number"
      OBVIOUS
    <3> QED
      BY <3>1, Kinds DEF ByName
  <2> QED
    BY <1>2, <2>1, <2>2, WaysForNumbers
<1>3. CASE declared \in {Pointer, Local, Image}
  <2>1. ~three /\ declared # Sampler
    BY <1>3, Kinds
  <2>2. declared \in {Pointer, Local} => declared # Image
    BY Kinds
  <2> QED
    BY <1>3, <2>1, <2>2, WaysForMemory
<1>4. CASE declared = Sampler
  <2>1. ~three /\ declared # Image
    BY <1>4, Kinds
  <2> QED
    BY <1>4, <2>1, NoWayForSamplers
<1> QED
  BY <1>2, <1>3, <1>4, Kinds

(* WaysToSet holds of every declared parameter.                             *)
THEOREM WaysToSetHolds == MarshallingSpec => []WaysToSet
BY DeclaredInvariance, WaysOfDeclared, PTL

-----------------------------------------------------------------------------
(* Binaries for another program                                            *)

(* The sizes JS holds are the lengths, in JS, of the versions they are of,    *)
(* the binaries those of theirs: of one version both have one length.        *)
SizesKnown ==
  sizes # <<>> =>
    /\ sizes \in [Program -> [size : Int, of : Nat]]
    /\ \A d \in Program :
         /\ sizes[d].of <= version[d]
         /\ sizes[d].of = version[d] => sizes[d].size = JS_INT(built[d])

BinariesKnown ==
  binaries # <<>> =>
    \A d \in Program :
      /\ binaries[d].of <= version[d]
      /\ binaries[d].of = version[d] => binaries[d].length = built[d]
      /\ sizes # <<>> /\ sizes[d].of = binaries[d].of => sizes[d].size = JS_INT(binaries[d].length)

ListsInv == BinariesInv /\ SizesKnown /\ BinariesKnown

(* A build changes nothing of what JS holds.                               *)
LEMMA ReplaceKeepsLists ==
  ASSUME ListsInv, NEW D \in SUBSET Program, NEW binary,
         Replace(D, binary), UNCHANGED <<sizes, binaries>>
  PROVE  SizesKnown' /\ BinariesKnown'
<1>1. Program' = Program
  BY DEF Program
<1>2. \A d \in Program :
        /\ version[d] \in Nat
        /\ d \in D => version'[d] = version[d] + 1
        /\ d \notin D => version'[d] = version[d] /\ built'[d] = built[d]
  BY DEF Replace, ListsInv, BinariesInv, BuiltType
<1>3. SizesKnown'
  <2>1. sizes # <<>> =>
          /\ sizes \in [Program -> [size : Int, of : Nat]]
          /\ \A d \in Program :
               /\ sizes[d].of \in Nat /\ sizes[d].of <= version[d]
               /\ sizes[d].of = version[d] => sizes[d].size = JS_INT(built[d])
    BY DEF ListsInv, SizesKnown
  <2>2. sizes # <<>> => \A d \in Program :
               /\ sizes[d].of <= version'[d]
               /\ sizes[d].of = version'[d] => sizes[d].size = JS_INT(built[d]) /\ d \notin D
    BY <1>2, <2>1
  <2>3. sizes # <<>> => \A d \in Program :
               sizes[d].of = version'[d] => sizes[d].size = JS_INT(built'[d])
    BY <1>2, <2>2
  <2> QED
    BY <1>1, <2>1, <2>2, <2>3 DEF SizesKnown, JS_INT, Word
<1>4. BinariesKnown'
  <2>1. binaries # <<>> => \A d \in Program :
               /\ binaries[d].of \in Nat /\ binaries[d].of <= version[d]
               /\ binaries[d].of = version[d] => binaries[d].length = built[d]
               /\ sizes # <<>> /\ sizes[d].of = binaries[d].of
                    => sizes[d].size = JS_INT(binaries[d].length)
    BY DEF ListsInv, BinariesInv, Copied, BinariesKnown
  <2>2. binaries # <<>> => \A d \in Program :
               /\ binaries[d].of <= version'[d]
               /\ binaries[d].of = version'[d] => binaries[d].length = built'[d]
    BY <1>2, <2>1
  <2> QED
    BY <1>1, <2>1, <2>2 DEF BinariesKnown, JS_INT, Word
<1> QED
  BY <1>3, <1>4

LEMMA ListsStep == ListsInv /\ [MarshallingNext]_marshallingVars => ListsInv'
<1> SUFFICES ASSUME ListsInv, [MarshallingNext]_marshallingVars
             PROVE  ListsInv'
  OBVIOUS
<1> SUFFICES SizesKnown' /\ BinariesKnown'
  BY BinariesStep DEF ListsInv
<1> USE DEF ListsInv
<1>1. ASSUME NEW D \in SUBSET Program \ {{}}, BuildProgram(D) PROVE SizesKnown' /\ BinariesKnown'
  BY <1>1, ReplaceKeepsLists DEF BuildProgram
<1>2. ASSUME NEW d \in Program, FinishDevice(d) PROVE SizesKnown' /\ BinariesKnown'
  BY <1>2, ReplaceKeepsLists DEF FinishDevice
<1>3. ASSUME UNCHANGED <<built, version, sizes, binaries>> PROVE SizesKnown' /\ BinariesKnown'
  BY <1>3 DEF SizesKnown, BinariesKnown, Program, JS_INT, Word
<1>4. ASSUME GetBinarySizes PROVE SizesKnown' /\ BinariesKnown'
  <2>1. /\ sizes' = [d \in Program |-> [size |-> JS_INT(built[d]), of |-> version[d]]]
        /\ UNCHANGED <<built, version, binaries>> /\ Program' = Program
    BY <1>4 DEF GetBinarySizes, Program
  <2>2. \A d \in Program : JS_INT(built[d]) \in Int /\ version[d] \in Nat
    <3>1. \A d \in Program : built[d] \in Int /\ version[d] \in Nat
      BY DEF BinariesInv, BuiltType
    <3> QED
      BY <3>1, OfWord DEF JS_INT
  <2>3. \A d \in Program : sizes'[d].of = version[d] /\ sizes'[d].size = JS_INT(built[d])
    BY <2>1
  <2>4. sizes' \in [Program -> [size : Int, of : Nat]]
    BY <2>1, <2>2
  <2>5. \A d \in Program : JS_INT(built[d])' = JS_INT(built'[d])
    BY DEF JS_INT, Word
  <2>6. SizesKnown'
    BY <2>1, <2>2, <2>3, <2>4, <2>5 DEF SizesKnown, JS_INT, Word
  <2>7. BinariesKnown'
    BY <2>1, <2>3 DEF BinariesKnown, JS_INT, Word
  <2> QED
    BY <2>6, <2>7
<1>5. ASSUME CopyBinaries PROVE SizesKnown' /\ BinariesKnown'
  <2>1. /\ \A d \in Program : binaries'[d].of = version[d] /\ binaries'[d].length = built[d]
        /\ UNCHANGED <<built, version, sizes>> /\ Program' = Program
    BY <1>5 DEF CopyBinaries, Program
  <2>2. SizesKnown'
    BY <2>1 DEF SizesKnown, JS_INT, Word
  <2>3. BinariesKnown'
    <3>1. \A d \in Program : version[d] \in Nat
      BY DEF BinariesInv, BuiltType
    <3> QED
      BY <2>1, <3>1 DEF BinariesKnown, SizesKnown, JS_INT, Word
  <2> QED
    BY <2>2, <2>3
<1>6. ASSUME Next PROVE SizesKnown' /\ BinariesKnown'
  BY <1>1, <1>2, <1>3, <1>4, <1>5, <1>6 DEF Next, BuildProgramAsync, AllocateBinaries
<1> QED
  BY <1>3, <1>6 DEF MarshallingNext, marshallingVars, vars, Give, Declare

(* A set of natural numbers that is not empty has a least element.           *)
LEMMA LeastNatural ==
  ASSUME NEW T, T \subseteq Nat, T # {}
  PROVE  \E x \in T : \A y \in T : x <= y
<1>1. PICK x \in T : \A y \in T : <<y, x>> \notin OpToRel(<, Nat)
  BY NatLessThanWellFounded, WFMin
<1>2. ASSUME NEW y \in T PROVE x <= y
  <2>1. x \in Nat /\ y \in Nat
    OBVIOUS
  <2>2. y < x => <<y, x>> \in OpToRel(<, Nat)
    BY <2>1, Zenon DEF OpToRel
  <2>3. ~(y < x)
    BY <1>1, <2>2, Zenon
  <2> QED
    BY <2>1, <2>3
<1> QED
  BY <1>2

LEMMA KeptAreNumbers ==
  ASSUME NEW kept \in SUBSET Program
  PROVE  IsFiniteSet(kept) /\ \A j \in kept : j \in Nat /\ 1 <= j /\ j <= Devices
<1>1. Devices \in Nat
  BY DevicesAreSome
<1>2. \A j \in kept : j \in Program
  OBVIOUS
<1>3. IsFiniteSet(Program)
  BY <1>1, FS_Interval DEF Program
<1>4. IsFiniteSet(kept)
  BY <1>3, FS_Subset
<1> QED
  BY <1>1, <1>2, <1>4 DEF Program

(* The elements of kept up to i, of which the d-th has d.                    *)
UpTo(kept, i) == {j \in kept : j <= i}

LEMMA UpToFinite ==
  ASSUME NEW kept \in SUBSET Program, NEW i \in Nat
  PROVE  IsFiniteSet(UpTo(kept, i)) /\ Cardinality(UpTo(kept, i)) \in 0..i
<1>1. UpTo(kept, i) \subseteq 1..i
  BY KeptAreNumbers DEF UpTo
<1>2. IsFiniteSet(1..i) /\ Cardinality(1..i) = i
  BY FS_Interval
<1>3. UpTo(kept, i) \in SUBSET (1..i)
  BY <1>1
<1>4. /\ IsFiniteSet(UpTo(kept, i)) /\ Cardinality(UpTo(kept, i)) <= Cardinality(1..i)
  BY <1>2, <1>3, FS_Subset
<1>5. Cardinality(UpTo(kept, i)) \in Nat
  BY <1>4, FS_CardinalityType
<1> QED
  BY <1>2, <1>4, <1>5

(* As long as there are d elements there is a d-th one.                      *)
LEMMA NthExists ==
  ASSUME NEW kept \in SUBSET Program, NEW d \in 1..Cardinality(kept)
  PROVE  Nth(kept, d) \in kept /\ Cardinality(UpTo(kept, Nth(kept, d))) = d
<1> DEFINE T == {i \in Nat : Cardinality(UpTo(kept, i)) >= d}
<1>1. UpTo(kept, Devices) = kept
  BY KeptAreNumbers DEF UpTo
<1>2. Cardinality(kept) \in Nat /\ d \in Nat /\ d >= 1 /\ d <= Cardinality(kept)
  BY KeptAreNumbers, FS_CardinalityType
<1>3. Devices \in T
  BY <1>1, <1>2, DevicesAreSome
<1>4. PICK i \in T : \A y \in T : i <= y
  BY <1>3, LeastNatural
<1>5. i \in Nat /\ i # 0
  <2>1. Cardinality(UpTo(kept, 0)) \in 0..0
    BY UpToFinite
  <2>2. 0 \notin T
    BY <1>2, <2>1
  <2> QED
    BY <2>2
<1>6. i - 1 \in Nat /\ Cardinality(UpTo(kept, i - 1)) < d
  <2>1. i - 1 \in Nat /\ i - 1 \notin T
    BY <1>4, <1>5
  <2>2. Cardinality(UpTo(kept, i - 1)) \in Nat
    BY <2>1, UpToFinite
  <2> QED
    BY <1>2, <2>1, <2>2
<1>7. UpTo(kept, i) = IF i \in kept THEN UpTo(kept, i - 1) \cup {i} ELSE UpTo(kept, i - 1)
  <2>1. ASSUME NEW j \in kept PROVE j <= i <=> j <= i - 1 \/ j = i
    <3>1. j \in Nat
      BY KeptAreNumbers
    <3> QED
      BY <1>5, <3>1
  <2>2. \A j : j \in UpTo(kept, i) <=> j \in UpTo(kept, i - 1) \/ (j = i /\ i \in kept)
    BY <1>5, <2>1 DEF UpTo
  <2> QED
    BY <2>2
<1>8. Cardinality(UpTo(kept, i)) >= d
  BY <1>4
<1>9. i \in kept /\ Cardinality(UpTo(kept, i)) = d
  <2>1. IsFiniteSet(UpTo(kept, i - 1)) /\ Cardinality(UpTo(kept, i - 1)) \in Nat
    BY <1>6, UpToFinite
  <2>2. i \in kept
    BY <1>2, <1>6, <1>7, <1>8, <2>1
  <2>3. Cardinality(UpTo(kept, i)) \in {Cardinality(UpTo(kept, i - 1)), Cardinality(UpTo(kept, i - 1)) + 1}
    BY <1>7, <2>1, <2>2, FS_AddElement
  <2> QED
    BY <1>2, <1>6, <1>8, <2>1, <2>2, <2>3
<1>10. \E x \in kept : Cardinality({j \in kept : j <= x}) = d
  BY <1>9 DEF UpTo
<1> QED
  BY <1>10 DEF Nth, UpTo

(* The d-th of a set that holds the first d numbers is d.                    *)
LEMMA NthOfFirst ==
  ASSUME NEW kept \in SUBSET Program, NEW d \in Nat \ {0}, 1..d \subseteq kept
  PROVE  d <= Cardinality(kept) /\ Nth(kept, d) = d
<1>1. Cardinality(1..d) = d /\ IsFiniteSet(1..d)
  BY FS_Interval
<1>2. IsFiniteSet(kept)
  BY KeptAreNumbers
<1>3. d <= Cardinality(kept)
  BY <1>1, <1>2, FS_Subset
<1>4. Cardinality(kept) \in Nat
  BY <1>2, FS_CardinalityType
<1> DEFINE i == Nth(kept, d)
<1>5. i \in kept /\ Cardinality(UpTo(kept, i)) = d
  BY <1>3, <1>4, NthExists
<1> HIDE DEF i
<1>6. i \in Nat
  BY <1>5, KeptAreNumbers
<1>7. i >= d /\ IsFiniteSet(UpTo(kept, i))
  <2>1. Cardinality(UpTo(kept, i)) \in 0..i /\ IsFiniteSet(UpTo(kept, i))
    BY <1>6, UpToFinite
  <2> QED
    BY <1>5, <1>6, <2>1
<1>8. ASSUME i > d PROVE FALSE
  <2>1. (1..d) \cup {i} \in SUBSET UpTo(kept, i)
    BY <1>5, <1>6, <1>8 DEF UpTo
  <2>2. Cardinality((1..d) \cup {i}) = d + 1
    <3>1. i \notin 1..d
      BY <1>6, <1>8
    <3> QED
      BY <1>1, <3>1, FS_AddElement
  <2>3. d + 1 <= d
    BY <1>5, <1>7, <2>1, <2>2, FS_Subset
  <2> QED
    BY <2>3
<1>9. i = d
  BY <1>6, <1>7, <1>8
<1> QED
  BY <1>3, <1>9 DEF i

(* A length as it comes back from JS is the length, and positive, exactly if *)
(* it is one a signed word holds.                                          *)
LEMMA LengthReturns ==
  ASSUME NEW n \in Nat
  PROVE  ToInt32(JS_INT(n)) > 0 /\ ToInt32(JS_INT(n)) = n <=> 0 < n /\ 2 * n < Word
<1> DEFINE low == n % Word
           back == ToInt32(JS_INT(n))
<1>1. low \in 0..(Word - 1) /\ low % Word = low
  <2>1. low \in 0..(Word - 1)
    BY OfWord
  <2> QED
    BY <2>1, OfWord
<1>2. back = Signed(low, Word)
  BY DEF ToInt32, JS_INT
<1>3. /\ 2 * low < Word => back = low
      /\ 2 * low >= Word => back = low - Word
  BY <1>1, <1>2, SignedWord, Widths
<1>4. 2 * n < Word => low = n
  BY OfWord, Widths
<1> HIDE DEF low, back
<1>5. back > 0 /\ back = n <=> 0 < n /\ 2 * n < Word
  BY <1>1, <1>3, <1>4, Widths
<1> QED
  BY <1>5 DEF back

(* What the driver is given for n devices, of lists of one build.            *)
LEMMA PairedIfWhole ==
  ASSUME ListsInv, SameBuild, NEW n \in Program, CreateProgramWithBinary(n).is = "given"
  PROVE  Paired(CreateProgramWithBinary(n).entries)
           <=> \A d \in 1..n : 0 < binaries[d].length /\ 2 * binaries[d].length < Word
<1> DEFINE lengths == [i \in DOMAIN sizes |-> ToInt32(sizes[i].size)]
           kept == Kept(lengths)
           entries == [d \in 1..n |->
             IF d <= Cardinality(kept)
               THEN [length |-> lengths[Nth(kept, d)], binary |-> Nth(kept, d)]
               ELSE [length |-> 0, binary |-> 0]]
<1>1. /\ sizes # <<>> /\ kept # {} /\ Len(sizes) = Len(binaries)
      /\ CreateProgramWithBinary(n).entries = entries
  BY DEF CreateProgramWithBinary
<1>2. Devices \in Nat \ {0} /\ Program = 1..Devices /\ n \in 1..Devices /\ 1..n \subseteq Program
  BY DevicesAreSome DEF Program
<1>3. sizes \in [Program -> [size : Int, of : Nat]]
  BY <1>1 DEF ListsInv, SizesKnown
<1>4. binaries # <<>>
  <2>1. Len(sizes) = Devices
    BY <1>2, <1>3
  <2> QED
    BY <1>1, <1>2, <2>1
<1>5. /\ binaries \in [Program -> [of : Nat, length : Nat, room : Nat, saw : Nat]]
      /\ \A d \in Program :
           binaries[d].of = binaries[d].saw => binaries[d].length = binaries[d].room
  BY <1>4 DEF ListsInv, BinariesInv, Copied
<1>6. ASSUME NEW d \in Program
      PROVE  /\ binaries[d].length \in Nat /\ binaries[d].length <= binaries[d].room
             /\ lengths[d] = ToInt32(JS_INT(binaries[d].length))
  <2>1. sizes[d].of = binaries[d].of /\ binaries[d].of = binaries[d].saw
    BY <1>3, <1>5 DEF SameBuild
  <2>2. sizes[d].size = JS_INT(binaries[d].length)
    BY <1>1, <1>4, <2>1 DEF ListsInv, BinariesKnown
  <2> QED
    BY <1>3, <1>5, <2>1, <2>2
<1>7. DOMAIN lengths = Program /\ kept \in SUBSET Program
        /\ \A d \in Program : d \in kept <=> lengths[d] > 0
  BY <1>3 DEF Kept
<1>8. Cardinality(kept) \in Nat
  BY <1>7, KeptAreNumbers, FS_CardinalityType
<1> HIDE DEF lengths, kept, entries
<1>9. ASSUME NEW d \in Program
      PROVE  lengths[d] > 0 /\ lengths[d] = binaries[d].length
               <=> 0 < binaries[d].length /\ 2 * binaries[d].length < Word
  <2> DEFINE length == binaries[d].length
  <2>1. length \in Nat /\ lengths[d] = ToInt32(JS_INT(length))
    BY <1>6
  <2> HIDE DEF length
  <2>2. lengths[d] > 0 /\ lengths[d] = length <=> 0 < length /\ 2 * length < Word
    BY <2>1, LengthReturns, Zenon
  <2> QED
    BY <2>2 DEF length
<1> USE DEF entries
<1>10. Paired(entries) <=>
         \A d \in 1..n :
           /\ entries[d].binary = d
           /\ entries[d].length = binaries[d].length
           /\ binaries[d].length <= binaries[d].room
  BY DEF Paired
<1>11. ASSUME Paired(entries), NEW d \in 1..n
       PROVE  0 < binaries[d].length /\ 2 * binaries[d].length < Word
  <2>1. entries[d].binary = d /\ entries[d].length = binaries[d].length
    BY <1>10, <1>11
  <2>2. d \in Program /\ d \in Nat /\ d # 0
    BY <1>2
  <2>3. d <= Cardinality(kept)
    BY <1>8, <2>1, <2>2
  <2>4. Nth(kept, d) = d /\ lengths[d] = binaries[d].length
    BY <2>1, <2>3
  <2>5. d \in kept
    <3>1. d \in 1..Cardinality(kept)
      BY <1>8, <2>2, <2>3
    <3> QED
      BY <1>7, <2>4, <3>1, NthExists
  <2> QED
    BY <1>7, <1>9, <2>2, <2>4, <2>5
<1>12. ASSUME \A d \in 1..n : 0 < binaries[d].length /\ 2 * binaries[d].length < Word
       PROVE  Paired(entries)
  <2>1. \A d \in 1..n : d \in kept /\ lengths[d] = binaries[d].length
    BY <1>2, <1>7, <1>9, <1>12
  <2>2. ASSUME NEW d \in 1..n
        PROVE  /\ entries[d].binary = d
               /\ entries[d].length = binaries[d].length
               /\ binaries[d].length <= binaries[d].room
    <3>1. d \in Nat \ {0} /\ 1..d \subseteq kept
      BY <1>2, <2>1
    <3>2. d <= Cardinality(kept) /\ Nth(kept, d) = d
      BY <1>7, <3>1, NthOfFirst
    <3> QED
      BY <1>2, <1>6, <2>1, <3>2
  <2> QED
    BY <1>10, <2>2
<1>13. Paired(entries)
         <=> \A d \in 1..n : 0 < binaries[d].length /\ 2 * binaries[d].length < Word
  BY <1>11, <1>12
<1> QED
  BY <1>1, <1>13

LEMMA ListsSafe == ListsInv => BinariesArrive
BY PairedIfWhole DEF BinariesArrive

(* Throughout, sizes and binaries of one version that JS holds belong        *)
(* together.                                                               *)
THEOREM ListsInvariance == MarshallingSpec => []ListsInv
<1>1. Start => ListsInv
  BY BinariesStart DEF Start, Init, ListsInv, SizesKnown, BinariesKnown
<1> QED
  BY <1>1, ListsStep, PTL DEF MarshallingSpec

(* Binaries arrive whole and in their places exactly when all the program's  *)
(* first devices were built.                                               *)
THEOREM BinariesArriveHolds == MarshallingSpec => []BinariesArrive
BY ListsInvariance, ListsSafe, PTL
=============================================================================
