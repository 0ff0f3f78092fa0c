--------------------------- MODULE ProgramBinaries --------------------------
(***************************************************************************)
(* A program's binaries on their way through JS: getProgramInfo for         *)
(* CL_PROGRAM_BINARY_SIZES and CL_PROGRAM_BINARIES, and                    *)
(* createProgramWithBinary (src/program.cpp).                              *)
(*                                                                         *)
(* The binaries of a program change whenever a build finishes for a device, *)
(* on the driver's thread when buildProgram got a callback.  JS reads sizes *)
(* and binaries in two calls, the second of which asks the driver twice:    *)
(* for the sizes, to allocate, and for the binaries, which the driver       *)
(* copies as long as they are then.                                        *)
(***************************************************************************)
EXTENDS Conversions, FiniteSets

CONSTANTS
  Devices,    \* number of devices of the program
  Lengths,    \* lengths a binary may have
  MaxBuilds   \* bound on builds

ASSUME DevicesAreSome == Devices \in Nat \ {0}
ASSUME LengthsArePositive == Lengths \subseteq Nat \ {0}
ASSUME MaxBuildsIsNat == MaxBuilds \in Nat

VARIABLES
  built,      \* built[d]: length of the driver's binary for device d, 0 for none
  version,    \* version[d]: history, how often it was replaced
  building,   \* devices a build in flight has still to finish
  builds,     \* builds so far
  arrays,     \* inside getProgramInfo: the arrays it has allocated, or <<>>
  sizes,      \* what JS holds of the sizes: [size, of] per device, or <<>>
  binaries    \* what JS holds of the binaries: [of, length, room, saw] per device, or <<>>

vars == <<built, version, building, builds, arrays, sizes, binaries>>

Program == 1..Devices

Init ==
  /\ built = [d \in Program |-> 0]
  /\ version = [d \in Program |-> 0]
  /\ building = {}
  /\ builds = 0
  /\ arrays = <<>> /\ sizes = <<>> /\ binaries = <<>>

(* JavaScript runs: the main thread is in no handler.                       *)
InJS == arrays = <<>>

-----------------------------------------------------------------------------
(* Builds                                                                  *)

(* The driver has ended the build for d; a failed one leaves no binary.      *)
Replace(D, binary) ==
  /\ built' = [d \in Program |-> IF d \in D THEN binary[d] ELSE built[d]]
  /\ version' = [d \in Program |-> version[d] + IF d \in D THEN 1 ELSE 0]

(* buildProgram for the devices JS names, and with a callback: the driver    *)
(* refuses a second build meanwhile.                                       *)
BuildProgram(D) ==
  /\ InJS
  /\ building = {} /\ builds < MaxBuilds
  /\ builds' = builds + 1
  /\ \E binary \in [D -> Lengths \cup {0}] : Replace(D, binary)
  /\ UNCHANGED <<building, arrays, sizes, binaries>>

BuildProgramAsync(D) ==
  /\ InJS
  /\ building = {} /\ builds < MaxBuilds
  /\ builds' = builds + 1
  /\ building' = D
  /\ UNCHANGED <<built, version, arrays, sizes, binaries>>

FinishDevice(d) ==
  /\ d \in building
  /\ building' = building \ {d}
  /\ \E length \in Lengths \cup {0} : Replace({d}, [x \in {d} |-> length])
  /\ UNCHANGED <<builds, arrays, sizes, binaries>>

-----------------------------------------------------------------------------
(* getProgramInfo                                                          *)

GetBinarySizes ==
  /\ InJS
  /\ sizes' = [d \in Program |-> [size |-> JS_INT(built[d]), of |-> version[d]]]
  /\ UNCHANGED <<built, version, building, builds, arrays, binaries>>

(* Mutant: the arrays are those of the sizes JS read before.                *)
AllocateFromJS ==
  /\ InJS
  /\ Len(sizes) = Devices
  /\ arrays' = [d \in Program |-> [length |-> sizes[d].size, saw |-> version[d]]]
  /\ UNCHANGED <<built, version, building, builds, sizes, binaries>>

(* CL_PROGRAM_BINARIES: the driver's first answer and the arrays.           *)
AllocateBinaries ==
  /\ InJS
  /\ arrays' = [d \in Program |-> [length |-> built[d], saw |-> version[d]]]
  /\ UNCHANGED <<built, version, building, builds, sizes, binaries>>

(* Its second answer, and the list for JS.                                 *)
CopyBinaries ==
  /\ arrays # <<>>
  /\ binaries' = [d \in Program |->
       [of |-> version[d], length |-> built[d], room |-> arrays[d].length, saw |-> arrays[d].saw]]
  /\ arrays' = <<>>
  /\ UNCHANGED <<built, version, building, builds, sizes>>
-----------------------------------------------------------------------------
(* createProgramWithBinary                                                 *)

(* Mutant: entries of length zero stay with the lengths.                    *)
KeptOfLengths(lengths) == {i \in DOMAIN lengths : lengths[i] >= 0}

(* The entries that are kept: those of a positive length.                   *)
Kept(lengths) == {i \in DOMAIN lengths : lengths[i] > 0}

(* The d-th of them, in their order.                                       *)
Nth(kept, d) == CHOOSE i \in kept : Cardinality({j \in kept : j <= i}) = d

(* What the driver is given when JS passes the lists it holds with the first  *)
(* n devices of the program: lengths and binaries lose the entries of no    *)
(* length, devices do not; the driver looks for one of each per device.      *)
CreateProgramWithBinary(n) ==
  LET lengths == [i \in DOMAIN sizes |-> ToInt32(sizes[i].size)]
      kept == Kept(lengths)
  IN
  IF sizes = <<>> THEN [is |-> "INVALID_VALUE"]
  ELSE IF kept = {} THEN [is |-> "INVALID_PROGRAM_EXECUTABLE"]
  ELSE IF Len(sizes) # Len(binaries) THEN [is |-> "INVALID_VALUE"]
  ELSE [is |-> "given",
        entries |-> [d \in 1..n |->
          IF d <= Cardinality(kept)
            THEN [length |-> lengths[Nth(kept, d)], binary |-> Nth(kept, d)]
            ELSE [length |-> 0, binary |-> 0]]]   \* past the end

-----------------------------------------------------------------------------
Next ==
  \/ \E D \in SUBSET Program \ {{}} : BuildProgram(D) \/ BuildProgramAsync(D)
  \/ \E d \in Program : FinishDevice(d)
  \/ GetBinarySizes \/ AllocateBinaries \/ CopyBinaries

-----------------------------------------------------------------------------
(* Each device gets its own binary, whole.                                 *)
Paired(entries) ==
  \A d \in DOMAIN entries :
    /\ entries[d].binary = d
    /\ entries[d].length = binaries[d].length
    /\ binaries[d].length <= binaries[d].room

(* The lists are of the same binaries: no build ended between their reads.   *)
SameBuild ==
  \A d \in DOMAIN binaries :
    d \in DOMAIN sizes => sizes[d].of = binaries[d].of /\ binaries[d].of = binaries[d].saw

(* The lists of a program, passed as they were read with the program's first  *)
(* devices, give each of these its own whole binary exactly if all of them  *)
(* were built, to less than 2^31 bytes, and no build ended between the       *)
(* reads: a device without a binary shifts the binaries of those after it,  *)
(* and the driver looks past the end (program.cpp:61-92, 515-582).         *)
BinariesArrive ==
  SameBuild =>
    \A n \in Program :
      LET answer == CreateProgramWithBinary(n) IN
      answer.is = "given" =>
        (Paired(answer.entries)
           <=> \A d \in 1..n : 0 < binaries[d].length /\ 2 * binaries[d].length < Word)

(* The driver writes a binary past the end of its array only if a build for   *)
(* its device ended between the two questions of one getProgramInfo         *)
(* (program.cpp:560-571).                                                  *)
WritesInside ==
  \A d \in DOMAIN binaries : binaries[d].length > binaries[d].room => binaries[d].of # binaries[d].saw
=============================================================================
