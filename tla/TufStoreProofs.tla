--------------------------- MODULE TufStoreProofs ---------------------------
(***************************************************************************)
(* What is written to the regions of the TUF root stays there, the trust   *)
(* anchor is kept, and no refresh goes back to an older root: for roots    *)
(* of any number and length, and sectors and regions of any size.          *)
(***************************************************************************)
EXTENDS TufStore, FiniteSets, FiniteSetTheorems, SequenceTheorems, TLAPS

-----------------------------------------------------------------------------
(* Numbers.                                                                *)

\* A set of numbers has a least one; by counting those that are not above any.
LEMMA Least ==
    ASSUME NEW S \in SUBSET Nat, S # {}
    PROVE  \E n \in S : \A k \in S : n =< k
<1>1. PICK m \in S : TRUE
  OBVIOUS
<1> DEFINE D == {n \in 0 .. m : \A k \in S : n =< k}
           c == Cardinality(D)
<1>2. IsFiniteSet(D) /\ c \in Nat
  <2>1. D \in SUBSET (0 .. m)
    OBVIOUS
  <2>2. IsFiniteSet(0 .. m)
    BY <1>1, FS_Interval
  <2> HIDE DEF D
  <2>3. IsFiniteSet(D)
    BY <2>1, <2>2, FS_Subset, Zenon
  <2> QED
    BY <2>3, FS_CardinalityType
<1>3. \A x \in D : x + 1 =< c
  <2> SUFFICES ASSUME NEW x \in D PROVE x + 1 =< c
    OBVIOUS
  <2>1. 0 .. x \in SUBSET D
    OBVIOUS
  <2>2. Cardinality(0 .. x) = x + 1
    BY FS_Interval
  <2> HIDE DEF D
  <2>3. Cardinality(0 .. x) =< Cardinality(D)
    BY <1>2, <2>1, FS_Subset, Zenon
  <2> QED
    BY <2>2, <2>3
<1>4. D = 0 .. c - 1
  <2>1. D \in SUBSET Nat
    OBVIOUS
  <2>2. Cardinality(D) = c
    OBVIOUS
  <2> HIDE DEF c, D
  <2>3. D \in SUBSET (0 .. c - 1)
    BY <1>2, <1>3, <2>1
  <2>4. c - 1 \in Int /\ 0 \in Int
    BY <1>2
  <2>5. IsFiniteSet(0 .. c - 1)
    BY <2>4, FS_Interval, Zenon
  <2>6. Cardinality(0 .. c - 1) = c
    BY <1>2, <2>4, FS_Interval
  <2> QED
    BY <2>2, <2>3, <2>5, <2>6, FS_Subset, Zenon
<1>5. 0 \in D
  OBVIOUS
<1> HIDE DEF c
<1>6. c - 1 \in 0 .. c - 1 /\ c \notin 0 .. c - 1
  <2>1. 0 \in 0 .. c - 1
    BY <1>4, <1>5, Zenon
  <2> QED
    BY <1>2, <2>1
<1>7. c - 1 \in D /\ c \notin D
  BY <1>4, <1>6, Zenon
<1>8. c - 1 \in S
  BY <1>1, <1>2, <1>7
<1> QED
  BY <1>7, <1>8

\* What is divisible is a multiple.
LEMMA Quotient ==
    ASSUME NEW x \in Nat, NEW S \in Nat \ {0}, x % S = 0
    PROVE  \E k \in Nat : x = k * S
<1>1. x = (x \div S) * S + (x % S)
  BY SMTT(30)
<1>2. x \div S \in Nat
  BY SMT
<1>3. x = (x \div S) * S
  BY <1>1, <1>2
<1> QED
  BY <1>2, <1>3

\* Multiples keep their distance.
LEMMA Multiples ==
    ASSUME NEW p \in Nat, NEW q \in Nat, NEW S \in Nat \ {0}, p * S < q * S
    PROVE  p * S + S =< q * S
<1>1. CASE p < q
  BY <1>1, SMT
<1>2. CASE q =< p
  <2>1. q * S =< p * S
    BY <1>2, SMT
  <2> QED
    BY <2>1
<1> QED
  BY <1>1, <1>2

-----------------------------------------------------------------------------
(* Reading and writing files.                                              *)

USE LengthAssumption, SectorAssumption, RegionAssumption, BufferAssumption

\* read_local_json_file as a function of what is in flash.
ReadFrom(f, base, size) ==
    LET first == {n \in 0 .. size : n = size \/ f[base + n] = Blank}
        end == CHOOSE n \in first : \A k \in first : n =< k
    IN  [i \in 1 .. end |-> IF i = size THEN Junk ELSE f[base + i - 1]]

UpTo(f, base, size, end) ==
    [i \in 1 .. end |-> IF i = size THEN Junk ELSE f[base + i - 1]]

EndsAt(f, base, size, end) ==
    /\ ReadFrom(f, base, size) = UpTo(f, base, size, end)
    /\ end = size \/ f[base + end] = Blank
    /\ \A n \in 0 .. end - 1 : f[base + n] # Blank

\* What is read ends at the first blank cell or at the end of the buffer.
LEMMA ReadUpTo ==
    ASSUME NEW f, NEW base \in Nat, NEW size \in Nat
    PROVE  \E end \in 0 .. size : EndsAt(f, base, size, end)
<1> DEFINE first == {n \in 0 .. size : n = size \/ f[base + n] = Blank}
           end == CHOOSE n \in first : \A k \in first : n =< k
<1>1. first \in SUBSET Nat /\ size \in first
  OBVIOUS
<1>2. \E n \in first : \A k \in first : n =< k
  <2> HIDE DEF first
  <2> QED
    BY <1>1, Least
<1>3. end \in first /\ \A k \in first : end =< k
  BY <1>2, Zenon
<1>4. ReadFrom(f, base, size) = UpTo(f, base, size, end)
  BY Zenon DEF ReadFrom, UpTo
<1> HIDE DEF end
<1>5. end \in 0 .. size /\ (end = size \/ f[base + end] = Blank)
  BY <1>3
<1>6. \A n \in 0 .. end - 1 : f[base + n] # Blank
  BY <1>3, <1>5
<1> QED
  BY <1>4, <1>5, <1>6 DEF EndsAt

\* The file of a root is a sequence of pieces.
LEMMA Files ==
    ASSUME NEW v \in Roots
    PROVE  /\ Length[v] \in Nat \ {0}
           /\ File(v) \in Seq(Pieces)
           /\ Len(File(v)) = Length[v]
           /\ \A i \in 1 .. Length[v] : File(v)[i] = <<v, i>>
<1>1. Length[v] \in Nat \ {0}
  BY DEF Roots
<1>2. \A i \in 1 .. Length[v] : <<v, i>> \in Pieces
  BY <1>1 DEF Pieces
<1> HIDE DEF Pieces
<1>3. \A i \in 1 .. Length[v] : File(v)[i] = <<v, i>>
  BY DEF File
<1>4. File(v) \in [1 .. Length[v] -> Pieces]
  BY <1>2 DEF File
<1>5. File(v) \in Seq(Pieces) /\ Len(File(v)) = Length[v]
  <2> DEFINE f == File(v)
             n == Length[v]
  <2>1. f \in [1 .. n -> Pieces] /\ n \in Nat
    BY <1>1, <1>4
  <2> HIDE DEF f, n
  <2>2. f \in Seq(Pieces) /\ Len(f) = n
    BY <2>1
  <2> QED
    BY <2>2 DEF f, n
<1> QED
  BY <1>1, <1>3, <1>5

\* So is what is read.
LEMMA Contents ==
    ASSUME NEW base \in {0, Region}, NEW size \in 0 .. Region,
           flash \in [Cells -> Pieces]
    PROVE  /\ read_local_json_file(base, size) \in Seq(Pieces)
           /\ Len(read_local_json_file(base, size)) \in 0 .. size
<1> DEFINE file == read_local_json_file(base, size)
<1>1. file = ReadFrom(flash, base, size)
  BY DEF read_local_json_file, ReadFrom
<1>2. PICK end \in 0 .. size : file = UpTo(flash, base, size, end)
  <2>1. base \in Nat /\ size \in Nat
    OBVIOUS
  <2> HIDE DEF file
  <2> QED
    BY <1>1, <2>1, ReadUpTo DEF EndsAt
<1>3. \A i \in 1 .. end : base + i - 1 \in Cells
  BY DEF Cells
<1>4. Junk \in Pieces
  BY DEF Pieces
<1> HIDE DEF file
<1>5. file \in [1 .. end -> Pieces]
  BY <1>2, <1>3, <1>4 DEF UpTo
<1>6. file \in Seq(Pieces) /\ Len(file) = end
  BY <1>5
<1> QED
  BY <1>6 DEF file

-----------------------------------------------------------------------------
(* The invariants.                                                         *)

Modes == {"off", "checkin", "read", "verify", "walk", "write", "refreshed",
          "failed"}

FlagTypeOK == {root_provisioned, torn, misread} \subseteq BOOLEAN

\* A write stays within the regions of the root: it is inside of the data when
\* it erases, and sectors end where the regions do.
WriteOK ==
    /\ write.base \in {0, Region}
    /\ write.then \in {"off", "read", "verify", "walk"}
    /\ write.data \in Seq(Pieces)
    /\ write.pos \in 0 .. Len(write.data)
    /\ write.next_erase \in Nat
    /\ \E k \in Nat : write.next_erase = k * Sector
    /\ write.pos =< write.next_erase
    /\ write.base + Len(write.data) =< 2 * Region
    /\ write = [base |-> write.base, data |-> write.data, pos |-> write.pos,
                next_erase |-> write.next_erase, then |-> write.then]

DataTypeOK ==
    /\ pc \in Modes
    /\ content \in Seq(Pieces)
    /\ root \in Roots \cup {0} /\ server \in Roots

FlashTypeOK == flash \in [Cells -> Pieces]

\* What was relied on had been published.
RefreshedOK == refreshed \in Roots \cup {0} /\ refreshed =< server

\* The parts imply the type invariant.
LEMMA Types ==
    DataTypeOK /\ FlashTypeOK /\ FlagTypeOK /\ WriteOK /\ RefreshedOK => TypeOK
  BY DEF TypeOK, DataTypeOK, FlashTypeOK, FlagTypeOK, WriteOK, RefreshedOK,
         Modes

IInv ==
    /\ DataTypeOK /\ FlashTypeOK /\ FlagTypeOK /\ WriteOK /\ RefreshedOK
    /\ OtherRolesUntouched

\* The invariant holds before the first boot.
LEMMA InitInv == Init => IInv
<1> SUFFICES ASSUME Init PROVE IInv
  OBVIOUS
<1>1. Len(Length) \in Nat \ {0} /\ 1 \in Roots
  BY EmptySeq DEF Roots
<1>2. DataTypeOK /\ RefreshedOK
  BY <1>1 DEF Init, DataTypeOK, Modes, RefreshedOK
<1>3. FlashTypeOK
  BY DEF Init, FlashTypeOK, Pieces
<1>4. FlagTypeOK
  BY DEF Init, FlagTypeOK
<1>5. WriteOK
  <2>1. 0 = 0 * Sector
    OBVIOUS
  <2> QED
    BY <2>1 DEF Init, WriteOK, Idle
<1>6. OtherRolesUntouched
  BY DEF Init, OtherRolesUntouched
<1> QED
  BY <1>2, <1>3, <1>4, <1>5, <1>6 DEF IInv

\* Writes start at the beginning of a region, with data that fits.
LEMMA StartWriteOK ==
    ASSUME NEW base \in {0, Region}, NEW data \in Seq(Pieces),
           NEW then \in {"read", "verify", "walk"},
           base + Len(data) =< 2 * Region,
           StartWrite(base, data, then)
    PROVE  WriteOK' /\ pc' = "write"
<1>1. /\ write'.base = base /\ write'.data = data /\ write'.pos = 0
      /\ write'.next_erase = 0 /\ write'.then = then
  BY DEF StartWrite
<1>2. 0 = 0 * Sector
  OBVIOUS
<1>3. Len(data) \in Nat
  OBVIOUS
<1>4. write' = [base |-> write'.base, data |-> write'.data, pos |-> write'.pos,
                next_erase |-> write'.next_erase, then |-> write'.then]
  BY <1>1 DEF StartWrite
<1> QED
  BY <1>1, <1>2, <1>3, <1>4 DEF WriteOK, StartWrite

\* The end of a write.
LEMMA IdleOK == write' = Idle => WriteOK'
<1>1. 0 = 0 * Sector
  OBVIOUS
<1> QED
  BY <1>1 DEF WriteOK, Idle

\* An erase reaches no further than the regions of the root.
LEMMA EraseWithin ==
    ASSUME WriteOK, Erase
    PROVE  /\ write.next_erase = write.pos
           /\ write.base + write.next_erase + Sector =< 2 * Region
           /\ write.next_erase + Sector =< 2 * Region
<1>1. /\ write.next_erase = write.pos /\ write.pos < Len(write.data)
      /\ write.pos \in Nat /\ Len(write.data) \in Nat
      /\ write.base + Len(write.data) =< 2 * Region
      /\ write.base \in {0, Region}
  BY DEF WriteOK, Erase, EraseDue
<1>2. PICK k \in Nat : write.next_erase = k * Sector
  BY DEF WriteOK
<1>3. PICK m \in Nat : Region = m * Sector
  BY Quotient
<1>4. 2 * Region = (2 * m) * Sector /\ 2 * m \in Nat
  BY <1>3
<1>5. CASE write.base = 0
  <2>1. k * Sector < (2 * m) * Sector
    BY <1>1, <1>2, <1>4, <1>5
  <2>2. k * Sector + Sector =< (2 * m) * Sector
    BY <1>4, <2>1, Multiples
  <2>3. write.next_erase + Sector =< 2 * Region
    BY <1>2, <1>4, <2>2
  <2> QED
    BY <1>1, <1>5, <2>3
<1>6. CASE write.base = Region
  <2>1. k * Sector < m * Sector
    <3>1. write.next_erase < Region
      BY <1>1, <1>6
    <3> QED
      BY <1>2, <1>3, <3>1
  <2>2. k * Sector + Sector =< m * Sector
    BY <2>1, Multiples
  <2>3. write.next_erase + Sector =< Region
    BY <1>2, <1>3, <2>2
  <2> QED
    BY <1>1, <1>6, <2>3
<1> QED
  BY <1>1, <1>5, <1>6

\* An erase leaves types and the other roles alone.
LEMMA EraseStep ==
    ASSUME IInv, Erase
    PROVE  FlashTypeOK' /\ WriteOK' /\ OtherRolesUntouched'
<1>1. /\ write.base \in {0, Region} /\ write.base \in Nat
      /\ write.next_erase \in Nat /\ write.pos \in Nat
      /\ write.base + write.next_erase + Sector =< 2 * Region
      /\ write.next_erase = write.pos
  BY EraseWithin DEF IInv, WriteOK
<1>2. FlashTypeOK'
  BY DEF IInv, FlashTypeOK, Erase, Pieces
<1>3. OtherRolesUntouched'
  BY <1>1 DEF IInv, OtherRolesUntouched, Erase, Cells,
              AKNANO_FLASH_OFF_TUF_ROLE_TIMESTAMP
<1>4. WriteOK'
  <2>1. /\ write'.base = write.base /\ write'.data = write.data
        /\ write'.pos = write.pos /\ write'.then = write.then
        /\ write'.next_erase = write.next_erase + Sector
        /\ write' = [base |-> write'.base, data |-> write'.data,
                     pos |-> write'.pos, next_erase |-> write'.next_erase,
                     then |-> write'.then]
    BY DEF IInv, WriteOK, Erase
  <2>2. PICK q \in Nat : write.next_erase = q * Sector
    BY DEF IInv, WriteOK
  <2>3. write'.next_erase = (q + 1) * Sector /\ q + 1 \in Nat
    BY <2>1, <2>2
  <2>4. /\ write.data \in Seq(Pieces) /\ write.pos \in 0 .. Len(write.data)
        /\ write.then \in {"off", "read", "verify", "walk"}
        /\ write.base + Len(write.data) =< 2 * Region
    BY DEF IInv, WriteOK
  <2>5. write'.next_erase \in Nat /\ write'.pos =< write'.next_erase
    BY <1>1, <2>1
  <2>6. \E k \in Nat : write'.next_erase = k * Sector
    BY <2>3, Zenon
  <2> QED
    BY <1>1, <2>1, <2>4, <2>5, <2>6, Zenon DEF WriteOK
<1> QED
  BY <1>2, <1>3, <1>4

\* Neither does a page that is programmed.
LEMMA ProgramStep ==
    ASSUME IInv, Program
    PROVE  FlashTypeOK' /\ WriteOK' /\ OtherRolesUntouched'
<1>1. /\ write.base \in {0, Region} /\ write.base \in Nat
      /\ write.next_erase \in Nat /\ write.pos \in Nat
      /\ write.data \in Seq(Pieces) /\ Len(write.data) \in Nat
      /\ write.pos < Len(write.data) /\ write.pos < write.next_erase
      /\ write.base + write.pos < 2 * Region
  BY DEF IInv, WriteOK, Program, EraseDue
<1>2. write.data[write.pos + 1] \in Pieces /\ Junk \in Pieces
  <2>1. write.pos + 1 \in 1 .. Len(write.data)
    BY <1>1
  <2> QED
    BY <1>1, <2>1, ElementOfSeq DEF Pieces
<1>3. PICK p \in Pieces :
          flash' = [flash EXCEPT ![write.base + write.pos] = p]
  BY <1>2 DEF Program
<1>4. FlashTypeOK'
  BY <1>3 DEF IInv, FlashTypeOK
<1>5. OtherRolesUntouched'
  BY <1>1, <1>3 DEF IInv, FlashTypeOK, OtherRolesUntouched, Cells,
              AKNANO_FLASH_OFF_TUF_ROLE_TIMESTAMP
<1>6. WriteOK'
  <2>1. /\ write'.base = write.base /\ write'.data = write.data
        /\ write'.pos = write.pos + 1 /\ write'.then = write.then
        /\ write'.next_erase = write.next_erase
        /\ write' = [base |-> write'.base, data |-> write'.data,
                     pos |-> write'.pos, next_erase |-> write'.next_erase,
                     then |-> write'.then]
    BY DEF IInv, WriteOK, Program
  <2>2. \E k \in Nat : write'.next_erase = k * Sector
    BY <2>1 DEF IInv, WriteOK
  <2>3. /\ write.then \in {"off", "read", "verify", "walk"}
        /\ write.base + Len(write.data) =< 2 * Region
    BY DEF IInv, WriteOK
  <2>4. /\ write'.pos \in 0 .. Len(write.data)
        /\ write'.pos =< write'.next_erase
    <3>1. write'.pos = write.pos + 1
      BY <2>1
    <3>2. /\ write.pos \in Nat /\ Len(write.data) \in Nat
          /\ write.next_erase \in Nat /\ write'.next_erase = write.next_erase
          /\ write.pos < Len(write.data) /\ write.pos < write.next_erase
      BY <1>1, <2>1
    <3> QED
      BY <3>1, <3>2
  <2> QED
    BY <1>1, <2>1, <2>2, <2>3, <2>4, Zenon DEF WriteOK
<1> QED
  BY <1>4, <1>5, <1>6

\* Starting, ending and everything between two writes.
LEMMA WriteStep ==
    ASSUME IInv, [Next]_vars, ~Erase, ~Program
    PROVE  WriteOK' /\ UNCHANGED flash
<1>1. WriteOK /\ DataTypeOK /\ FlashTypeOK
  BY DEF IInv
<1>2. UNCHANGED flash
  BY DEF Next, Device, vars, Boot, SkipProvisioning, aknano_provision_tuf_root,
         ReadLocalRoot, ReadAnchor, ReadFails, Verify, StoreNewerRoot,
         RefreshSucceeds, CheckinFails, NextCheckin, WriteDone, WriteFails,
         PowerLoss, RotateRoot
<1>3. CASE aknano_provision_tuf_root
  <2>1. 1 \in Roots /\ Length[1] =< UserBuffer
    BY <1>3, EmptySeq DEF Roots, aknano_provision_tuf_root, FitsBuffer
  <2>2. 0 + Len(File(1)) =< 2 * Region
    BY <2>1, Files
  <2> QED
    BY <1>2, <1>3, <2>1, <2>2, Files, StartWriteOK
       DEF aknano_provision_tuf_root, AKNANO_FLASH_OFF_TUF_ROOT_PROVISIONING
<1>4. CASE ReadAnchor
  <2>1. /\ content' = read_local_json_file(0, Region)
        /\ StartWrite(Region, content', "verify")
    BY <1>4 DEF ReadAnchor, AKNANO_FLASH_OFF_TUF_ROOT_PROVISIONING,
                AKNANO_FLASH_OFF_TUF_ROLE_ROOT
  <2>2. content' \in Seq(Pieces) /\ Len(content') \in 0 .. Region
    BY <1>1, <2>1, Contents DEF FlashTypeOK
  <2>3. WriteOK'
    BY <2>1, <2>2, StartWriteOK
  <2> QED
    BY <1>2, <2>3
<1>5. CASE StoreNewerRoot
  <2>1. root + 1 \in Roots /\ Length[root + 1] =< Region
    BY <1>1, <1>5 DEF StoreNewerRoot, FitsBuffer, DataTypeOK, Roots
  <2>2. Region + Len(File(root + 1)) =< 2 * Region
    BY <2>1, Files
  <2> QED
    BY <1>2, <1>5, <2>1, <2>2, Files, StartWriteOK
       DEF StoreNewerRoot, AKNANO_FLASH_OFF_TUF_ROLE_ROOT
<1>6. CASE WriteDone \/ WriteFails \/ PowerLoss
  BY <1>2, <1>6, IdleOK DEF WriteDone, WriteFails, PowerLoss
<1>7. CASE UNCHANGED write
  BY <1>1, <1>2, <1>7 DEF WriteOK
<1> QED
  BY <1>3, <1>4, <1>5, <1>6, <1>7
     DEF Next, Device, vars, Boot, SkipProvisioning, ReadLocalRoot, ReadFails,
         Verify, RefreshSucceeds, CheckinFails, NextCheckin, RotateRoot

\* Every step keeps the invariant.
LEMMA Step == IInv /\ [Next]_vars => IInv'
<1> SUFFICES ASSUME IInv, [Next]_vars PROVE IInv'
  OBVIOUS
<1>1. DataTypeOK /\ FlagTypeOK /\ WriteOK /\ FlashTypeOK /\ RefreshedOK
  BY DEF IInv
<1>2. FlashTypeOK' /\ WriteOK' /\ OtherRolesUntouched'
  <2>1. CASE Erase
    BY <2>1, EraseStep
  <2>2. CASE Program
    BY <2>2, ProgramStep
  <2>3. CASE ~Erase /\ ~Program
    BY <2>3, WriteStep DEF IInv, FlashTypeOK, OtherRolesUntouched
  <2> QED
    BY <2>1, <2>2, <2>3
<1>3. FlagTypeOK'
  BY <1>1 DEF FlagTypeOK, Next, Device, vars, Boot, SkipProvisioning,
       aknano_provision_tuf_root, ReadLocalRoot, ReadAnchor, ReadFails, Verify,
       StoreNewerRoot, RefreshSucceeds, CheckinFails, NextCheckin, Erase,
       Program, WriteDone, WriteFails, PowerLoss, RotateRoot
<1>4. root' \in Roots \cup {0} /\ server' \in Roots /\ RefreshedOK'
  <2>1. CASE StoreNewerRoot
    BY <1>1, <2>1 DEF StoreNewerRoot, DataTypeOK, RefreshedOK, Roots
  <2>2. CASE Verify \/ RefreshSucceeds \/ RotateRoot
    BY <1>1, <2>2 DEF Verify, RefreshSucceeds, NoNewerRoot, RotateRoot,
                      DataTypeOK, RefreshedOK, Roots
  <2>3. CASE UNCHANGED <<server, refreshed>> /\ root' \in {root, 0}
    BY <1>1, <2>3 DEF DataTypeOK, RefreshedOK
  <2> QED
    BY <2>1, <2>2, <2>3 DEF Next, Device, vars, Boot, SkipProvisioning,
         aknano_provision_tuf_root, ReadLocalRoot, ReadAnchor, ReadFails,
         CheckinFails, NextCheckin, Erase, Program, WriteDone, WriteFails,
         PowerLoss
<1>5. pc' \in Modes
  <2>1. write.then \in Modes
    BY <1>1 DEF WriteOK, Modes
  <2> QED
    BY <1>1, <2>1 DEF DataTypeOK, Modes, Next, Device, vars, Boot, StartWrite,
         SkipProvisioning, aknano_provision_tuf_root, ReadLocalRoot, ReadAnchor,
         ReadFails, Verify, StoreNewerRoot, RefreshSucceeds, CheckinFails,
         NextCheckin, Erase, Program, WriteDone, WriteFails, PowerLoss,
         RotateRoot
<1>6. content' \in Seq(Pieces)
  <2>1. CASE ReadLocalRoot \/ ReadAnchor
    <3>1. PICK base \in {0, Region} :
              content' = read_local_json_file(base, Region)
      BY <2>1 DEF ReadLocalRoot, ReadAnchor, AKNANO_FLASH_OFF_TUF_ROLE_ROOT,
                  AKNANO_FLASH_OFF_TUF_ROOT_PROVISIONING
    <3> QED
      <4>1. Region \in 0 .. Region
        OBVIOUS
      <4> QED
        BY <1>1, <3>1, <4>1, Contents, Zenon DEF FlashTypeOK
  <2>2. CASE content' \in {content, <<>>}
    BY <1>1, <2>2, EmptySeq DEF DataTypeOK
  <2> QED
    BY <2>1, <2>2 DEF Next, Device, vars, Boot, SkipProvisioning,
         aknano_provision_tuf_root, ReadFails, Verify, StoreNewerRoot,
         RefreshSucceeds, CheckinFails, NextCheckin, Erase, Program, WriteDone,
         WriteFails, PowerLoss, RotateRoot
<1> QED
  BY <1>2, <1>3, <1>4, <1>5, <1>6 DEF IInv, DataTypeOK

\* The inductive invariant holds in every reachable state.
LEMMA Invariant == Spec => []IInv
  BY InitInv, Step, PTL DEF Spec

-----------------------------------------------------------------------------
(* The trust anchor, if it is shorter than its region.                     *)

ShortAnchor == Length[1] < Region

\* The first n cells hold the beginning of the anchor, the rest is erased.
BeginsAnchor(f, n) ==
    \A a \in 0 .. Region - 1 : f[a] = IF a < n THEN <<1, a + 1>> ELSE Blank

\* The anchor as far as it has been written.
AnchorAt(n) ==
    /\ BeginsAnchor(flash, n)
    /\ pc = "write" /\ write.base = 0 => write.pos = n /\ write.data = File(1)

AnchorInv == \E n \in 0 .. Length[1] : AnchorAt(n)

\* What is read of the anchor's region is the anchor once all of it is there.
LEMMA ReadsAnchor ==
    ASSUME ShortAnchor, NEW f, NEW n \in 0 .. Length[1], BeginsAnchor(f, n)
    PROVE  ReadFrom(f, 0, UserBuffer) = File(1) <=> n = Length[1]
<1>1. 1 \in Roots /\ Length[1] \in Nat \ {0}
  BY EmptySeq, Files DEF Roots
<1>2. n \in Nat /\ n < Region /\ n < UserBuffer /\ UserBuffer \in Nat
  BY <1>1 DEF ShortAnchor
<1>3. /\ f[n] = Blank
      /\ \A i \in 1 .. n : f[i - 1] = <<1, i>> /\ f[i - 1] # Blank
  <2>1. n \in 0 .. Region - 1 /\ ~(n < n)
    BY <1>2
  <2>2. f[n] = Blank
    BY <2>1 DEF BeginsAnchor
  <2>3. ASSUME NEW i \in 1 .. n
        PROVE  f[i - 1] = <<1, i>> /\ f[i - 1] # Blank
    <3>1. i - 1 \in 0 .. Region - 1 /\ i - 1 < n /\ (i - 1) + 1 = i
      BY <1>2
    <3>2. f[i - 1] = <<1, i>>
      BY <3>1 DEF BeginsAnchor
    <3> QED
      BY <3>2 DEF Blank
  <2> QED
    BY <2>2, <2>3
<1>4. PICK end \in 0 .. UserBuffer : EndsAt(f, 0, UserBuffer, end)
  <2>1. 0 \in Nat
    OBVIOUS
  <2> QED
    BY <1>2, <2>1, ReadUpTo, Zenon
<1>5. end = n
  <2>1. ~(n < end)
    <3>1. \A k \in 0 .. end - 1 : f[k] # Blank
      BY <1>4 DEF EndsAt
    <3> QED
      BY <1>2, <1>3, <3>1
  <2>2. ~(end < n)
    <3>1. CASE end < n
      <4>1. end + 1 \in 1 .. n /\ (end + 1) - 1 = end /\ 0 + end = end
        BY <1>2, <3>1
      <4>2. f[end] # Blank
        BY <1>3, <4>1
      <4> QED
        BY <1>2, <1>4, <3>1, <4>1, <4>2 DEF EndsAt
    <3> QED
      BY <3>1
  <2> QED
    BY <1>2, <2>1, <2>2
<1>6. ReadFrom(f, 0, UserBuffer) = [i \in 1 .. n |-> <<1, i>>]
  <2>1. \A i \in 1 .. n : i # UserBuffer /\ 0 + i - 1 = i - 1
    BY <1>2
  <2>2. UpTo(f, 0, UserBuffer, n) = [i \in 1 .. n |-> <<1, i>>]
    BY <1>3, <2>1 DEF UpTo
  <2> QED
    BY <1>4, <1>5, <2>2 DEF EndsAt
<1>7. n = Length[1] => ReadFrom(f, 0, UserBuffer) = File(1)
  BY <1>6 DEF File
<1>8. ReadFrom(f, 0, UserBuffer) = File(1) => n = Length[1]
  <2>1. ASSUME ReadFrom(f, 0, UserBuffer) = File(1)
        PROVE  1 .. n = 1 .. Length[1]
    <3>1. DOMAIN ReadFrom(f, 0, UserBuffer) = 1 .. n
      BY <1>6
    <3>2. DOMAIN File(1) = 1 .. Length[1]
      BY DEF File
    <3> QED
      BY <2>1, <3>1, <3>2
  <2>2. 1 .. n = 1 .. Length[1] => n = Length[1]
    BY <1>1, <1>2
  <2> QED
    BY <2>1, <2>2
<1> QED
  BY <1>7, <1>8

\* Nothing shortens the anchor or adds anything else to it: what is there is
\* read back, so that it is not fetched a second time.
LEMMA AnchorStep ==
    ASSUME IInv, [Next]_vars, ShortAnchor, ~misread',
           NEW n \in 0 .. Length[1], AnchorAt(n)
    PROVE  \E m \in n .. Length[1] : AnchorAt(m)'
<1>1. /\ 1 \in Roots /\ Length[1] \in Nat \ {0} /\ n \in Nat
      /\ n =< Length[1] /\ Length[1] < Region
  BY EmptySeq, Files DEF Roots, ShortAnchor
<1>2. WriteOK /\ FlashTypeOK /\ DataTypeOK
  BY DEF IInv
<1>3. CASE Erase
  <2>1. /\ write.next_erase = write.pos /\ write.base \in {0, Region}
        /\ write.pos \in Nat
        /\ pc = "write" /\ UNCHANGED pc
        /\ write'.base = write.base /\ write'.pos = write.pos
        /\ write'.data = write.data
    BY <1>2, <1>3, EraseWithin DEF WriteOK, Erase
  <2>2. write.base = 0 => write.pos = n
    BY <2>1 DEF AnchorAt
  <2>3. BeginsAnchor(flash', n)
    <3> SUFFICES ASSUME NEW a \in 0 .. Region - 1
                 PROVE  flash'[a] = flash[a]
      BY DEF AnchorAt, BeginsAnchor
    <3>1. a \in Cells
      BY DEF Cells
    <3>2. flash'[a] \in {Blank, flash[a]}
      BY <1>3, <3>1 DEF Erase
    <3>3. CASE ~(a < n)
      <4>1. flash[a] = Blank
        BY <3>3 DEF AnchorAt, BeginsAnchor
      <4> QED
        BY <3>2, <4>1
    <3>4. CASE a < write.base + write.next_erase
      BY <1>3, <2>1, <3>1, <3>4 DEF Erase
    <3>5. CASE a < n
      <4>1. a < write.base + write.next_erase
        <5>1. CASE write.base = 0
          <6>1. write.next_erase = n
            BY <2>1, <2>2, <5>1
          <6> QED
            BY <1>1, <3>5, <5>1, <6>1
        <5>2. CASE write.base = Region
          <6>1. a < Region /\ write.next_erase \in Nat
            BY <2>1
          <6> QED
            BY <5>2, <6>1
        <5> QED
          BY <2>1, <5>1, <5>2
      <4> QED
        BY <3>4, <4>1
    <3> QED
      BY <3>3, <3>5
  <2>4. n \in n .. Length[1]
    BY <1>1
  <2> QED
    BY <2>1, <2>3, <2>4 DEF AnchorAt
<1>4. CASE Program
  <2>1. /\ write.base \in {0, Region} /\ write.pos \in Nat
        /\ write.pos < Len(write.data)
        /\ pc = "write" /\ UNCHANGED pc
        /\ write'.base = write.base /\ write'.pos = write.pos + 1
        /\ write'.data = write.data
    BY <1>2, <1>4 DEF WriteOK, Program
  <2>2. CASE write.base = 0
    <3>1. write.pos = n /\ write.data = File(1) /\ n < Length[1]
      BY <1>1, <2>1, <2>2, Files DEF AnchorAt
    <3>2. flash[n] = Blank /\ n \in Cells /\ n \in 0 .. Region - 1
      <4>1. n \in Cells /\ n \in 0 .. Region - 1 /\ ~(n < n)
        BY <1>1 DEF Cells
      <4>2. flash[n] = Blank
        BY <4>1 DEF AnchorAt, BeginsAnchor
      <4> QED
        BY <4>1, <4>2
    <3>3. n + 1 \in 1 .. Length[1] /\ n + 1 \in n .. Length[1]
      BY <1>1, <3>1
    <3>4. File(1)[n + 1] = <<1, n + 1>>
      BY <1>1, <3>3, Files
    <3>5. flash' = [flash EXCEPT ![n] = <<1, n + 1>>]
      <4>1. write.base + write.pos = n
        BY <1>1, <2>2, <3>1
      <4> QED
        BY <1>4, <3>1, <3>2, <3>4, <4>1 DEF Program
    <3>6. BeginsAnchor(flash', n + 1)
      <4> SUFFICES ASSUME NEW a \in 0 .. Region - 1
                   PROVE  flash'[a] = IF a < n + 1 THEN <<1, a + 1>> ELSE Blank
        BY DEF BeginsAnchor
      <4>1. a \in Cells
        BY DEF Cells
      <4>2. flash'[a] = IF a = n THEN <<1, n + 1>> ELSE flash[a]
        BY <1>2, <3>2, <3>5, <4>1 DEF FlashTypeOK
      <4>3. flash[a] = IF a < n THEN <<1, a + 1>> ELSE Blank
        BY DEF AnchorAt, BeginsAnchor
      <4> QED
        BY <1>1, <4>2, <4>3
    <3> QED
      BY <2>1, <3>1, <3>3, <3>6 DEF AnchorAt
  <2>3. CASE write.base = Region
    <3>1. BeginsAnchor(flash', n)
      <4> SUFFICES ASSUME NEW a \in 0 .. Region - 1
                   PROVE  flash'[a] = flash[a]
        BY DEF AnchorAt, BeginsAnchor
      <4>1. a \in Cells /\ a # write.base + write.pos
        BY <2>1, <2>3 DEF Cells
      <4> QED
        BY <1>2, <1>4, <4>1 DEF FlashTypeOK, Program
    <3>2. n \in n .. Length[1] /\ Region # 0
      BY <1>1
    <3> QED
      BY <2>1, <2>3, <3>1, <3>2 DEF AnchorAt
  <2> QED
    BY <2>1, <2>2, <2>3
<1>5. CASE ~Erase /\ ~Program
  <2>1. UNCHANGED flash
    BY <1>5, WriteStep
  <2>2. BeginsAnchor(flash', n) /\ n \in n .. Length[1]
    BY <1>1, <2>1 DEF AnchorAt
  <2>3. CASE aknano_provision_tuf_root
    <3>1. ~IsJson(0)
      BY <2>3 DEF aknano_provision_tuf_root, AlreadyProvisioned,
                  AKNANO_FLASH_OFF_TUF_ROOT_PROVISIONING
    <3>2. n = 0
      <4>1. CASE n > 0
        <5>1. 0 \in 0 .. Region - 1 /\ 0 + 1 = 1
          OBVIOUS
        <5>2. flash[0] = <<1, 1>>
          BY <4>1, <5>1 DEF AnchorAt, BeginsAnchor
        <5> QED
          BY <1>1, <3>1, <5>2 DEF IsJson
      <4> QED
        BY <1>1, <4>1
    <3>3. write'.pos = 0 /\ write'.data = File(1)
      BY <2>3 DEF aknano_provision_tuf_root, StartWrite
    <3> QED
      BY <2>2, <3>2, <3>3 DEF AnchorAt
  <2>4. CASE ReadAnchor \/ StoreNewerRoot
    <3>1. write'.base = Region /\ Region # 0
      BY <2>4 DEF ReadAnchor, StoreNewerRoot, StartWrite,
                  AKNANO_FLASH_OFF_TUF_ROLE_ROOT
    <3> QED
      BY <2>2, <3>1 DEF AnchorAt
  <2>5. CASE UNCHANGED <<pc, write>>
    BY <2>2, <2>5 DEF AnchorAt
  <2>6. CASE pc' # "write"
    BY <2>2, <2>6 DEF AnchorAt
  <2>7. WriteDone => pc' # "write"
    BY <1>2 DEF WriteDone, WriteOK
  <2> QED
    BY <1>5, <2>3, <2>4, <2>5, <2>6, <2>7
       DEF Next, Device, vars, Boot, SkipProvisioning, ReadLocalRoot, ReadFails,
           Verify, RefreshSucceeds, CheckinFails, NextCheckin, WriteFails,
           PowerLoss, RotateRoot
<1> QED
  BY <1>3, <1>4, <1>5

\* misread, once set, stays.
LEMMA MisreadStays == FlagTypeOK /\ [Next]_vars /\ ~misread' => ~misread
  BY DEF Next, Device, vars, Boot, SkipProvisioning, aknano_provision_tuf_root,
         ReadLocalRoot, ReadAnchor, ReadFails, Verify, StoreNewerRoot,
         RefreshSucceeds, CheckinFails, NextCheckin, Erase, Program, WriteDone,
         WriteFails, PowerLoss, RotateRoot

\* As long as the anchor is not misread, its region holds the beginning of it.
LEMMA AnchorInvariant ==
    ASSUME ShortAnchor
    PROVE  Spec => [](IInv /\ (misread \/ AnchorInv))
<1>1. Init => AnchorInv
  <2> SUFFICES ASSUME Init PROVE AnchorInv
    OBVIOUS
  <2>1. 0 \in 0 .. Length[1]
    BY EmptySeq, Files DEF Roots
  <2>2. BeginsAnchor(flash, 0)
    BY DEF Init, BeginsAnchor, Cells, AKNANO_FLASH_OFF_TUF_ROLE_TIMESTAMP
  <2> QED
    BY <2>1, <2>2 DEF Init, AnchorInv, AnchorAt
<1>2. IInv /\ (misread \/ AnchorInv) /\ [Next]_vars
          => IInv' /\ (misread' \/ AnchorInv')
  <2> SUFFICES ASSUME IInv, misread \/ AnchorInv, [Next]_vars, ~misread'
               PROVE  AnchorInv'
    BY Step
  <2>1. AnchorInv
    BY MisreadStays DEF IInv
  <2>2. PICK n \in 0 .. Length[1] : AnchorAt(n)
    BY <2>1 DEF AnchorInv
  <2>3. PICK m \in n .. Length[1] : AnchorAt(m)'
    BY <2>2, AnchorStep
  <2>4. m \in 0 .. Length[1]
    BY <2>2, <2>3
  <2> QED
    BY <2>3, <2>4 DEF AnchorInv
<1> QED
  BY <1>1, <1>2, InitInv, PTL DEF Spec

-----------------------------------------------------------------------------
(* The local root, if no root ends where a sector does.                    *)

UnalignedRoots == \A v \in Roots, k \in Nat : Length[v] # k * Sector

Stored(f, v) ==
    /\ v \in Roots /\ Length[v] < Region
    /\ \A i \in 1 .. Length[v] : f[Region + i - 1] = <<v, i>>
    /\ f[Region + Length[v]] = Blank

\* A root that is stored is what is read, and the other way round.
LEMMA ReadsBack ==
    ASSUME UnalignedRoots, NEW f, NEW v \in Roots
    PROVE  ReadFrom(f, Region, Region) = File(v) <=> Stored(f, v)
<1>1. Length[v] \in Nat \ {0} /\ v \in Nat \ {0} /\ Length[v] # Region
  <2>1. PICK m \in Nat : Region = m * Sector
    BY Quotient
  <2> QED
    BY <2>1, Files DEF Roots, UnalignedRoots
<1>2. PICK end \in 0 .. Region : EndsAt(f, Region, Region, end)
  BY ReadUpTo
<1>3. ASSUME ReadFrom(f, Region, Region) = File(v) PROVE Stored(f, v)
  <2>1. DOMAIN File(v) = 1 .. Length[v]
    BY DEF File
  <2>2. DOMAIN ReadFrom(f, Region, Region) = 1 .. end
    BY <1>2 DEF EndsAt, UpTo
  <2>3. end = Length[v]
    BY <1>1, <1>3, <2>1, <2>2
  <2>4. f[Region + Length[v]] = Blank
    BY <1>1, <1>2, <2>3 DEF EndsAt
  <2>5. ASSUME NEW i \in 1 .. Length[v] PROVE f[Region + i - 1] = <<v, i>>
    <3>1. i # Region /\ i \in 1 .. end
      BY <1>1, <2>3
    <3>2. UpTo(f, Region, Region, end)[i] = f[Region + i - 1]
      BY <3>1 DEF UpTo
    <3>3. File(v)[i] = <<v, i>>
      BY DEF File
    <3> QED
      BY <1>2, <1>3, <3>2, <3>3 DEF EndsAt
  <2> QED
    BY <1>1, <2>3, <2>4, <2>5 DEF Stored
<1>4. ASSUME Stored(f, v) PROVE ReadFrom(f, Region, Region) = File(v)
  <2>1. /\ Length[v] < Region /\ f[Region + Length[v]] = Blank
        /\ \A i \in 1 .. Length[v] : f[Region + i - 1] = <<v, i>>
    BY <1>4 DEF Stored
  <2>2. ~(end < Length[v])
    <3>1. CASE end < Length[v]
      <4>1. end + 1 \in 1 .. Length[v] /\ Region + (end + 1) - 1 = Region + end
        BY <1>1, <3>1
      <4>2. f[Region + end] = <<v, end + 1>>
        BY <2>1, <4>1
      <4>3. f[Region + end] = Blank
        BY <1>1, <1>2, <2>1, <3>1 DEF EndsAt
      <4> QED
        BY <1>1, <4>2, <4>3 DEF Blank
    <3> QED
      BY <3>1
  <2>3. ~(Length[v] < end)
    <3>1. CASE Length[v] < end
      <4>1. Length[v] \in 0 .. end - 1
        BY <1>1, <3>1
      <4> QED
        BY <1>2, <2>1, <4>1 DEF EndsAt
    <3> QED
      BY <3>1
  <2>4. end = Length[v]
    BY <1>1, <2>2, <2>3
  <2>5. UpTo(f, Region, Region, Length[v]) = File(v)
    <3>1. \A i \in 1 .. Length[v] : i # Region
      BY <1>1, <2>1
    <3> QED
      BY <2>1, <3>1 DEF UpTo, File
  <2> QED
    BY <1>2, <2>4, <2>5 DEF EndsAt
<1> QED
  BY <1>3, <1>4

\* Behind what has been written so far of a local root, everything is blank up
\* to the next sector; a refresh goes on with what is stored.
WritingRoot ==
    /\ \A i \in 1 .. write.pos : flash[Region + i - 1] = write.data[i]
    /\ \A i \in write.pos .. write.next_erase - 1 : flash[Region + i] = Blank
    /\ \/ write.then = "walk" /\ root \in Roots /\ write.data = File(root)
       \/ write.then = "verify" /\ write.data = content

RootInv ==
    /\ pc \in {"walk", "refreshed"} => Stored(flash, root)
    /\ pc = "verify" =>
           \A v \in Roots : content = File(v) => Stored(flash, v)
    /\ pc = "write" => IF write.base = Region THEN WritingRoot
                       ELSE write.then = "read"

\* A finished write has stored what it was given.
LEMMA WriteStored ==
    ASSUME UnalignedRoots, IInv, WritingRoot, write.base = Region,
           write.pos = Len(write.data), NEW v \in Roots, write.data = File(v)
    PROVE  Stored(flash, v)
<1>1. /\ Length[v] \in Nat \ {0} /\ write.pos = Length[v]
      /\ \A i \in 1 .. Length[v] : write.data[i] = <<v, i>>
  BY Files
<1>2. PICK k \in Nat : write.next_erase = k * Sector
  BY DEF IInv, WriteOK
<1>3. PICK m \in Nat : Region = m * Sector
  BY Quotient
<1>4. write.next_erase # Length[v] /\ Region # Length[v]
  BY <1>2, <1>3 DEF UnalignedRoots
<1>5. /\ Region + Length[v] =< 2 * Region
      /\ Length[v] =< write.next_erase /\ write.next_erase \in Nat
  BY <1>1 DEF IInv, WriteOK
<1>6. Length[v] < Region /\ Length[v] \in write.pos .. write.next_erase - 1
  BY <1>1, <1>4, <1>5
<1>7. \A i \in 1 .. Length[v] : flash[Region + i - 1] = <<v, i>>
  BY <1>1 DEF WritingRoot
<1>8. flash[Region + Length[v]] = Blank
  BY <1>6 DEF WritingRoot
<1> QED
  BY <1>6, <1>7, <1>8 DEF Stored

\* A step of the write of a local root.
LEMMA WritingStep ==
    ASSUME IInv, WritingRoot, write.base = Region, Erase \/ Program
    PROVE  WritingRoot'
<1>1. /\ write.pos \in Nat /\ write.next_erase \in Nat
      /\ write.data \in Seq(Pieces) /\ Len(write.data) \in Nat
      /\ write.pos < Len(write.data) /\ write.pos =< write.next_erase
      /\ Region + Len(write.data) =< 2 * Region
      /\ FlashTypeOK
  BY DEF IInv, WriteOK, Erase, Program
<1>2. /\ write'.data = write.data /\ write'.then = write.then
      /\ UNCHANGED <<content, root>>
  BY DEF IInv, WriteOK, Erase, Program
<1>3. write.pos \in Nat /\ write.pos < Region /\ write.next_erase \in Nat
  BY <1>1
<1>4. write.pos + 1 \in Nat /\ write.pos =< write.next_erase
  BY <1>1
<1>5. (\/ write.then = "walk" /\ root \in Roots /\ write.data = File(root)
       \/ write.then = "verify" /\ write.data = content)'
  BY <1>2 DEF WritingRoot, File
<1>6. CASE Erase
  <2>1. /\ write'.pos = write.pos /\ write'.next_erase = write.pos + Sector
        /\ write.next_erase = write.pos
        /\ Region + write.pos + Sector =< 2 * Region
    BY <1>6, EraseWithin DEF IInv, WriteOK, Erase
  <2>2. ASSUME NEW i \in 1 .. write.pos
        PROVE  flash'[Region + i - 1] = write.data[i]
    <3>1. /\ Region + i - 1 \in Cells
          /\ Region + i - 1 < Region + write.pos
      BY <1>3 DEF Cells
    <3>2. flash'[Region + i - 1] = flash[Region + i - 1]
      BY <1>3, <1>6, <2>1, <3>1 DEF Erase
    <3> QED
      BY <3>2 DEF WritingRoot
  <2>3. ASSUME NEW i \in write.pos .. write.pos + Sector - 1
        PROVE  flash'[Region + i] = Blank
    <3>1. Region + write.pos + Sector =< 2 * Region
      BY <2>1
    <3>2. Region + i \in Cells
      BY <1>3, <3>1 DEF Cells
    <3>3. Region + i \in Region + write.pos .. Region + write.pos + Sector - 1
      BY <1>3
    <3> QED
      BY <1>6, <2>1, <3>2, <3>3 DEF Erase
  <2>4. write'.next_erase - 1 = write.pos + Sector - 1
    BY <1>3, <2>1
  <2>5. \A i \in 1 .. write'.pos : flash'[Region + i - 1] = write'.data[i]
    BY <1>2, <2>1, <2>2
  <2>6. \A i \in write'.pos .. write'.next_erase - 1 :
            flash'[Region + i] = Blank
    BY <2>1, <2>3, <2>4
  <2> QED
    BY <1>5, <2>5, <2>6 DEF WritingRoot
<1>7. CASE Program
  <2>1. /\ write'.pos = write.pos + 1 /\ write'.next_erase = write.next_erase
        /\ write.pos < write.next_erase
    BY <1>1, <1>7 DEF IInv, WriteOK, Program, EraseDue
  <2>2. flash[Region + write.pos] = Blank
    <3>1. write.pos \in write.pos .. write.next_erase - 1
      BY <1>3, <2>1
    <3> QED
      BY <3>1 DEF WritingRoot
  <2>3. flash' = [flash EXCEPT
                     ![Region + write.pos] = write.data[write.pos + 1]]
    BY <1>7, <2>2 DEF Program
  <2>4. ASSUME NEW i \in 1 .. write.pos + 1
        PROVE  flash'[Region + i - 1] = write.data[i]
    <3>1. Region + i - 1 \in Cells /\ Region + write.pos \in Cells
      BY <1>3 DEF Cells
    <3>2. CASE i = write.pos + 1
      <4>1. Region + i - 1 = Region + write.pos
        BY <1>3, <3>2
      <4> QED
        BY <1>1, <2>3, <3>1, <3>2, <4>1 DEF FlashTypeOK
    <3>3. CASE i \in 1 .. write.pos
      <4>1. Region + i - 1 # Region + write.pos
        BY <1>3, <3>3
      <4>2. flash'[Region + i - 1] = flash[Region + i - 1]
        BY <1>1, <2>3, <3>1, <4>1 DEF FlashTypeOK
      <4> QED
        BY <3>3, <4>2 DEF WritingRoot
    <3> QED
      BY <1>3, <3>2, <3>3
  <2>5. ASSUME NEW i \in write.pos + 1 .. write.next_erase - 1
        PROVE  flash'[Region + i] = Blank
    <3>1. i \in write.pos .. write.next_erase - 1
      BY <1>3
    <3>2. flash[Region + i] = Blank
      BY <3>1 DEF WritingRoot
    <3>3. Region + i # Region + write.pos
      BY <1>3
    <3> QED
      BY <2>3, <3>2, <3>3
  <2>6. \A i \in 1 .. write'.pos : flash'[Region + i - 1] = write'.data[i]
    BY <1>2, <2>1, <2>4
  <2>7. \A i \in write'.pos .. write'.next_erase - 1 :
            flash'[Region + i] = Blank
    BY <2>1, <2>5
  <2> QED
    BY <1>5, <2>6, <2>7 DEF WritingRoot
<1> QED
  BY <1>6, <1>7

\* As long as no write is cut short, what a refresh relies on is stored.
LEMMA RootStep ==
    ASSUME UnalignedRoots, IInv, RootInv, [Next]_vars, ~torn'
    PROVE  RootInv'
<1>1. 0 # Region /\ WriteOK /\ DataTypeOK
  BY DEF IInv
<1>2. CASE Erase \/ Program
  <2>1. /\ pc = "write" /\ pc' = "write"
        /\ write'.base = write.base /\ write'.then = write.then
    BY <1>1, <1>2 DEF Erase, Program, WriteOK
  <2>2. write.base = Region => WritingRoot'
    BY <1>2, <2>1, WritingStep DEF RootInv
  <2> QED
    BY <2>1, <2>2 DEF RootInv
<1>3. CASE WriteDone
  <2>1. /\ pc = "write" /\ pc' = write.then /\ write.pos = Len(write.data)
        /\ UNCHANGED <<flash, content, root>>
    BY <1>3 DEF WriteDone
  <2>2. CASE write.base = Region /\ write.then = "walk"
    <3>1. WritingRoot /\ root \in Roots /\ write.data = File(root)
      BY <2>1, <2>2 DEF RootInv, WritingRoot
    <3>2. Stored(flash, root)
      BY <2>1, <2>2, <3>1, WriteStored
    <3> QED
      BY <2>1, <2>2, <3>2 DEF RootInv
  <2>3. CASE write.base = Region /\ write.then = "verify"
    <3>1. WritingRoot /\ write.data = content
      BY <2>1, <2>3 DEF RootInv, WritingRoot
    <3>2. \A v \in Roots : content = File(v) => Stored(flash, v)
      BY <2>1, <2>3, <3>1, WriteStored
    <3>3. \A v \in Roots : content' = File(v) => Stored(flash', v)
      BY <2>1, <3>2
    <3> QED
      BY <2>1, <2>3, <3>3 DEF RootInv, File
  <2>4. CASE write.base # Region
    BY <2>1, <2>4 DEF RootInv
  <2>5. write.base = Region => write.then \in {"walk", "verify"}
    BY <2>1 DEF RootInv, WritingRoot
  <2> QED
    BY <2>2, <2>3, <2>4, <2>5
<1>4. CASE aknano_provision_tuf_root
  BY <1>1, <1>4 DEF aknano_provision_tuf_root, StartWrite, RootInv,
                    AKNANO_FLASH_OFF_TUF_ROOT_PROVISIONING
<1>5. CASE ReadLocalRoot
  <2>1. /\ content' = ReadFrom(flash, Region, Region)
        /\ pc' = "verify" /\ UNCHANGED flash
    BY <1>5 DEF ReadLocalRoot, read_local_json_file, ReadFrom,
                AKNANO_FLASH_OFF_TUF_ROLE_ROOT
  <2>2. \A v \in Roots : content' = File(v) => Stored(flash', v)
    BY <2>1, ReadsBack
  <2> QED
    BY <2>1, <2>2 DEF RootInv, File
<1>6. CASE ReadAnchor \/ StoreNewerRoot
  <2>1. /\ write'.base = Region /\ write'.pos = 0 /\ write'.next_erase = 0
        /\ pc' = "write"
    BY <1>6 DEF ReadAnchor, StoreNewerRoot, StartWrite,
                AKNANO_FLASH_OFF_TUF_ROLE_ROOT
  <2>2. CASE ReadAnchor
    <3>1. write'.then = "verify" /\ write'.data = content'
      BY <2>2 DEF ReadAnchor, StartWrite
    <3> QED
      BY <2>1, <3>1 DEF RootInv, WritingRoot
  <2>3. CASE StoreNewerRoot
    <3>1. /\ write'.then = "walk" /\ write'.data = File(root')
          /\ root' \in Roots
      BY <1>1, <2>3 DEF StoreNewerRoot, StartWrite, DataTypeOK, Roots
    <3> QED
      BY <2>1, <3>1 DEF RootInv, WritingRoot, File
  <2> QED
    BY <1>6, <2>2, <2>3
<1>7. CASE Verify
  <2>1. pc = "verify" /\ UNCHANGED flash
    BY <1>7 DEF Verify
  <2>2. CASE pc' = "failed"
    BY <2>2 DEF RootInv
  <2>3. CASE pc' = "walk"
    <3>1. Stored(flash, root')
      BY <1>7, <2>1, <2>3 DEF Verify, RootInv
    <3> QED
      BY <2>1, <2>3, <3>1 DEF RootInv, Stored
  <2> QED
    BY <1>7, <2>2, <2>3 DEF Verify
<1>8. CASE RefreshSucceeds
  BY <1>8 DEF RefreshSucceeds, RootInv, Stored
<1>9. CASE pc' \in {"checkin", "read", "failed", "off"}
  BY <1>9 DEF RootInv
<1>10. CASE UNCHANGED <<pc, flash, content, root, write>>
  BY <1>10 DEF RootInv, Stored, WritingRoot, File
<1> QED
  BY <1>2, <1>3, <1>4, <1>5, <1>6, <1>7, <1>8, <1>9, <1>10
     DEF Next, Device, vars, Boot, SkipProvisioning, ReadFails, CheckinFails,
         NextCheckin, WriteFails, PowerLoss, RotateRoot

\* torn, once set, stays.
LEMMA TornStays == [Next]_vars /\ ~torn' => ~torn
  BY DEF Next, Device, vars, Boot, SkipProvisioning, aknano_provision_tuf_root,
         ReadLocalRoot, ReadAnchor, ReadFails, Verify, StoreNewerRoot,
         RefreshSucceeds, CheckinFails, NextCheckin, Erase, Program, WriteDone,
         WriteFails, PowerLoss, RotateRoot

-----------------------------------------------------------------------------
(* The chain of roots, whatever is interrupted and however long roots are. *)

\* The root whose first piece is c, 0 if there is none.
RootOf(c) == IF c \in {<<v, 1>> : v \in Roots} THEN c[1] ELSE 0

\* What is programmed at the beginning of a local root is the root that is
\* trusted, or what was read of the anchor, which begins as the anchor does.
WriteOfChain ==
    \/ /\ write.base = 0 /\ write.then = "read"
       /\ write.data = File(1) /\ root = 0
    \/ /\ write.base = Region /\ write.then = "walk"
       /\ root \in Roots /\ write.data = File(root)
    \/ /\ write.base = Region /\ write.then = "verify"
       /\ root = 0 /\ write.data = content
       /\ content # <<>> => RootOf(content[1]) \in {0, 1}

AnchorIsFirst == RootOf(flash[0]) \in {0, 1}

ChainInv ==
    /\ AnchorIsFirst
    /\ pc \in {"off", "checkin", "read", "verify"} => root = 0
    /\ pc = "walk" => root \in Roots
    /\ pc = "write" => WriteOfChain
    /\ pc = "verify" => \A v \in Roots : content = File(v) => v \in {1, StoredRoot}

\* Only first pieces name a root.
LEMMA FirstPieces ==
    /\ \A v \in Roots : RootOf(<<v, 1>>) = v
    /\ \A v \in Roots, i \in Nat : i # 1 => RootOf(<<v, i>>) = 0
    /\ RootOf(Blank) = 0 /\ RootOf(Junk) = 0
    /\ \A c : RootOf(c) # 0 => RootOf(c) \in Roots /\ c = <<RootOf(c), 1>>
    /\ StoredRoot = RootOf(flash[Region])
    /\ 1 \in Roots /\ 0 \notin Roots
<1>1. 1 \in Roots /\ 0 \notin Roots /\ Roots \in SUBSET Nat
  BY EmptySeq DEF Roots
<1>2. StoredRoot = RootOf(flash[Region])
  BY DEF StoredRoot, RootOf, IsJson, AKNANO_FLASH_OFF_TUF_ROLE_ROOT
<1> HIDE DEF Roots
<1> QED
  BY <1>1, <1>2 DEF RootOf, Blank, Junk

\* What is read begins with what is in flash.
LEMMA ReadsFirst ==
    ASSUME NEW base \in {0, Region}, NEW v \in Roots,
           read_local_json_file(base, Region) # <<>>,
           RootOf(read_local_json_file(base, Region)[1]) = v
    PROVE  RootOf(flash[base]) = v
<1> DEFINE file == read_local_json_file(base, Region)
<1>1. file = ReadFrom(flash, base, Region)
  BY DEF read_local_json_file, ReadFrom
<1>2. PICK end \in 0 .. Region : EndsAt(flash, base, Region, end)
  <2>1. base \in Nat /\ Region \in Nat
    OBVIOUS
  <2> HIDE DEF file
  <2> QED
    BY <2>1, ReadUpTo, Zenon
<1>3. end # 0
  <2>1. file # <<>>
    BY Zenon
  <2> HIDE DEF file
  <2> QED
    BY <1>1, <1>2, <2>1 DEF UpTo, EndsAt
<1>4. file[1] = IF 1 = Region THEN Junk ELSE flash[base]
  <2> HIDE DEF file
  <2>1. 1 \in 1 .. end /\ base + 1 - 1 = base
    BY <1>3
  <2> QED
    BY <1>1, <1>2, <2>1 DEF UpTo, EndsAt
<1> QED
  BY <1>4, FirstPieces

\* A step drops the root that is stored, or stores the anchor or the one that is
\* trusted where there was none; only writes do.
LEMMA StoredStep ==
    ASSUME IInv, ChainInv, [Next]_vars
    PROVE  /\ AnchorIsFirst'
           /\ \/ StoredRoot' = StoredRoot
              \/ (Erase \/ Program) /\ StoredRoot' = 0
              \/ Program /\ StoredRoot = 0 /\ StoredRoot' \in {1, root} \ {0}
<1>1. /\ StoredRoot = RootOf(flash[Region]) /\ StoredRoot' = RootOf(flash'[Region])
      /\ AnchorIsFirst <=> RootOf(flash[0]) \in {0, 1}
      /\ AnchorIsFirst' <=> RootOf(flash'[0]) \in {0, 1}
      /\ AnchorIsFirst
  BY FirstPieces DEF AnchorIsFirst, ChainInv, RootOf, StoredRoot, IsJson,
                     AKNANO_FLASH_OFF_TUF_ROLE_ROOT
<1>2. 0 \in Cells /\ Region \in Cells /\ 0 # Region
  BY DEF Cells
<1>3. CASE Erase
  <2>1. \A a \in Cells : flash'[a] = flash[a] \/ flash'[a] = Blank
    BY <1>3 DEF Erase
  <2> QED
    BY <1>1, <1>2, <1>3, <2>1, FirstPieces
<1>4. CASE Program
  <2>1. pc = "write" /\ WriteOfChain /\ WriteOK /\ FlashTypeOK
    BY <1>4 DEF Program, ChainInv, IInv
  <2>2. /\ write.pos \in 0 .. Len(write.data) - 1
        /\ write.base + write.pos \in Nat
    BY <1>4, <2>1 DEF Program, WriteOK
  <2>3. \A a \in Cells : \/ flash'[a] = flash[a]
                         \/ flash'[a] = Junk
                         \/ /\ a = write.base + write.pos /\ flash[a] = Blank
                            /\ flash'[a] = write.data[write.pos + 1]
    BY <1>4, <2>1 DEF Program, FlashTypeOK
  <2> DEFINE p == RootOf(write.data[write.pos + 1])
  <2>4. CASE write.base = 0
    <3>1. write.data = File(1)
      BY <2>1, <2>4 DEF WriteOfChain
    <3>2. write.data[write.pos + 1] = <<1, write.pos + 1>>
      <4>1. 1 \in Roots
        BY FirstPieces
      <4>2. write.pos + 1 \in 1 .. Length[1]
        BY <2>2, <3>1, <4>1, Files
      <4> QED
        BY <3>1, <4>1, <4>2, Files
    <3>3. p \in {0, 1} /\ (write.pos # 0 => p = 0)
      BY <2>2, <3>2, FirstPieces
    <3>4. RootOf(flash'[0]) \in {0, 1}
      BY <1>1, <1>2, <2>3, <3>3, FirstPieces
    <3>5. flash'[Region] = flash[Region] \/ RootOf(flash'[Region]) = 0
      <4>1. Region = write.base + write.pos => write.pos # 0
        BY <1>2, <2>2, <2>4
      <4> QED
        BY <1>2, <2>3, <3>3, <4>1, FirstPieces
    <3> QED
      BY <1>1, <1>4, <3>4, <3>5
  <2>5. CASE write.base = Region
    <3>1. flash'[0] = flash[0] \/ flash'[0] = Junk
      BY <1>2, <2>2, <2>3, <2>5
    <3>2. CASE write.pos = 0
      <4>1. p \in {0, 1, root}
        <5>1. CASE write.data = File(root) /\ root \in Roots
          <6>1. 1 \in 1 .. Length[root]
            BY <5>1, Files
          <6>2. write.data[write.pos + 1] = <<root, 1>>
            BY <3>2, <5>1, <6>1, Files
          <6> QED
            BY <5>1, <6>2, FirstPieces
        <5>2. CASE write.data = content /\ (content # <<>> => RootOf(content[1]) \in {0, 1})
          <6>1. content # <<>>
            BY <2>2, <5>2, EmptySeq
          <6> QED
            BY <3>2, <5>2, <6>1
        <5> QED
          BY <1>2, <2>1, <2>5, <5>1, <5>2 DEF WriteOfChain
      <4>2. \/ flash'[Region] = flash[Region]
            \/ RootOf(flash'[Region]) = 0
            \/ flash[Region] = Blank /\ RootOf(flash'[Region]) = p
        BY <1>2, <2>3, FirstPieces
      <4> QED
        BY <1>1, <1>4, <3>1, <4>1, <4>2, FirstPieces
    <3>3. CASE write.pos # 0
      <4>1. flash'[Region] = flash[Region] \/ flash'[Region] = Junk
        BY <1>2, <2>2, <2>3, <2>5, <3>3
      <4> QED
        BY <1>1, <1>4, <3>1, <4>1, FirstPieces
    <3> QED
      BY <3>2, <3>3
  <2> QED
    BY <2>1, <2>4, <2>5 DEF WriteOK
<1>5. CASE ~Erase /\ ~Program
  BY <1>1, <1>5, WriteStep
<1> QED
  BY <1>3, <1>4, <1>5

\* What is trusted, and what is about to be stored or trusted, belongs to the
\* chain in every state.
LEMMA ChainStep ==
    ASSUME IInv, ChainInv, [Next]_vars
    PROVE  ChainInv'
<1>1. AnchorIsFirst'
  BY StoredStep
<1>2. DataTypeOK /\ WriteOK /\ 0 # Region
  BY DEF IInv
<1>3. CASE Erase \/ Program
  <2>1. /\ pc = "write" /\ pc' = "write" /\ WriteOfChain
        /\ write'.base = write.base /\ write'.data = write.data
        /\ write'.then = write.then /\ UNCHANGED <<content, root>>
    BY <1>2, <1>3 DEF Erase, Program, WriteOK, ChainInv
  <2>2. WriteOfChain'
    BY <2>1 DEF WriteOfChain, RootOf, Roots, File
  <2> QED
    BY <1>1, <2>1, <2>2 DEF ChainInv
<1>4. CASE WriteDone \/ WriteFails
  <2>1. /\ pc = "write" /\ WriteOfChain /\ UNCHANGED <<flash, content, root>>
        /\ pc' \in {write.then, "failed"}
    BY <1>4 DEF WriteDone, WriteFails, ChainInv
  <2>2. CASE pc' = "verify"
    <3>1. root = 0 /\ (content # <<>> => RootOf(content[1]) \in {0, 1})
      BY <2>1, <2>2 DEF WriteOfChain
    <3>2. \A v \in Roots : content = File(v) => v = 1
      <4> SUFFICES ASSUME NEW v \in Roots, content = File(v) PROVE v = 1
        OBVIOUS
      <4>1. content # <<>> /\ content[1] = <<v, 1>>
        BY Files, EmptySeq
      <4> QED
        BY <3>1, <4>1, FirstPieces
    <3>3. root' = 0 /\ \A v \in Roots : content' = File(v) => v = 1
      BY <2>1, <3>1, <3>2
    <3> QED
      BY <1>1, <2>2, <3>3 DEF ChainInv
  <2>3. CASE pc' # "verify"
    BY <1>1, <2>1, <2>3 DEF ChainInv, WriteOfChain
  <2> QED
    BY <2>2, <2>3
<1>5. CASE aknano_provision_tuf_root
  <2>1. /\ pc' = "write" /\ root' = 0
        /\ write'.base = 0 /\ write'.then = "read" /\ write'.data = File(1)
    BY <1>5 DEF aknano_provision_tuf_root, StartWrite, ChainInv,
                AKNANO_FLASH_OFF_TUF_ROOT_PROVISIONING
  <2> QED
    BY <1>1, <2>1 DEF ChainInv, WriteOfChain, File
<1>6. CASE ReadLocalRoot
  <2>1. /\ content' = read_local_json_file(Region, Region) /\ pc' = "verify"
        /\ UNCHANGED flash /\ root' = 0
    BY <1>6 DEF ReadLocalRoot, ChainInv, AKNANO_FLASH_OFF_TUF_ROLE_ROOT
  <2>2. ASSUME NEW v \in Roots, content' = File(v) PROVE v = StoredRoot
    <3>1. content' # <<>> /\ content'[1] = <<v, 1>>
      <4>1. Len(File(v)) # 0 /\ File(v)[1] = <<v, 1>>
        BY Files
      <4> QED
        BY <2>2, <4>1, EmptySeq
    <3>2. RootOf(content'[1]) = v
      BY <3>1, FirstPieces
    <3>3. RootOf(flash[Region]) = v
      BY <2>1, <3>1, <3>2, ReadsFirst
    <3> QED
      BY <3>3, FirstPieces
  <2>3. StoredRoot' = StoredRoot
    BY <2>1 DEF StoredRoot, IsJson, Roots, AKNANO_FLASH_OFF_TUF_ROLE_ROOT
  <2> QED
    BY <1>1, <2>1, <2>2, <2>3 DEF ChainInv, Roots, File
<1>7. CASE ReadAnchor
  <2>1. /\ content' = read_local_json_file(0, Region) /\ pc' = "write"
        /\ root' = 0 /\ write'.base = Region /\ write'.then = "verify"
        /\ write'.data = content'
    BY <1>7 DEF ReadAnchor, StartWrite, ChainInv, AKNANO_FLASH_OFF_TUF_ROLE_ROOT,
                AKNANO_FLASH_OFF_TUF_ROOT_PROVISIONING
  <2>2. content' # <<>> => RootOf(content'[1]) \in {0, 1}
    <3> SUFFICES ASSUME content' # <<>>, RootOf(content'[1]) # 0
                 PROVE  RootOf(content'[1]) = 1
      OBVIOUS
    <3>1. PICK v \in Roots : RootOf(content'[1]) = v
      BY FirstPieces
    <3>2. RootOf(flash[0]) = v
      BY <2>1, <3>1, ReadsFirst
    <3> QED
      BY <3>1, <3>2, FirstPieces DEF ChainInv, AnchorIsFirst
  <2>3. WriteOfChain'
    BY <2>1, <2>2 DEF WriteOfChain, RootOf, Roots
  <2> QED
    BY <1>1, <2>1, <2>3 DEF ChainInv
<1>8. CASE StoreNewerRoot
  <2>1. /\ pc' = "write" /\ write'.base = Region /\ write'.then = "walk"
        /\ write'.data = File(root') /\ root' \in Roots
    BY <1>2, <1>8 DEF StoreNewerRoot, StartWrite, DataTypeOK, Roots,
                      AKNANO_FLASH_OFF_TUF_ROLE_ROOT
  <2> QED
    BY <1>1, <2>1 DEF ChainInv, WriteOfChain, File, Roots
<1>9. CASE Verify
  BY <1>1, <1>9 DEF Verify, ChainInv, Roots
<1>10. CASE NextCheckin \/ PowerLoss
  BY <1>1, <1>10 DEF NextCheckin, PowerLoss, ChainInv
<1>11. CASE Boot \/ SkipProvisioning
  BY <1>1, <1>11 DEF Boot, SkipProvisioning, ChainInv
<1>12. CASE ReadFails \/ RefreshSucceeds \/ CheckinFails
  BY <1>1, <1>12 DEF ReadFails, RefreshSucceeds, CheckinFails, ChainInv
<1>13. CASE UNCHANGED <<pc, flash, content, root, write>>
  BY <1>1, <1>13 DEF ChainInv, WriteOfChain, RootOf, Roots, File, StoredRoot,
                     IsJson, AKNANO_FLASH_OFF_TUF_ROLE_ROOT
<1> QED
  BY <1>3, <1>4, <1>5, <1>6, <1>7, <1>8, <1>9, <1>10, <1>11, <1>12, <1>13
     DEF Next, Device, vars, RotateRoot

LEMMA ChainInvariant == Spec => [](IInv /\ ChainInv)
<1>1. ASSUME Init PROVE ChainInv
  <2>1. flash[0] = Blank /\ flash[Region] = Blank /\ pc = "off" /\ root = 0
    BY <1>1 DEF Init, Cells, AKNANO_FLASH_OFF_TUF_ROLE_TIMESTAMP
  <2> QED
    BY <2>1, FirstPieces DEF ChainInv, AnchorIsFirst
<1>2. IInv /\ ChainInv /\ [Next]_vars => ChainInv'
  BY ChainStep
<1> QED
  BY <1>1, <1>2, Invariant, PTL DEF Spec

\* Every step is one of the chain, or shows nothing of it.
LEMMA ChainOfRoots ==
    ASSUME IInv, ChainInv, [Next]_vars
    PROVE  [Chain!Next]_(Chain!vars)
<1>1. \/ StoredRoot' = StoredRoot
      \/ (Erase \/ Program) /\ StoredRoot' = 0
      \/ Program /\ StoredRoot = 0 /\ StoredRoot' \in {1, root} \ {0}
  BY StoredStep
<1>2. ~Erase /\ ~Program => StoredRoot' = StoredRoot
  BY <1>1
<1>3. CASE Erase \/ Program
  <2>1. UNCHANGED <<root, refreshed, server>>
    BY <1>3 DEF Erase, Program
  <2> QED
    BY <1>1, <2>1 DEF Chain!Next, Chain!Drop, Chain!Store, Chain!vars
<1>4. CASE Verify
  <2>1. \/ root' \in {1, StoredRoot} \ {0}
        \/ UNCHANGED root
    BY <1>4, FirstPieces DEF Verify, ChainInv
  <2>2. root = 0 /\ UNCHANGED <<refreshed, server>> /\ ~Erase /\ ~Program
    BY <1>4 DEF Verify, ChainInv, Erase, Program
  <2> QED
    BY <1>2, <2>1, <2>2 DEF Chain!Next, Chain!Begin, Chain!vars
<1>5. CASE StoreNewerRoot
  <2>1. /\ root # 0 /\ root < server /\ root' = root + 1
        /\ UNCHANGED <<refreshed, server>> /\ ~Erase /\ ~Program
    BY <1>5, FirstPieces DEF StoreNewerRoot, ChainInv, Erase, Program
  <2> QED
    BY <1>2, <2>1 DEF Chain!Next, Chain!Extend
<1>6. CASE RefreshSucceeds
  <2>1. /\ root = server /\ refreshed' = root
        /\ UNCHANGED <<root, server>> /\ ~Erase /\ ~Program
    BY <1>6 DEF RefreshSucceeds, NoNewerRoot, Erase, Program
  <2> QED
    BY <1>2, <2>1 DEF Chain!Next, Chain!Complete
<1>7. CASE NextCheckin
  <2>1. root' = 0 /\ UNCHANGED <<refreshed, server>> /\ ~Erase /\ ~Program
    BY <1>7 DEF NextCheckin, Erase, Program
  <2> QED
    BY <1>2, <2>1 DEF Chain!Next, Chain!End
<1>8. CASE PowerLoss
  <2>1. root' = 0 /\ UNCHANGED <<refreshed, server, flash>>
    BY <1>8 DEF PowerLoss
  <2>2. StoredRoot' = StoredRoot
    BY <2>1 DEF StoredRoot, IsJson, Roots, AKNANO_FLASH_OFF_TUF_ROLE_ROOT
  <2> QED
    BY <2>1, <2>2 DEF Chain!Next, Chain!End
<1>9. CASE RotateRoot
  <2>1. /\ server + 1 \in Roots /\ server' = server + 1
        /\ UNCHANGED <<refreshed, root, flash>>
    BY <1>9 DEF RotateRoot
  <2>2. StoredRoot' = StoredRoot
    BY <2>1 DEF StoredRoot, IsJson, Roots, AKNANO_FLASH_OFF_TUF_ROLE_ROOT
  <2> QED
    BY <2>1, <2>2 DEF Chain!Next, Chain!Rotate
<1>10. CASE UNCHANGED <<flash, root, refreshed, server>>
  BY <1>10 DEF Chain!vars, StoredRoot, IsJson, Roots,
               AKNANO_FLASH_OFF_TUF_ROLE_ROOT
<1> QED
  BY <1>3, <1>4, <1>5, <1>6, <1>7, <1>8, <1>9, <1>10
     DEF Next, Device, vars, Boot, SkipProvisioning, aknano_provision_tuf_root,
         ReadLocalRoot, ReadAnchor, ReadFails, CheckinFails, WriteDone,
         WriteFails

-----------------------------------------------------------------------------
(* The end of a check-in.                                                  *)

LEMMA Fewer ==
    ASSUME NEW p \in Nat, NEW q \in Nat, p < q, NEW S \in Nat
    PROVE  p * S + S =< q * S /\ p * S \in Nat /\ q * S \in Nat
<1>1. p * S \in Nat /\ q * S \in Nat
  BY SMT
<1>2. (p + 1) * S =< q * S
  BY SMTT(30)
<1>3. (p + 1) * S = p * S + S
  BY SMTT(30)
<1> QED
  BY <1>1, <1>2, <1>3

\* A write takes a step for each cell, and one for each sector.
LEMMA WriteLeftOK == WriteOK => WriteLeft \in 0 .. 4 * Region + 1
<1> SUFFICES ASSUME WriteOK PROVE WriteLeft \in 0 .. 4 * Region + 1
  OBVIOUS
<1>1. /\ write.pos \in Nat /\ Len(write.data) \in Nat
      /\ write.pos =< Len(write.data) /\ Len(write.data) =< 2 * Region
  BY DEF WriteOK
<1>2. (IF EraseDue THEN 1 ELSE 0) \in {0, 1}
  OBVIOUS
<1> QED
  BY <1>1, <1>2 DEF WriteLeft

LEMMA WriteNearer == IInv /\ (Erase \/ Program) => WriteLeft' < WriteLeft
<1> SUFFICES ASSUME IInv, Erase \/ Program PROVE WriteLeft' < WriteLeft
  OBVIOUS
<1>1. /\ write.pos \in Nat /\ Len(write.data) \in Nat /\ write.next_erase \in Nat
      /\ write'.data = write.data
  BY DEF IInv, WriteOK, Erase, Program
<1>2. CASE Erase
  <2>1. /\ write'.pos = write.pos /\ write'.next_erase = write.next_erase + Sector
        /\ write.next_erase = write.pos
    BY <1>2, EraseWithin DEF IInv, WriteOK, Erase
  <2>2. EraseDue /\ ~EraseDue'
    BY <1>1, <2>1 DEF EraseDue
  <2> QED
    BY <1>1, <2>1, <2>2 DEF WriteLeft
<1>3. CASE Program
  <2>1. write'.pos = write.pos + 1 /\ ~EraseDue
    BY <1>3 DEF Program, IInv, WriteOK
  <2> DEFINE n == Len(write.data) - write.pos
  <2>2. n \in Int /\ Len(write'.data) - write'.pos = n - 1
    BY <1>1, <2>1
  <2>3. WriteLeft' \in {2 * (n - 1), 2 * (n - 1) + 1}
    <3> HIDE DEF n
    <3> QED
      BY <2>2 DEF WriteLeft
  <2>4. WriteLeft = 2 * n
    BY <2>1, <2>2 DEF WriteLeft
  <2> HIDE DEF n
  <2> QED
    BY <2>2, <2>3, <2>4
<1> QED
  BY <1>2, <1>3

Over == {"off", "refreshed", "failed"}

\* The steps there are left without those for the roots still to be walked.
PhaseLeft == CASE pc = "checkin"       -> 2 * LongestWrite + 4
               [] WritingFor = "read"  -> LongestWrite + WriteLeft + 4
               [] pc = "read"          -> LongestWrite + 3
               [] WritingFor = "verify" -> WriteLeft + 3
               [] pc = "verify"        -> 2
               [] WritingFor = "walk"  -> WriteLeft + 2
               [] pc = "walk"          -> 1
               [] OTHER                -> 0

PhaseTable ==
    /\ pc = "checkin" => PhaseLeft = 2 * LongestWrite + 4
    /\ pc = "write" /\ write.then = "read" => PhaseLeft = LongestWrite + WriteLeft + 4
    /\ pc = "read" => PhaseLeft = LongestWrite + 3
    /\ pc = "write" /\ write.then = "verify" => PhaseLeft = WriteLeft + 3
    /\ pc = "verify" => PhaseLeft = 2
    /\ pc = "write" /\ write.then = "walk" => PhaseLeft = WriteLeft + 2
    /\ pc = "walk" => PhaseLeft = 1
    /\ pc \in Over => PhaseLeft = 0

LEMMA Table == PhaseTable
<1>1. pc = "write" => WritingFor = write.then
  BY DEF WritingFor
<1>2. pc # "write" => WritingFor = "nothing"
  BY DEF WritingFor
<1>3. CASE pc = "write"
  BY <1>1, <1>3 DEF PhaseTable, PhaseLeft, Over
<1>4. CASE pc # "write"
  BY <1>2, <1>4 DEF PhaseTable, PhaseLeft, Over
<1> QED
  BY <1>3, <1>4

\* A step belongs to a later phase, or is one of a write, or trusts another root,
\* which leaves a write and a little more.
LEMMA PhaseNearer ==
    ASSUME IInv, ChainInv, Device, pc \notin Over,
           NEW p \in Int, NEW q \in Int, NEW longest \in Int,
           p = PhaseLeft, q = PhaseLeft', longest = LongestWrite
    PROVE  /\ p \in Nat /\ q \in Nat
           /\ \/ root' = root /\ q < p
              \/ root' \in Roots /\ root < root' /\ q < p + longest
<1> DEFINE Goal == /\ p \in Nat /\ q \in Nat
                   /\ \/ root' = root /\ q < p
                      \/ root' \in Roots /\ root < root' /\ q < p + longest
<1>1. WriteOK /\ WriteOK' /\ DataTypeOK
  <2>1. IInv'
    BY Step DEF Next
  <2> QED
    BY <2>1 DEF IInv
<1>2. PICK left \in Nat, next \in Nat :
          /\ left = WriteLeft /\ left + 3 =< longest
          /\ next = WriteLeft' /\ next + 3 =< longest
  <2>1. WriteOK' => (WriteLeft \in 0 .. 4 * Region + 1)'
    BY WriteLeftOK, PTL
  <2>2. PICK n \in 0 .. 4 * Region + 1, m \in 0 .. 4 * Region + 1 :
            n = WriteLeft /\ m = WriteLeft'
    BY <1>1, <2>1, WriteLeftOK
  <2>3. /\ n \in Nat /\ n + 3 =< longest
        /\ m \in Nat /\ m + 3 =< longest
    BY DEF LongestWrite
  <2> QED
    BY <2>2, <2>3, Zenon
<1>3. /\ pc = "checkin" => p = 2 * longest + 4
      /\ pc = "write" /\ write.then = "read" => p = longest + left + 4
      /\ pc = "read" => p = longest + 3
      /\ pc = "write" /\ write.then = "verify" => p = left + 3
      /\ pc = "verify" => p = 2
      /\ pc = "write" /\ write.then = "walk" => p = left + 2
      /\ pc = "walk" => p = 1
  BY <1>2, Table DEF PhaseTable
<1>4. /\ pc' = "write" /\ write'.then = "read" => q = longest + next + 4
      /\ pc' = "read" => q = longest + 3
      /\ pc' = "write" /\ write'.then = "verify" => q = next + 3
      /\ pc' = "verify" => q = 2
      /\ pc' = "write" /\ write'.then = "walk" => q = next + 2
      /\ pc' = "walk" => q = 1
      /\ pc' \in Over => q = 0
  <2>1. PhaseTable'
    BY Table, PTL
  <2> QED
    BY <1>2, <2>1 DEF PhaseTable
<1> HIDE LengthAssumption, SectorAssumption, RegionAssumption, BufferAssumption
<1>5. CASE Erase \/ Program
  <2>1. /\ pc = "write" /\ pc' = "write" /\ UNCHANGED root
        /\ write'.then = write.then /\ write.then \in {"read", "verify", "walk"}
    BY <1>1, <1>5 DEF Erase, Program, WriteOK, ChainInv, WriteOfChain
  <2>2. next < left
    BY <1>2, <1>5, WriteNearer
  <2>3. \/ p = longest + left + 4 /\ q = longest + next + 4
        \/ p = left + 3 /\ q = next + 3
        \/ p = left + 2 /\ q = next + 2
    BY <1>3, <1>4, <2>1
  <2>4. longest \in Nat
    BY <1>2
  <2>5. q < p /\ p \in Nat /\ q \in Nat
    BY <2>2, <2>3, <2>4
  <2> QED
    BY <2>1, <2>5
<1>6. CASE WriteDone \/ WriteFails
  <2>1. /\ pc = "write" /\ UNCHANGED root
        /\ write.then \in {"read", "verify", "walk"}
        /\ pc' = write.then \/ pc' = "failed"
    BY <1>6 DEF WriteDone, WriteFails, ChainInv, WriteOfChain
  <2> QED
    BY <1>2, <1>3, <1>4, <2>1 DEF Over
<1>7. CASE aknano_provision_tuf_root \/ ReadAnchor
  <2>1. /\ \/ pc = "checkin" /\ write'.then = "read"
           \/ pc = "read" /\ write'.then = "verify"
        /\ pc' = "write" /\ UNCHANGED root
    BY <1>7 DEF aknano_provision_tuf_root, ReadAnchor, StartWrite
  <2>2. \/ p = 2 * longest + 4 /\ q = longest + next + 4
        \/ p = longest + 3 /\ q = next + 3
    BY <1>3, <1>4, <2>1
  <2>3. next + 3 =< longest
    BY <1>2
  <2>4. q < p /\ p \in Nat /\ q \in Nat
    BY <2>2, <2>3
  <2> QED
    BY <2>1, <2>4
<1>8. CASE StoreNewerRoot
  <2>1. /\ pc = "walk" /\ pc' = "write" /\ write'.then = "walk"
        /\ root' \in Roots
    BY <1>1, <1>8 DEF StoreNewerRoot, StartWrite, DataTypeOK, Roots
  <2>2. root < root'
    BY <1>1, <1>8 DEF StoreNewerRoot, DataTypeOK, Roots
  <2>3. p = 1 /\ q = next + 2
    BY <1>3, <1>4, <2>1
  <2>4. next + 3 =< longest
    BY <1>2
  <2>5. q < p + longest /\ p \in Nat /\ q \in Nat
    BY <2>3, <2>4
  <2> QED
    BY <2>1, <2>2, <2>5
<1>9. CASE Verify
  <2>1. /\ pc = "verify" /\ root = 0
        /\ \/ pc' = "walk" /\ root' \in Roots
           \/ pc' = "failed" /\ root' = root
    BY <1>9 DEF Verify, ChainInv
  <2>2. root' \in Roots => root < root'
    BY <2>1 DEF Roots
  <2>3. q < p /\ p \in Nat /\ q \in Nat
    BY <1>3, <1>4, <2>1 DEF Over
  <2>4. q < p + longest
    BY <1>2, <2>3
  <2> QED
    BY <2>1, <2>2, <2>3, <2>4
<1>10. CASE SkipProvisioning \/ ReadLocalRoot
  BY <1>2, <1>3, <1>4, <1>10 DEF SkipProvisioning, ReadLocalRoot
<1>11. CASE ReadFails \/ CheckinFails
  BY <1>2, <1>3, <1>4, <1>11 DEF ReadFails, CheckinFails, Over
<1>12. CASE RefreshSucceeds
  BY <1>3, <1>4, <1>12 DEF RefreshSucceeds, Over
<1>13. ~Boot /\ ~NextCheckin
  BY DEF Boot, NextCheckin, Over
<1> QED
  BY <1>5, <1>6, <1>7, <1>8, <1>9, <1>10, <1>11, <1>12, <1>13 DEF Device

LEMMA PhaseType == IInv /\ ChainInv => PhaseLeft \in Int
<1> SUFFICES ASSUME IInv, ChainInv PROVE PhaseLeft \in Int
  OBVIOUS
<1>1. PICK left \in Nat, longest \in Nat : left = WriteLeft /\ longest = LongestWrite
  <2>1. WriteLeft \in Nat /\ LongestWrite \in Nat
    BY WriteLeftOK DEF IInv, LongestWrite
  <2> QED
    BY <2>1, Zenon
<1>2. PhaseLeft \in {2 * longest + 4, longest + left + 4, longest + 3, left + 3, 2,
                     left + 2, 1, 0}
  BY <1>1 DEF PhaseLeft
<1> QED
  BY <1>2

\* The walk over the roots comes before everything else.
LEMMA Nearer ==
    ASSUME IInv, ChainInv, Device, pc \notin Over
    PROVE  StepsLeft \in Nat /\ StepsLeft' \in Nat /\ StepsLeft' < StepsLeft
<1>1. IInv'
  BY Step DEF Next
<1>2. PICK n \in Nat, longest \in Nat, r \in Nat, t \in Nat :
          /\ n = Len(Length) /\ longest = LongestWrite /\ r = root /\ t = root'
          /\ r =< n /\ t =< n
  BY <1>1 DEF IInv, DataTypeOK, Roots, LongestWrite
<1>3. PhaseLeft \in Int /\ PhaseLeft' \in Int
  <2>1. ChainInv'
    BY ChainStep DEF Next
  <2>2. IInv' /\ ChainInv' => (PhaseLeft \in Int)'
    BY PhaseType, PTL
  <2> QED
    BY <1>1, <2>1, <2>2, PhaseType
<1>4. PICK p \in Int, q \in Int : p = PhaseLeft /\ q = PhaseLeft'
  BY <1>3
<1>5. /\ p \in Nat /\ q \in Nat
      /\ \/ t = r /\ q < p
         \/ r < t /\ q < p + longest
  <2>1. /\ p \in Nat /\ q \in Nat
        /\ \/ root' = root /\ q < p
           \/ root' \in Roots /\ root < root' /\ q < p + longest
    BY <1>2, <1>4, PhaseNearer
  <2> QED
    BY <1>2, <2>1
<1>6. StepsLeft = (n - r) * longest + p /\ StepsLeft' = (n - t) * longest + q
  BY <1>2, <1>4 DEF StepsLeft, PhaseLeft, LongestWrite, WritingFor
<1> HIDE LengthAssumption, SectorAssumption, RegionAssumption, BufferAssumption
<1>7. PICK a \in Nat, b \in Nat :
          /\ a = (n - r) * longest /\ b = (n - t) * longest
          /\ t = r => a = b
          /\ r < t => b + longest =< a
  <2>1. n - r \in Nat /\ n - t \in Nat /\ (r < t => n - t < n - r)
    BY <1>2
  <2>2. (n - r) * longest \in Nat /\ (n - t) * longest \in Nat
    BY <2>1, SMT
  <2>3. r < t => (n - t) * longest + longest =< (n - r) * longest
    BY <1>2, <2>1, Fewer
  <2> QED
    BY <2>2, <2>3
<1>8. StepsLeft = a + p /\ StepsLeft' = b + q
  BY <1>6, <1>7
<1>9. a + p \in Nat /\ b + q \in Nat /\ b + q < a + p
  <2>1. \/ a = b /\ q < p
        \/ b + longest =< a /\ q < p + longest
    BY <1>5, <1>7
  <2>2. p \in Nat /\ q \in Nat
    BY <1>5
  <2> QED
    BY <2>1, <2>2
<1> QED
  BY <1>8, <1>9

\* No more than that for all the roots and for two writes of the anchor.
LEMMA StepsBounded ==
    ASSUME IInv, ChainInv
    PROVE  StepsLeft \in 0 .. Len(Length) * LongestWrite + 2 * LongestWrite + 4
<1>1. PICK n \in Nat, longest \in Nat, left \in Nat, r \in Nat :
          /\ n = Len(Length) /\ longest = LongestWrite
          /\ left = WriteLeft /\ r = root /\ r =< n
          /\ left + 3 =< longest
  <2>1. PICK m \in 0 .. 4 * Region + 1 : m = WriteLeft
    BY WriteLeftOK DEF IInv
  <2>2. m \in Nat /\ m + 3 =< LongestWrite /\ LongestWrite \in Nat
    BY DEF LongestWrite
  <2>3. Len(Length) \in Nat /\ root \in Nat /\ root =< Len(Length)
    BY DEF IInv, DataTypeOK, Roots
  <2> QED
    BY <2>1, <2>2, <2>3, Zenon
<1>2. PhaseLeft \in {2 * longest + 4, longest + left + 4, longest + 3, left + 3, 2,
                     left + 2, 1, 0}
  BY <1>1 DEF PhaseLeft
<1>3. StepsLeft = (n - r) * longest + PhaseLeft
  BY <1>1 DEF StepsLeft, PhaseLeft, LongestWrite, WritingFor
<1> HIDE LengthAssumption, SectorAssumption, RegionAssumption, BufferAssumption
<1>4. (n - r) * longest \in Nat /\ n * longest \in Nat /\ (n - r) * longest =< n * longest
  <2>1. n - r \in Nat /\ n - r =< n
    BY <1>1
  <2>2. n - r = n => (n - r) * longest \in Nat
    BY SMT
  <2>3. CASE n - r = n
    BY <2>2, <2>3
  <2>4. CASE n - r < n
    BY <2>1, <2>4, Fewer
  <2> QED
    BY <2>1, <2>3, <2>4
<1>5. PhaseLeft \in 0 .. 2 * longest + 4
  BY <1>1, <1>2
<1> DEFINE a == (n - r) * longest
           b == n * longest
<1>6. a \in Nat /\ b \in Nat /\ a =< b /\ StepsLeft = a + PhaseLeft
  BY <1>3, <1>4
<1> HIDE DEF a, b
<1>7. StepsLeft \in 0 .. b + 2 * longest + 4
  BY <1>5, <1>6
<1>8. b = Len(Length) * LongestWrite /\ longest = LongestWrite
  BY <1>1 DEF b
<1> QED
  BY <1>7, <1>8

-----------------------------------------------------------------------------
(* The theorems.                                                           *)

\* Every variable keeps its type; in particular a write never goes on past its
\* data and every file read back is one.
THEOREM TypeCorrect == Spec => []TypeOK
  BY Invariant, Types, PTL DEF IInv

\* No root, whatever its length, and no interrupted write overwrites another
\* role's metadata.
THEOREM OthersUntouched == Spec => []OtherRolesUntouched
  BY Invariant, PTL DEF IInv

\* A refresh never succeeds with an older root than an earlier one did.
THEOREM NeverOlder == Spec => RootNeverOlder
<1>1. ASSUME IInv, [Next]_vars PROVE refreshed' >= refreshed
  <2>1. refreshed \in Nat /\ refreshed =< server
    BY <1>1 DEF IInv, RefreshedOK, Roots
  <2>2. CASE RefreshSucceeds
    BY <2>1, <2>2 DEF RefreshSucceeds, NoNewerRoot
  <2>3. CASE UNCHANGED refreshed
    BY <2>1, <2>3
  <2> QED
    BY <1>1, <2>2, <2>3 DEF Next, Device, vars, Boot, SkipProvisioning,
         aknano_provision_tuf_root, ReadLocalRoot, ReadAnchor, ReadFails,
         Verify, StoreNewerRoot, CheckinFails, NextCheckin, Erase, Program,
         WriteDone, WriteFails, PowerLoss, RotateRoot
<1>2. IInv /\ [Next]_vars => [refreshed' >= refreshed]_vars
  BY <1>1
<1> QED
  BY <1>2, Invariant, PTL DEF Spec, RootNeverOlder

\* A trust anchor that is shorter than its region is never written again once it
\* is complete, unless it could not be read when the device looked for it.
THEOREM AnchorStays ==
    ASSUME ShortAnchor
    PROVE  Spec => AnchorKept
<1> DEFINE Kept == Anchor = File(1) /\ ~misread' => Anchor' = File(1)
<1>1. ASSUME IInv, misread \/ AnchorInv, [Next]_vars PROVE Kept
  <2> SUFFICES ASSUME Anchor = File(1), ~misread' PROVE Anchor' = File(1)
    OBVIOUS
  <2>1. PICK n \in 0 .. Length[1] : AnchorAt(n)
    BY <1>1, MisreadStays DEF IInv, AnchorInv
  <2>2. PICK m \in n .. Length[1] : AnchorAt(m)'
    BY <1>1, <2>1, AnchorStep
  <2>3. /\ Anchor = ReadFrom(flash, 0, UserBuffer)
        /\ Anchor' = ReadFrom(flash', 0, UserBuffer)
    BY DEF Anchor, ReadFrom, read_local_json_file,
           AKNANO_FLASH_OFF_TUF_ROOT_PROVISIONING
  <2>4. n = Length[1]
    BY <2>1, <2>3, ReadsAnchor DEF AnchorAt
  <2>5. Length[1] \in Nat
    BY EmptySeq, Files DEF Roots
  <2>6. m = Length[1] /\ m \in 0 .. Length[1]
    BY <2>2, <2>4, <2>5
  <2>7. BeginsAnchor(flash', m)
    BY <2>2 DEF AnchorAt
  <2> QED
    BY <2>3, <2>6, <2>7, ReadsAnchor
<1>2. IInv /\ (misread \/ AnchorInv) /\ [Next]_vars => [Kept]_vars
  BY <1>1
<1> QED
  BY <1>2, AnchorInvariant, PTL DEF Spec, AnchorKept

\* As long as no write is cut short, the root that a successful refresh relied
\* on is what the next one reads, if no root ends where a sector does.  (Nothing is
\* erased behind one that does, and what is left of a longer root is read on.)
THEOREM StoredIsRefreshed ==
    ASSUME UnalignedRoots
    PROVE  Spec => []StoredRootIsRefreshedRoot
<1>1. Init => RootInv
  BY DEF Init, RootInv
<1>2. IInv /\ (torn \/ RootInv) /\ [Next]_vars => IInv' /\ (torn' \/ RootInv')
  BY Step, RootStep, TornStays
<1>3. IInv /\ (torn \/ RootInv) => StoredRootIsRefreshedRoot
  <2> SUFFICES ASSUME RootInv, pc = "refreshed"
               PROVE  LocalRoot = File(root)
    BY DEF StoredRootIsRefreshedRoot
  <2>1. root \in Roots /\ Stored(flash, root)
    BY DEF RootInv, Stored
  <2>2. LocalRoot = ReadFrom(flash, Region, Region)
    BY DEF LocalRoot, read_local_json_file, ReadFrom,
           AKNANO_FLASH_OFF_TUF_ROLE_ROOT
  <2> QED
    BY <2>1, <2>2, ReadsBack
<1> QED
  BY <1>1, <1>2, <1>3, InitInv, PTL DEF Spec

\* TufStore implements RootChain: whatever is interrupted, and whatever an
\* earlier write left in flash, the roots that are trusted and stored form a chain
\* from the anchor on.  Nothing is assumed of the lengths of the roots.
THEOREM RootsFormChain == Spec => ImplementsRootChain
<1>1. Init => Chain!Init
  BY FirstPieces DEF Init, Cells, AKNANO_FLASH_OFF_TUF_ROLE_TIMESTAMP, Chain!Init
<1>2. IInv /\ ChainInv /\ [Next]_vars => [Chain!Next]_(Chain!vars)
  BY ChainOfRoots
<1> QED
  BY <1>1, <1>2, ChainInvariant, PTL DEF Spec, ImplementsRootChain, Chain!Spec

\* Every step of a check-in leaves fewer of them, and there are at most those of
\* one write for each root and of two for the anchor: no check-in goes on for
\* ever, however long the roots, and also while roots are published.
THEOREM EveryCheckinEnds ==
    Spec => /\ CheckinEnds
            /\ [](StepsLeft \in 0 .. Len(Length) * LongestWrite + 2 * LongestWrite + 4)
<1>1. IInv /\ ChainInv /\ [Next]_vars
          => [Device /\ pc \notin {"off", "refreshed", "failed"}
                  => StepsLeft' < StepsLeft]_vars
  BY Nearer DEF Over
<1>2. IInv /\ ChainInv
          => StepsLeft \in 0 .. Len(Length) * LongestWrite + 2 * LongestWrite + 4
  BY StepsBounded
<1> QED
  BY <1>1, <1>2, ChainInvariant, PTL DEF Spec, CheckinEnds
=============================================================================
