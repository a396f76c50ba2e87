------------------------- MODULE EepromUtilsProofs --------------------------
(***************************************************************************)
(* The commands of eeprom_utils.py, proved for every size of the EEPROM,   *)
(* its pages and the FIFO, every file and every content of the EEPROM.     *)
(*                                                                         *)
(* The inductive invariant has the type invariant and five parts: in which *)
(* command the program is (Places), what the file has to do with what is   *)
(* written and with the last dump (FileBytes), how far a call of i2c_read  *)
(* or i2c_write has come and what the controller and its FIFO hold on the  *)
(* way (ReadInv, WriteInv), and what was last told to the user (SaidInv).  *)
(* The last three speak of calm conditions only: a refused transfer, an    *)
(* exhausted polling loop and a busy bus at the call leave no promise.     *)
(***************************************************************************)
EXTENDS EepromUtils, SequenceTheorems, WellFoundedInduction, TLAPS

-----------------------------------------------------------------------------
\* Arithmetic modulo a span.

(* Quotient and remainder, and that the remainder is the only one. *)
LEMMA DivMod ==
  ASSUME NEW S \in Nat \ {0}, NEW a \in Int
  PROVE  (a % S) \in 0 .. S - 1 /\ (a \div S) \in Int /\ a = S * (a \div S) + (a % S)
  OBVIOUS

(* Quotient and remainder are unique. *)
LEMMA ModUnique ==
  ASSUME NEW S \in Nat \ {0}, NEW q \in Int, NEW r \in 0 .. S - 1
  PROVE  (S * q + r) % S = r
  OBVIOUS

(* Below the span a number is its own remainder. *)
LEMMA ModSmall == ASSUME NEW S \in Nat \ {0}, NEW a \in 0 .. S - 1 PROVE a % S = a
  OBVIOUS

(* Reducing a summand first changes nothing. *)
LEMMA ModAdd ==
  ASSUME NEW S \in Nat \ {0}, NEW a \in Int, NEW b \in Int
  PROVE  ((a % S) + b) % S = (a + b) % S
<1> DEFINE q == a \div S
           r == a % S
           p == (r + b) \div S
           t == (r + b) % S
<1>1. r \in Int /\ q \in Int /\ a = S * q + r
  BY DivMod
<1>2. p \in Int /\ t \in 0 .. S - 1 /\ r + b = S * p + t
  BY <1>1, DivMod
<1>3. a + b = S * (q + p) + t
  <2> HIDE DEF q, r, p, t
  <2> QED BY <1>1, <1>2
<1>4. (S * (q + p) + t) % S = t
  <2> HIDE DEF q, p, t
  <2>1. q + p \in Int
    BY <1>1, <1>2
  <2> QED BY <1>2, <2>1, ModUnique
<1> QED BY <1>3, <1>4

(* Less than a span apart, two addresses stay different. *)
LEMMA ModApart ==
  ASSUME NEW S \in Nat \ {0}, NEW a \in Int, NEW d \in 1 .. S - 1
  PROVE  (a + d) % S # a % S
<1> DEFINE r == a % S
<1>1. r \in 0 .. S - 1
  BY DivMod
<1>2. (a + d) % S = (r + d) % S
  <2>1. d \in Int
    OBVIOUS
  <2> QED BY <2>1, ModAdd, Zenon
<1> HIDE DEF r
<1>3. CASE r + d < S
  <2>1. r + d \in 0 .. S - 1
    BY <1>1, <1>3
  <2>2. (r + d) % S = r + d
    BY <2>1, ModSmall
  <2>3. r + d # r
    BY <1>1
  <2> QED BY <1>2, <2>2, <2>3 DEF r
<1>4. CASE ~(r + d < S)
  <2>1. PICK t \in 0 .. S - 1 : r + d = S + t /\ t # r
    BY <1>1, <1>4
  <2>2. (S * 1 + t) % S = t
    BY <2>1, ModUnique
  <2>3. S * 1 + t = S + t
    OBVIOUS
  <2> QED BY <1>2, <2>1, <2>2, <2>3 DEF r
<1> QED BY <1>3, <1>4

(* Reducing by a multiple of the span first changes nothing. *)
LEMMA ModMod ==
  ASSUME NEW S \in Nat \ {0}, NEW T \in Nat \ {0}, T % S = 0, NEW a \in Int
  PROVE  (a % T) % S = a % S
<1> DEFINE k == T \div S
           q == a \div T
           r == a % T
           p == r \div S
           t == r % S
<1>1. k \in Int /\ T = S * k
  BY DivMod
<1>2. r \in Int /\ q \in Int /\ a = T * q + r
  BY DivMod
<1>3. p \in Int /\ t \in 0 .. S - 1 /\ r = S * p + t
  BY <1>2, DivMod
<1>4. a = S * (k * q + p) + t
  <2> HIDE DEF k, q, r, p, t
  <2> QED BY <1>1, <1>2, <1>3
<1>5. (S * (k * q + p) + t) % S = t
  <2> HIDE DEF k, q, p, t
  <2>1. k * q + p \in Int
    BY <1>1, <1>2, <1>3
  <2> QED BY <1>3, <2>1, ModUnique
<1> QED BY <1>4, <1>5

-----------------------------------------------------------------------------
\* Numbers.

(* A set of numbers that is not empty has a least element.                   *)
LEMMA LeastOf ==
  ASSUME NEW T \in SUBSET Nat, T # {}
  PROVE  \E k \in T : \A j \in T : k <= j
<1>1. PICK k \in T : \A j \in T : ~ (<<j, k>> \in OpToRel(<, Nat))
  BY WFMin, NatLessThanWellFounded, Zenon
<1>2. \A j \in T : ~ (j < k)
  BY <1>1 DEF OpToRel
<1>3. \A j \in T : k <= j
  BY <1>2
<1> QED BY <1>3

(* Quotients are unique.                                                     *)
LEMMA DivUnique ==
  ASSUME NEW S \in Nat \ {0}, NEW q \in Int, NEW r \in 0 .. S - 1
  PROVE  (S * q + r) \div S = q
  OBVIOUS

\* The number of four bytes, the low byte first.
Number(n, a, b, c, d) == n = a + Base * (b + Base * (c + Base * d))

(* The digits of a number are its bytes: what LineOf prints of a record is   *)
(* the bytes of the record.                                                  *)
LEMMA Digits ==
  \A a, b, c, d \in Byte : \A n :
     Number(n, a, b, c, d) =>
       /\ (n \div 1) % Base = a
       /\ (n \div Base) % Base = b
       /\ (n \div (Base * Base)) % Base = c
       /\ (n \div (Base * Base * Base)) % Base = d
<1> DEFINE B == Base
<1>b. B \in Nat \ {0}
  BY TwiAssumption
<1> SUFFICES ASSUME NEW a \in 0 .. B - 1, NEW b \in 0 .. B - 1,
                    NEW c \in 0 .. B - 1, NEW d \in 0 .. B - 1,
                    NEW n, n = a + B * (b + B * (c + B * d))
             PROVE  /\ (n \div 1) % B = a
                    /\ (n \div B) % B = b
                    /\ (n \div (B * B)) % B = c
                    /\ (n \div (B * B * B)) % B = d
  BY Zenon DEF Number, Byte
<1> HIDE DEF B
<1> DEFINE n1 == c + B * d
           n2 == b + B * n1
<1>0. n = a + B * n2
  BY <1>b
<1>1. n1 \in Nat /\ n1 = B * d + c /\ n1 % B = c /\ n1 \div B = d
  <2>1. n1 \in Nat /\ n1 = B * d + c
    BY <1>b
  <2>2. (B * d + c) % B = c /\ (B * d + c) \div B = d
    <3>1. d \in Int
      BY <1>b
    <3> QED BY <1>b, <3>1, ModUnique, DivUnique
  <2> QED BY <1>b, <2>1, <2>2
<1>2. n2 \in Nat /\ n2 = B * n1 + b /\ n2 % B = b /\ n2 \div B = n1
  <2> HIDE DEF n1
  <2>1. n2 \in Nat /\ n2 = B * n1 + b
    BY <1>b, <1>1
  <2>2. (B * n1 + b) % B = b /\ (B * n1 + b) \div B = n1
    <3>1. n1 \in Int
      BY <1>b, <1>1
    <3> QED BY <1>b, <3>1, ModUnique, DivUnique
  <2> QED BY <1>b, <2>1, <2>2
<1>3. n \in Nat /\ n = B * n2 + a /\ n % B = a /\ n \div B = n2
  <2> HIDE DEF n2
  <2>1. n \in Nat /\ n = B * n2 + a
    BY <1>b, <1>0, <1>2
  <2>2. (B * n2 + a) % B = a /\ (B * n2 + a) \div B = n2
    <3>1. n2 \in Int
      BY <1>b, <1>2
    <3> QED BY <1>b, <3>1, ModUnique, DivUnique
  <2> QED BY <1>b, <2>1, <2>2
<1>4. n \div 1 = n
  BY <1>b, <1>3
<1>5. n \div (B * B) = n1
  <2>1. (B * B) \in Nat \ {0} /\ (B * b + a) \in 0 .. B * B - 1
    <3>1. b <= B - 1 /\ B * b <= B * (B - 1)
      BY <1>b
    <3>2. B * (B - 1) = B * B - B /\ B * B >= B
      BY <1>b
    <3> QED BY <1>b, <3>1, <3>2
  <2>2. n = (B * B) * n1 + (B * b + a)
    <3> HIDE DEF n1
    <3> QED BY <1>b, <1>0, <1>1
  <2> DEFINE S == B * B
             r == B * b + a
  <2>3. S \in Nat \ {0} /\ n1 \in Int /\ r \in 0 .. S - 1
    BY <1>b, <1>1, <2>1
  <2>4. (S * n1 + r) \div S = n1
    <3> HIDE DEF S, r, n1
    <3> QED BY <1>b, <2>3, DivUnique
  <2> QED BY <1>b, <2>2, <2>4
<1>6. n \div (B * B * B) = d
  <2> DEFINE S == B * B * B
             r == B * (B * c + b) + a
  <2>1. S \in Nat \ {0} /\ d \in Int /\ r \in 0 .. S - 1
    <3> DEFINE x == B * c + b
    <3>1. x \in Nat /\ x <= B * B - 1
      <4>1. c <= B - 1 /\ B * c <= B * (B - 1)
        BY <1>b
      <4>2. B * (B - 1) = B * B - B
        BY <1>b
      <4> QED BY <1>b, <4>1, <4>2
    <3>2. B * x + a \in Nat /\ B * x + a <= B * B * B - 1
      <4> DEFINE y == B * B - 1
      <4>1. y \in Int /\ x <= y /\ B * y = B * B * B - B
        BY <1>b, <3>1
      <4>2. B * x <= B * y
        <5> HIDE DEF x, y
        <5> QED BY <1>b, <3>1, <4>1
      <4> HIDE DEF x
      <4> QED BY <1>b, <3>1, <4>1, <4>2
    <3>3. B * B * B \in Nat \ {0}
      BY <1>b
    <3> QED BY <1>b, <3>2, <3>3
  <2>2. n = S * d + r
    BY <1>b
  <2>3. (S * d + r) \div S = d
    <3> HIDE DEF S, r
    <3> QED BY <1>b, <2>1, DivUnique
  <2> QED BY <1>b, <2>2, <2>3
<1>7. d % B = d
  BY <1>b, ModSmall
<1> QED BY <1>b, <1>1, <1>2, <1>3, <1>4, <1>5, <1>6, <1>7

(* ... and of an address.                                                    *)
LEMMA AddrDigits ==
  ASSUME NEW a \in Byte, NEW b \in Byte
  PROVE  ((a + b * Base) \div 1) % Base = a /\ ((a + b * Base) \div Base) % Base = b
<1> DEFINE n == a + b * Base
<1>0. Base \in Nat \ {0} /\ a \in 0 .. Base - 1 /\ b \in 0 .. Base - 1 /\ b \in Int
  BY TwiAssumption DEF Byte
<1>1. n = Base * b + a /\ n \in Int
  BY <1>0
<1>2. (Base * b + a) % Base = a /\ (Base * b + a) \div Base = b /\ b % Base = b
  BY <1>0, ModUnique, DivUnique, ModSmall
<1>3. n \div 1 = n
  <2> HIDE DEF n
  <2> QED BY <1>1
<1> HIDE DEF n
<1>4. (n \div 1) % Base = a /\ (n \div Base) % Base = b
  BY <1>1, <1>2, <1>3, Zenon
<1> QED BY <1>4 DEF n

-----------------------------------------------------------------------------
\* Records and lines.

(* A record printed as a line and read back as bytes is the record.          *)
LEMMA LineRead ==
  ASSUME NEW b \in Seq(Byte), Len(b) = RecSize
  PROVE  /\ IsLine(LineOf(b))
         /\ \A at \in 0 .. RecSize - 1 : LineByte(LineOf(b), at) = b[at + 1]
<1>2. /\ b[1] \in Byte /\ b[2] \in Byte /\ b[3] \in Byte
      /\ b[4] \in Byte /\ b[5] \in Byte /\ b[6] \in Byte
  <2>1. \A i \in 1 .. 6 : b[i] \in Byte
    BY ElementOfSeq DEF RecSize
  <2> QED BY <2>1
<1> DEFINE z == AddrOf(b)
           n == DataOf(b)
<1>4. (z \div 1) % Base = b[1] /\ (z \div Base) % Base = b[2]
  BY <1>2, AddrDigits DEF AddrOf
<1>5. /\ (n \div 1) % Base = b[3] /\ (n \div Base) % Base = b[4]
      /\ (n \div (Base * Base)) % Base = b[5] /\ (n \div (Base * Base * Base)) % Base = b[6]
  <2>1. Number(n, b[3], b[4], b[5], b[6])
    BY DEF Number, DataOf
  <2> HIDE DEF n
  <2> QED BY Digits, <1>2, <2>1
<1> HIDE DEF z, n
<1>6. /\ Hex(z, 2) = <<b[2], b[1]>>
      /\ Hex(n, 4) = <<b[6], b[5], b[4], b[3]>>
  <2>1. Weight(0) = 1 /\ Weight(1) = Base /\ Weight(2) = Base * Base /\ Weight(3) = Base * Base * Base
    BY DEF Weight
  <2>2. Hex(z, 2) = <<(z \div Weight(1)) % Base, (z \div Weight(0)) % Base>>
    BY DEF Hex
  <2>3. Hex(n, 4) = <<(n \div Weight(3)) % Base, (n \div Weight(2)) % Base,
                      (n \div Weight(1)) % Base, (n \div Weight(0)) % Base>>
    BY DEF Hex
  <2> QED BY <1>4, <1>5, <2>1, <2>2, <2>3
<1>7. LineOf(b) = << <<b[2], b[1]>>, <<b[6], b[5], b[4], b[3]>> >>
  BY <1>6 DEF LineOf, z, n
<1>8. IsLine(LineOf(b))
  <2> DEFINE x == <<b[2], b[1]>>
             y == <<b[6], b[5], b[4], b[3]>>
  <2>1. x \in Seq(Byte) /\ y \in Seq(Byte) /\ Len(x) = 2 /\ Len(y) = 4
    BY <1>2
  <2>2. LineOf(b) = <<x, y>>
    BY <1>7
  <2> HIDE DEF x, y
  <2>3. <<x, y>> \in Seq(Byte) \X Seq(Byte) /\ <<x, y>>[1] = x /\ <<x, y>>[2] = y
    BY <2>1
  <2> QED BY <2>1, <2>2, <2>3 DEF IsLine
<1>9. ASSUME NEW at \in 0 .. RecSize - 1 PROVE LineByte(LineOf(b), at) = b[at + 1]
  <2>1. at \in {0, 1, 2, 3, 4, 5}
    BY DEF RecSize
  <2> QED BY <1>7, <2>1 DEF LineByte
<1> QED BY <1>8, <1>9

(* A byte of a line is a byte.                                               *)
LEMMA LineByteType ==
  ASSUME NEW line, IsLine(line), NEW at \in 0 .. RecSize - 1
  PROVE  LineByte(line, at) \in Byte
<1>1. at \in {0, 1, 2, 3, 4, 5}
  BY DEF RecSize
<1>2. line[1] \in Seq(Byte) /\ line[2] \in Seq(Byte) /\ Len(line[1]) = 2 /\ Len(line[2]) = 4
  BY DEF IsLine
<1> QED BY <1>1, <1>2 DEF LineByte

(* The bytes of a file that can be read.                                     *)
LEMMA FileDataType ==
  ASSUME TypeOK, Readable
  PROVE  FileData \in Seq(Byte) /\ Len(FileData) = RecSize * Len(file)
<1> DEFINE n == RecSize * Len(file)
           m == Len(file)
<1>1. m \in Nat /\ n = 6 * m /\ n \in Nat
  BY DEF RecSize, TypeOK
<1>2. ASSUME NEW i \in 1 .. n
      PROVE  LineByte(file[((i - 1) \div RecSize) + 1], (i - 1) % RecSize) \in Byte
  <2>1. (i - 1) \div 6 \in 0 .. m - 1 /\ (i - 1) % 6 \in 0 .. 5
    <3> HIDE DEF m, n
    <3> QED BY <1>1, <1>2
  <2>2. IsLine(file[((i - 1) \div 6) + 1])
    <3>1. ((i - 1) \div 6) + 1 \in 1 .. Len(file)
      BY <1>1, <2>1
    <3> QED BY <3>1 DEF TypeOK, Readable
  <2> QED BY <2>1, <2>2, LineByteType DEF RecSize
<1>3. FileData = [i \in 1 .. n |-> LineByte(file[((i - 1) \div RecSize) + 1], (i - 1) % RecSize)]
  BY DEF FileData
<1>4. FileData \in [1 .. n -> Byte]
  <2> HIDE DEF n
  <2> QED BY <1>2, <1>3, Zenon
<1> HIDE DEF n
<1>5. FileData \in Seq(Byte) /\ Len(FileData) = n
  BY <1>1, <1>4, SeqDef
<1> QED BY <1>5 DEF n

-----------------------------------------------------------------------------
\* Pages.

(* A byte of the page that starts at t is written at its own address, as     *)
(* long as the page does not end before it.                                  *)
LEMMA PageCell ==
  ASSUME NEW t \in Nat, NEW m \in Nat, (t % PageSize) + m < PageSize
  PROVE  /\ PageAddr((t % Base) % RomSize, m) = (t + m) % RomSize
         /\ (t % Base) % RomSize \in Cells
<1>1. /\ Base \in Nat \ {0} /\ RomSize \in Nat \ {0} /\ PageSize \in Nat \ {0}
      /\ Base % RomSize = 0 /\ RomSize % PageSize = 0 /\ t \in Int
  BY TwiAssumption
<1> DEFINE a == t % RomSize
           p == t % PageSize
<1>2. (t % Base) % RomSize = a
  BY <1>1, ModMod
<1>3. a % PageSize = p
  BY <1>1, ModMod
<1>4. a \in 0 .. RomSize - 1 /\ p \in 0 .. PageSize - 1
  BY <1>1, DivMod
<1> HIDE DEF a, p
<1>5. (a + m) % PageSize = p + m
  <2>1. (a + m) % PageSize = ((a % PageSize) + m) % PageSize
    <3>1. a \in Int /\ m \in Int
      BY <1>4
    <3> QED BY <1>1, <3>1, ModAdd
  <2>2. p + m \in 0 .. PageSize - 1
    <3>1. p + m < PageSize
      BY DEF p
    <3> QED BY <1>1, <1>4, <3>1
  <2>3. (p + m) % PageSize = p + m
    BY <1>1, <2>2, ModSmall
  <2> QED BY <1>3, <2>1, <2>3
<1>6. PageAddr(a, m) = a + m
  <2>1. PageAddr(a, m) = (a - p) + (p + m)
    BY <1>3, <1>5 DEF PageAddr
  <2> QED BY <1>4, <2>1
<1>7. a + m < RomSize
  <2> DEFINE k == RomSize \div PageSize
             q == a \div PageSize
  <2>1. k \in Int /\ q \in Int /\ RomSize = PageSize * k /\ a = PageSize * q + p
    <3>1. a \in Int
      BY <1>4
    <3>2. \A x \in Int : (x \div PageSize) \in Int /\ x = PageSize * (x \div PageSize) + (x % PageSize)
      BY <1>1, DivMod
    <3> QED BY <1>1, <1>3, <3>1, <3>2
  <2> HIDE DEF k, q
  <2>2. PageSize * q < PageSize * k
    <3>1. PageSize * q \in Int /\ PageSize * k \in Int
      BY <1>1, <2>1
    <3> QED BY <1>1, <1>4, <2>1, <3>1
  <2>3. q + 1 <= k
    BY <1>1, <2>1, <2>2
  <2>4. PageSize * (q + 1) <= PageSize * k
    BY <1>1, <2>1, <2>3
  <2>5. PageSize * (q + 1) = PageSize * q + PageSize
    BY <1>1, <2>1
  <2>6. p + m < PageSize
    BY DEF p
  <2>7. PageSize * q \in Int /\ PageSize * k \in Int
    BY <1>1, <2>1
  <2> QED BY <1>1, <1>4, <2>1, <2>4, <2>5, <2>6, <2>7
<1>8. (t + m) % RomSize = a + m
  <2>1. (t + m) % RomSize = (a + m) % RomSize
    <3>1. m \in Int
      OBVIOUS
    <3> QED BY <1>1, <3>1, ModAdd DEF a
  <2>2. a + m \in 0 .. RomSize - 1
    BY <1>1, <1>4, <1>7
  <2> QED BY <1>1, <2>1, <2>2, ModSmall
<1> QED BY <1>2, <1>4, <1>6, <1>8 DEF Cells

(* A block is not empty, fits into the FIFO behind its address and ends with *)
(* its page.                                                                 *)
LEMMA BlockFits ==
  ASSUME offset \in Nat, length \in Nat, length > 0
  PROVE  /\ BlockLen \in 1 .. length /\ BlockLen <= Burst
         /\ (offset % PageSize) + BlockLen <= PageSize
<1> DEFINE T == {n \in 1 .. length : BlockEnds(n)}
           p == offset % PageSize
<1>0. PageSize \in Nat \ {0} /\ Burst \in Nat \ {0}
  BY TwiAssumption, I2cAssumption
<1>1. PICK k \in T : \A j \in T : k <= j
  <2>1. length \in T
    BY DEF BlockEnds
  <2>2. T \in SUBSET Nat /\ T # {}
    BY <2>1
  <2> QED BY <2>2, LeastOf, Zenon
<1>2. k \in 1 .. length /\ BlockEnds(k) /\ \A m \in 1 .. (k - 1) : ~ BlockEnds(m)
  <2>1. k \in 1 .. length /\ BlockEnds(k)
    OBVIOUS
  <2>2. ASSUME NEW m \in 1 .. (k - 1), BlockEnds(m) PROVE FALSE
    <3>1. m \in T /\ m < k
      BY <2>1, <2>2
    <3> QED BY <1>1, <2>1, <3>1
  <2> QED BY <2>1, <2>2
<1>3. BlockLen \in 1 .. length /\ BlockEnds(BlockLen)
      /\ \A m \in 1 .. (BlockLen - 1) : ~ BlockEnds(m)
  BY <1>2 DEF BlockLen
<1>4. \A m \in 1 .. length : BlockEnds(m) => BlockLen <= m
  <2> SUFFICES ASSUME NEW m \in 1 .. length, BlockEnds(m), ~ (BlockLen <= m) PROVE FALSE
    OBVIOUS
  <2>1. m \in 1 .. (BlockLen - 1)
    BY <1>3
  <2> QED BY <1>3, <2>1
<1> HIDE DEF T
<1>5. BlockLen <= Burst
  <2>1. CASE Burst <= length
    <3>1. Burst \in 1 .. length
      BY <1>0, <2>1
    <3>2. BlockEnds(Burst)
      BY DEF BlockEnds
    <3> QED BY <1>4, <3>1, <3>2
  <2>2. CASE ~ (Burst <= length)
    BY <1>0, <1>3, <2>2
  <2> QED BY <2>1, <2>2
<1>6. p \in 0 .. PageSize - 1 /\ (offset + (PageSize - p)) % PageSize = 0
  <2> DEFINE q == offset \div PageSize
  <2>1. p \in 0 .. PageSize - 1 /\ q \in Int /\ offset = PageSize * q + p
    <3>1. offset \in Int
      OBVIOUS
    <3> QED BY <1>0, <3>1, DivMod
  <2> HIDE DEF p, q
  <2>2. offset + (PageSize - p) = PageSize * (q + 1) + 0
    BY <1>0, <2>1
  <2>3. (PageSize * (q + 1) + 0) % PageSize = 0
    <3>1. q + 1 \in Int /\ 0 \in 0 .. PageSize - 1
      BY <1>0, <2>1
    <3> QED BY <1>0, <3>1, ModUnique
  <2> QED BY <2>1, <2>2, <2>3
<1> HIDE DEF p
<1>7. p + BlockLen <= PageSize
  <2>1. CASE PageSize - p <= length
    <3>1. PageSize - p \in 1 .. length
      BY <1>0, <1>6, <2>1
    <3>2. BlockEnds(PageSize - p)
      BY <1>6 DEF BlockEnds
    <3>3. BlockLen <= PageSize - p
      BY <1>4, <3>1, <3>2
    <3> QED BY <1>0, <1>3, <1>6, <3>3
  <2>2. CASE ~ (PageSize - p <= length)
    BY <1>0, <1>3, <1>6, <2>2
  <2> QED BY <2>1, <2>2
<1> QED BY <1>3, <1>5, <1>7 DEF p

-----------------------------------------------------------------------------
\* Types.

(* What is pushed into the FIFO, or comes in from the EEPROM, stays bytes.   *)
LEMMA FittingType ==
  ASSUME NEW s \in Seq(Byte)
  PROVE  /\ Fitting(s) \in Seq(Byte) /\ Len(Fitting(s)) <= FifoSize
         /\ Len(s) <= FifoSize => Fitting(s) = s
<1> DEFINE n == IF Len(s) <= FifoSize THEN Len(s) ELSE FifoSize
<1>1. Len(s) \in Nat /\ FifoSize \in Nat \ {0}
  BY TwiAssumption
<1>2. n \in 0 .. Len(s) /\ n <= FifoSize
  BY <1>1
<1>3. \A i \in 1 .. n : s[i] \in Byte
  BY <1>2, ElementOfSeq
<1>4. SubSeq(s, 1, n) \in Seq(Byte) /\ Len(SubSeq(s, 1, n)) = n
  <2>1. 1 \in Int /\ n \in Int
    BY <1>2
  <2>2. SubSeq(s, 1, n) \in Seq(Byte) /\ Len(SubSeq(s, 1, n)) = IF 1 <= n THEN n - 1 + 1 ELSE 0
    BY <1>3, <2>1, SubSeqProperties
  <2> QED BY <1>2, <2>2
<1>5. Len(s) <= FifoSize => SubSeq(s, 1, n) = s
  BY SubSeqFull
<1> QED BY <1>2, <1>4, <1>5 DEF Fitting

(* What is left of the FIFO.                                                 *)
LEMMA RestType ==
  ASSUME NEW s \in Seq(Byte), NEW n \in Nat, Len(s) <= FifoSize
  PROVE  /\ SubSeq(s, n + 1, Len(s)) \in Seq(Byte)
         /\ Len(SubSeq(s, n + 1, Len(s))) <= FifoSize
         /\ Len(s) <= n => SubSeq(s, n + 1, Len(s)) = <<>>
<1>1. Len(s) \in Nat /\ FifoSize \in Nat
  BY TwiAssumption
<1>2. \A i \in n + 1 .. Len(s) : s[i] \in Byte
  BY <1>1, ElementOfSeq
<1>3. n + 1 \in Int /\ Len(s) \in Int
  BY <1>1
<1>4. SubSeq(s, n + 1, Len(s)) \in Seq(Byte)
      /\ Len(SubSeq(s, n + 1, Len(s))) = IF n + 1 <= Len(s) THEN Len(s) - (n + 1) + 1 ELSE 0
  BY <1>2, <1>3, SubSeqProperties
<1>5. Len(s) <= n => SubSeq(s, n + 1, Len(s)) = <<>>
  <2>1. Len(s) <= n => Len(s) < n + 1
    BY <1>1
  <2> QED BY <1>3, <2>1, SubSeqEmpty
<1> QED BY <1>1, <1>4, <1>5

(* A set of positions that is not empty has a last one.                      *)
LEMMA LastOf ==
  ASSUME NEW n \in Nat, NEW T \in SUBSET (1 .. n), T # {}
  PROVE  \E k \in T : \A j \in T : j <= k
<1> DEFINE U == {m \in 0 .. n : n - m \in T}
<1>1. PICK j \in T : TRUE
  OBVIOUS
<1>2. n - j \in U
  OBVIOUS
<1>3. PICK m \in U : \A u \in U : m <= u
  <2>1. U \in SUBSET Nat
    OBVIOUS
  <2>2. U # {}
    <3> HIDE DEF U
    <3> QED BY <1>2
  <2> QED BY <2>1, <2>2, LeastOf, Zenon
<1>4. m \in 0 .. n /\ n - m \in T
  OBVIOUS
<1>5. ASSUME NEW i \in T PROVE i <= n - m
  <2>1. n - i \in U
    OBVIOUS
  <2>2. m <= n - i
    BY <1>3, <2>1
  <2> QED BY <1>4, <2>2
<1> QED BY <1>4, <1>5

(* A page written with bytes is a page of bytes.                             *)
LEMMA PageWriteType ==
  ASSUME TypeOK, NEW a \in Cells, NEW bytes \in Seq(Byte)
  PROVE  PageWrite(a, bytes) \in [Cells -> Byte]
<1> SUFFICES ASSUME NEW i \in Cells, \E j \in 1 .. Len(bytes) : PageAddr(a, j - 1) = i
             PROVE  bytes[CHOOSE j \in 1 .. Len(bytes) :
                            /\ PageAddr(a, j - 1) = i
                            /\ \A k \in (j + 1) .. Len(bytes) : PageAddr(a, k - 1) # i] \in Byte
  BY DEF PageWrite, TypeOK, TwiTypeOK
<1> DEFINE T == {j \in 1 .. Len(bytes) : PageAddr(a, j - 1) = i}
<1>1. Len(bytes) \in Nat /\ T \in SUBSET (1 .. Len(bytes)) /\ T # {}
  OBVIOUS
<1>2. PICK m \in T : \A j \in T : j <= m
  BY <1>1, LastOf, Zenon
<1>3. /\ m \in 1 .. Len(bytes) /\ PageAddr(a, m - 1) = i
      /\ \A k \in (m + 1) .. Len(bytes) : PageAddr(a, k - 1) # i
  <2>1. m \in 1 .. Len(bytes) /\ PageAddr(a, m - 1) = i
    OBVIOUS
  <2>2. ASSUME NEW k \in (m + 1) .. Len(bytes), PageAddr(a, k - 1) = i PROVE FALSE
    <3>1. k \in T /\ k > m
      BY <1>1, <2>1, <2>2
    <3> QED BY <1>1, <1>2, <2>1, <3>1
  <2> QED BY <2>1, <2>2
<1> HIDE DEF T
<1> DEFINE P(j) == /\ PageAddr(a, j - 1) = i
                   /\ \A k \in (j + 1) .. Len(bytes) : PageAddr(a, k - 1) # i
<1>4. (CHOOSE j \in 1 .. Len(bytes) : P(j)) \in 1 .. Len(bytes)
  <2>1. \E j \in 1 .. Len(bytes) : P(j)
    BY <1>3
  <2> HIDE DEF P
  <2> QED BY <2>1, Zenon
<1> QED BY <1>4, ElementOfSeq

(* Every address of the EEPROM is one of its cells.                          *)
LEMMA CellTypes ==
  /\ \A x \in Int : (x % RomSize) \in Cells
  /\ \A a \in Cells, n \in Nat : PageAddr(a, n) \in Cells
<1>1. RomSize \in Nat \ {0} /\ PageSize \in Nat \ {0} /\ RomSize % PageSize = 0
  BY TwiAssumption
<1>2. \A x \in Int : (x % RomSize) \in Cells
  BY <1>1, DivMod DEF Cells
<1>3. ASSUME NEW a \in Cells, NEW n \in Nat PROVE PageAddr(a, n) \in Cells
  <2> DEFINE q == a \div PageSize
             k == RomSize \div PageSize
             p == a % PageSize
             r == (a + n) % PageSize
  <2>1. a \in Int /\ a + n \in Int /\ a >= 0 /\ a < RomSize
    BY <1>1 DEF Cells
  <2>2. /\ q \in Int /\ p \in 0 .. PageSize - 1 /\ a = PageSize * q + p
        /\ k \in Int /\ RomSize = PageSize * k /\ r \in 0 .. PageSize - 1
    <3>1. \A x \in Int : /\ (x \div PageSize) \in Int /\ x % PageSize \in 0 .. PageSize - 1
                         /\ x = PageSize * (x \div PageSize) + (x % PageSize)
      BY <1>1, DivMod
    <3> QED BY <1>1, <2>1, <3>1
  <2>3. PageAddr(a, n) = (a - p) + r
    BY DEF PageAddr
  <2> HIDE DEF q, k, p, r
  <2>4. PageSize * q \in Int /\ PageSize * k \in Int
    BY <1>1, <2>2
  <2>5. PageSize * q < PageSize * k /\ PageSize * q >= 0
    <3>1. q >= 0
      <4> SUFFICES ASSUME q <= -1 PROVE FALSE
        BY <2>2
      <4>1. PageSize * q <= PageSize * (-1)
        BY <1>1, <2>2
      <4>2. PageSize * (-1) = - PageSize
        BY <1>1
      <4> QED BY <1>1, <2>1, <2>2, <2>4, <4>1, <4>2
    <3>2. PageSize * q < PageSize * k
      <4> DEFINE x == PageSize * q
                 y == PageSize * k
      <4>1. x \in Int /\ y \in Int /\ a = x + p /\ RomSize = y
        BY <2>2, <2>4
      <4>2. p >= 0 /\ p \in Int /\ a < RomSize
        BY <1>1, <2>1, <2>2
      <4>3. x < y
        <5> HIDE DEF x, y
        <5> QED BY <4>1, <4>2
      <4> QED BY <4>3
    <3>3. PageSize * q >= 0
      BY <1>1, <2>2, <3>1
    <3> QED BY <3>2, <3>3
  <2>6. q + 1 <= k
    BY <1>1, <2>2, <2>5
  <2>7. PageSize * (q + 1) <= PageSize * k /\ PageSize * (q + 1) = PageSize * q + PageSize
    BY <1>1, <2>2, <2>6
  <2>8. (a - p) + r \in 0 .. RomSize - 1
    BY <1>1, <2>1, <2>2, <2>4, <2>5, <2>7
  <2> QED BY <2>3, <2>8 DEF Cells
<1> QED BY <1>2, <1>3

(* The EEPROM takes bytes from the FIFO.                                     *)
LEMMA TakeTypes ==
  ASSUME TypeOK, NEW n \in 0 .. Len(twi_fifo), TakeBytes(n)
  PROVE  /\ twi_fifo' \in Seq(Byte) /\ Len(twi_fifo') <= FifoSize
         /\ rom' \in [Cells -> Byte] /\ rom_ptr' \in Cells /\ rom_busy' \in BOOLEAN
<1>1. twi_fifo \in Seq(Byte) /\ Len(twi_fifo) <= FifoSize /\ Len(twi_fifo) \in Nat
  BY DEF TypeOK, TwiTypeOK
<1>2. twi_fifo' \in Seq(Byte) /\ Len(twi_fifo') <= FifoSize
  BY <1>1, RestType DEF TakeBytes
<1>3. CASE n = 0
  BY <1>2, <1>3 DEF TakeBytes, TypeOK, TwiTypeOK, rom_vars
<1>4. CASE n # 0
  <2> DEFINE data == SubSeq(twi_fifo, 2, n)
             at == twi_fifo[1] % RomSize
  <2>1. data \in Seq(Byte)
    <3>1. 2 \in Int /\ n \in Int /\ \A i \in 2 .. n : twi_fifo[i] \in Byte
      BY <1>1, ElementOfSeq
    <3> QED BY <3>1, SubSeqProperties
  <2>2. at \in Cells
    <3>1. twi_fifo[1] \in Byte
      BY <1>1, <1>4, ElementOfSeq
    <3>2. twi_fifo[1] \in Int
      BY <3>1, TwiAssumption DEF Byte
    <3> QED BY <3>2, CellTypes
  <2>3. rom' = PageWrite(at, data) /\ rom_ptr' = PageAddr(at, Len(data)) /\ rom_busy' = (data # <<>>)
    BY <1>4 DEF TakeBytes
  <2> HIDE DEF data, at
  <2>4. PageAddr(at, Len(data)) \in Cells
    BY <2>1, <2>2, CellTypes
  <2> QED BY <1>2, <2>1, <2>2, <2>3, <2>4, PageWriteType
<1> QED BY <1>3, <1>4

(* The EEPROM sends bytes into the FIFO.                                     *)
LEMMA SendTypes ==
  ASSUME TypeOK, NEW n \in Nat, SendBytes(n)
  PROVE  /\ twi_fifo' \in Seq(Byte) /\ Len(twi_fifo') <= FifoSize
         /\ rom_ptr' \in Cells /\ UNCHANGED <<rom, rom_busy>>
         /\ twi_fifo = <<>> /\ n <= FifoSize =>
              Len(twi_fifo') = n /\ \A i \in 1 .. n : twi_fifo'[i] = rom[(rom_ptr + i - 1) % RomSize]
<1>1. twi_fifo \in Seq(Byte) /\ rom \in [Cells -> Byte] /\ rom_ptr \in Nat
  BY TwiAssumption DEF TypeOK, TwiTypeOK, Cells
<1> DEFINE more == [i \in 1 .. n |-> rom[(rom_ptr + i - 1) % RomSize]]
<1>2. more \in [1 .. n -> Byte]
  <2>1. ASSUME NEW i \in 1 .. n PROVE rom[(rom_ptr + i - 1) % RomSize] \in Byte
    <3>1. (rom_ptr + i - 1) % RomSize \in Cells
      BY <1>1, CellTypes
    <3> QED BY <1>1, <3>1
  <2> QED BY <2>1
<1>3. more \in Seq(Byte) /\ Len(more) = n
  <2> HIDE DEF more
  <2> QED BY <1>2, SeqDef
<1>4. twi_fifo' = Fitting(twi_fifo \o more)
  BY DEF SendBytes
<1>5. rom_ptr' \in Cells /\ UNCHANGED <<rom, rom_busy>>
  <2>1. rom_ptr + n \in Int
    BY <1>1
  <2> QED BY <2>1, CellTypes DEF SendBytes
<1>6. \A i \in 1 .. n : more[i] = rom[(rom_ptr + i - 1) % RomSize]
  OBVIOUS
<1> HIDE DEF more
<1>7. twi_fifo \o more \in Seq(Byte)
  BY <1>1, <1>3, ConcatProperties
<1>8. twi_fifo = <<>> => twi_fifo \o more = more
  BY <1>3, ConcatEmptySeq
<1>9. twi_fifo' \in Seq(Byte) /\ Len(twi_fifo') <= FifoSize
  BY <1>4, <1>7, FittingType
<1>10. ASSUME twi_fifo = <<>>, n <= FifoSize PROVE twi_fifo' = more
  BY <1>3, <1>4, <1>8, <1>10, FittingType
<1> QED BY <1>3, <1>5, <1>6, <1>9, <1>10

(* The records a dump writes out are in the buffer.                          *)
LEMMA WalkedRecords ==
  ASSUME TypeOK, NEW recs \in Nat
  PROVE  /\ Walked(recs) \in 0 .. recs
         /\ ~ WalkRaises(recs) /\ Ends(recs) = {} => Walked(recs) = recs
         /\ \A k \in 1 .. Walked(recs) :
              /\ Record(k) \in Seq(Byte) /\ Len(Record(k)) = RecSize
              /\ RecSize * k <= Len(buf)
              /\ \A m \in 1 .. RecSize : Record(k)[m] = buf[RecSize * (k - 1) + m]
<1> DEFINE w == Whole(recs)
<1>1. buf \in Seq(Byte) /\ Len(buf) \in Nat
  BY DEF TypeOK
<1>2. w \in 0 .. recs /\ 6 * w <= Len(buf)
  BY <1>1 DEF Whole, RecSize
<1>3. Walked(recs) \in 0 .. w /\ (Ends(recs) = {} => Walked(recs) = w)
  <2>1. CASE Ends(recs) = {}
    BY <1>2, <2>1 DEF Walked
  <2>2. CASE Ends(recs) # {}
    <3>1. Ends(recs) \in SUBSET Nat /\ Ends(recs) \subseteq 1 .. w
      BY <1>2 DEF Ends
    <3>2. \E k \in Ends(recs) : \A j \in Ends(recs) : k <= j
      BY <2>2, <3>1, LeastOf, Zenon
    <3>3. (CHOOSE k \in Ends(recs) : \A j \in Ends(recs) : k <= j) \in Ends(recs)
      BY <3>2, Zenon
    <3>4. Walked(recs) \in 1 .. w
      BY <2>2, <3>1, <3>3 DEF Walked
    <3> QED BY <1>2, <2>2, <3>4
  <2> QED BY <2>1, <2>2
<1>4. ~ WalkRaises(recs) /\ Ends(recs) = {} => w = recs
  BY <1>2 DEF WalkRaises
<1> HIDE DEF w
<1>5. ASSUME NEW k \in 1 .. Walked(recs)
      PROVE  /\ Record(k) \in Seq(Byte) /\ Len(Record(k)) = RecSize
             /\ RecSize * k <= Len(buf)
             /\ \A m \in 1 .. RecSize : Record(k)[m] = buf[RecSize * (k - 1) + m]
  <2> DEFINE a == 6 * (k - 1) + 1
             b == 6 * k
  <2>1. a \in 1 .. Len(buf) /\ b \in 1 .. Len(buf) /\ a <= b /\ b - a + 1 = 6
    BY <1>1, <1>2, <1>3
  <2>2. Record(k) = SubSeq(buf, a, b)
    BY DEF Record, RecSize
  <2>3. \A m \in 1 .. 6 : a + m - 1 = 6 * (k - 1) + m
    BY <1>2, <1>3
  <2> HIDE DEF a, b
  <2>4. \A i \in a .. b : buf[i] \in Byte
    BY <1>1, <2>1, ElementOfSeq
  <2>5. /\ SubSeq(buf, a, b) \in Seq(Byte)
        /\ Len(SubSeq(buf, a, b)) = IF a <= b THEN b - a + 1 ELSE 0
        /\ \A i \in 1 .. b - a + 1 : SubSeq(buf, a, b)[i] = buf[a + i - 1]
    <3>1. a \in Int /\ b \in Int
      BY <2>1
    <3> QED BY <2>4, <3>1, SubSeqProperties
  <2>6. RecSize * k <= Len(buf)
    BY <1>1, <2>1 DEF RecSize, b
  <2> QED BY <2>1, <2>2, <2>3, <2>5, <2>6 DEF RecSize
<1> QED BY <1>2, <1>3, <1>4, <1>5

(* A transfer or the write cycle moves on.                                   *)
LEMMA TwiTypesStep == TypeOK /\ TwiNext /\ UNCHANGED <<i2c_vars, util_vars>> => TypeOK'
<1> SUFFICES ASSUME TypeOK, TwiNext, UNCHANGED <<i2c_vars, util_vars>> PROVE TypeOK'
  OBVIOUS
<1>1. TwiTypeOK'
  <2> USE DEF TransferEnds, twi_vars, rom_vars
  <2>0. Len(twi_fifo) \in 0 .. Len(twi_fifo) /\ twi_size \in Nat
    BY DEF TypeOK, TwiTypeOK
  <2>1. CASE TransferDone
    <3>1. CASE TakeBytes(Len(twi_fifo))
      BY <2>0, <2>1, <3>1, TakeTypes DEF TypeOK, TwiTypeOK, TransferDone
    <3>2. CASE SendBytes(twi_size)
      BY <2>0, <2>1, <3>2, SendTypes DEF TypeOK, TwiTypeOK, TransferDone
    <3> QED BY <2>1, <3>1, <3>2 DEF TransferDone
  <2>2. CASE TransferMeetsBusy
    BY <2>2 DEF TypeOK, TwiTypeOK, TransferMeetsBusy
  <2>3. CASE TransferFails
    <3>0. faults' \in 0 .. MaxFaults
      BY <2>3, TwiAssumption DEF TypeOK, TwiTypeOK, TransferFails, Fault
    <3>1. ASSUME NEW n \in 0 .. Len(twi_fifo), TakeBytes(n) PROVE TwiTypeOK'
      BY <2>3, <3>0, <3>1, TakeTypes DEF TypeOK, TwiTypeOK, TransferFails
    <3>2. ASSUME NEW n \in 0 .. twi_size, SendBytes(n) PROVE TwiTypeOK'
      <4>1. n \in Nat
        BY <2>0
      <4> QED BY <2>3, <3>0, <3>2, <4>1, SendTypes DEF TypeOK, TwiTypeOK, TransferFails
    <3> QED BY <2>3, <3>1, <3>2 DEF TransferFails
  <2>4. CASE TransferHeld
    BY <2>4, TwiAssumption DEF TypeOK, TwiTypeOK, TransferHeld, Fault
  <2>5. CASE RomReady
    BY <2>5 DEF TypeOK, TwiTypeOK, RomReady
  <2> QED BY <2>1, <2>2, <2>3, <2>4, <2>5 DEF TwiNext, TwiRuns
<1> QED BY <1>1 DEF TypeOK, i2c_vars, i2c_locals, util_vars

(* A polling loop that is entered has turns left, and i2c_write counts the   *)
(* bytes of its argument.                                                    *)
Polling == pc \in {"rd_idle", "rd_poll", "rd_block_poll", "wr_idle", "wr_poll"} => polls > 0
WriteCount == pc \in WritePcs => offset = total /\ total + length = Len(wdata)
TInv == TypeOK /\ Polling /\ WriteCount

(* A turn of a polling loop that leads to one of the places where it ends.   *)
LEMMA TurnTypes ==
  ASSUME TypeOK, polls > 0, NEW there, Turn(there)
  PROVE  /\ polls' \in 0 .. PollMax /\ trouble' \in BOOLEAN
         /\ \/ pc' = there /\ trouble' = TRUE
            \/ pc' = pc /\ trouble' = trouble /\ polls' > 0 /\ polls # 1
<1>1. polls \in 1 .. PollMax /\ PollMax \in Nat /\ polls' = polls - 1
  BY I2cAssumption DEF TypeOK, Turn
<1>2. CASE polls = 1
  <2>1. pc' = there /\ trouble' = TRUE
    BY <1>2 DEF Turn
  <2> QED BY <1>1, <1>2, <2>1
<1>3. CASE polls # 1
  <2>1. pc' = pc /\ trouble' = trouble
    BY <1>3 DEF Turn
  <2>2. trouble' \in BOOLEAN
    BY <2>1 DEF TypeOK
  <2> QED BY <1>1, <1>3, <2>1, <2>2
<1> QED BY <1>2, <1>3

(* i2c_read.                                                                 *)
LEMMA ReadTypesStep ==
  ASSUME TInv, UNCHANGED <<util_vars, faults>>,
         RdSetup \/ RdIdle \/ RdClear \/ RdAddr \/ RdPoll \/ RdMode
           \/ RdBlock \/ RdBlockPoll \/ RdFifo
  PROVE  TInv'
<1> USE DEF TInv, Polling, WriteCount, GoTo, ReadPcs, WritePcs, i2c_locals, rom_vars, twi_vars
<1>0. /\ PollMax \in Nat \ {0} /\ FifoSize \in Nat \ {0} /\ Base \in Nat \ {0}
      /\ Junk \in Byte /\ MaxFaults \in Nat
  BY TwiAssumption, I2cAssumption
<1>u. /\ todo' \in 0 .. MaxCommands
      /\ cmd' \in {"none", "screen", "dump", "write", "compare"}
      /\ said' \in {"none", "written", "error", "same", "differs"}
      /\ have' \in BOOLEAN /\ dumped' \in BOOLEAN
      /\ DOMAIN file' = 1..Len(file')
      /\ \A k \in 1..Len(file') : file'[k] = BadLine \/ IsLine(file'[k])
      /\ rom0' \in [Cells -> Byte] /\ snap' \in [Cells -> Byte]
      /\ faults' \in 0 .. MaxFaults
  BY DEF TypeOK, TwiTypeOK, util_vars
<1>j. ASSUME TwiTypeOK',
             /\ pc' \in ReadPcs \cup WritePcs \cup {"off", "menu", "ret"}
             /\ pc' \notin WritePcs
             /\ polls' \in 0 .. PollMax
             /\ pc' \in {"rd_idle", "rd_poll", "rd_block_poll"} => polls' > 0,
             /\ offset' \in Nat /\ length' \in Nat /\ total' \in Nat /\ tlen' \in 0 .. FifoSize
             /\ err' \in BOOLEAN /\ trouble' \in BOOLEAN /\ quiet' \in BOOLEAN
             /\ buf' \in Seq(Byte) /\ wdata' \in Seq(Byte)
      PROVE  TInv'
  BY <1>u, <1>j DEF TypeOK
<1>1. CASE RdSetup
  BY <1>0, <1>u, <1>1 DEF RdSetup, SetMode, TypeOK, TwiTypeOK
<1>2. CASE RdIdle
  <2>1. CASE Turn("rd_clear")
    <3>1. TwiTypeOK'
      BY <1>0, <1>u, <1>2 DEF RdIdle, TypeOK, TwiTypeOK
    <3>2. /\ polls' \in 0 .. PollMax
          /\ pc' = "rd_clear" \/ (pc' = pc /\ polls' > 0) 
          /\ trouble' \in BOOLEAN
      BY <1>2, <2>1, TurnTypes DEF RdIdle, TypeOK
    <3> QED BY <1>0, <1>2, <1>j, <3>1, <3>2 DEF RdIdle, TypeOK
  <2>2. CASE pc' = "rd_clear" /\ UNCHANGED <<polls, trouble>>
    BY <1>0, <1>u, <1>2, <2>2 DEF RdIdle, TypeOK, TwiTypeOK
  <2> QED BY <1>2, <2>1, <2>2 DEF RdIdle
<1>3. CASE RdClear
  <2>1. twi_fifo \o <<offset % Base>> \in Seq(Byte)
    BY <1>0 DEF TypeOK, TwiTypeOK, Byte
  <2>2. twi_fifo' \in Seq(Byte) /\ Len(twi_fifo') <= FifoSize
    BY <1>3, <2>1, FittingType DEF RdClear, Push
  <2> QED BY <1>0, <1>u, <1>3, <2>2 DEF RdClear, ClearStale, ReadIrt, TypeOK, TwiTypeOK
<1>4. CASE RdAddr
  <2>1. TwiTypeOK'
    BY <1>0, <1>u, <1>4 DEF RdAddr, StartTransfer, TypeOK, TwiTypeOK
  <2> QED BY <1>0, <1>4, <1>j, <2>1 DEF RdAddr, TypeOK
<1>5. CASE RdPoll
  <2>0. TwiTypeOK'
    BY <1>0, <1>u, <1>5 DEF RdPoll, ReadIrt, TypeOK, TwiTypeOK
  <2>1. CASE Turn("off")
    <3>2. /\ polls' \in 0 .. PollMax
          /\ pc' = "off" \/ (pc' = pc /\ polls' > 0)
          /\ trouble' \in BOOLEAN
      BY <1>5, <2>1, TurnTypes DEF RdPoll, TypeOK
    <3> QED BY <1>0, <1>5, <1>j, <2>0, <3>2 DEF RdPoll, TypeOK
  <2>2. CASE pc' = "rd_mode" /\ UNCHANGED <<polls, trouble>>
    BY <1>0, <1>5, <1>j, <2>0, <2>2 DEF RdPoll, TypeOK
  <2>3. CASE pc' = "off" /\ trouble' = TRUE /\ UNCHANGED polls
    BY <1>0, <1>5, <1>j, <2>0, <2>3 DEF RdPoll, TypeOK
  <2> QED BY <1>5, <2>1, <2>2, <2>3 DEF RdPoll
<1>6. CASE RdMode
  BY <1>0, <1>u, <1>6 DEF RdMode, SetMode, TypeOK, TwiTypeOK
<1>7. CASE RdBlock
  <2>1. CASE length > 0 /\ tlen' = ChunkLen /\ length' = length - tlen' /\ twi_size' = tlen'
               /\ StartTransfer /\ polls' = PollMax /\ pc' = "rd_block_poll"
    <3>1. ChunkLen \in 0 .. FifoSize /\ length - ChunkLen \in Nat
      BY <1>0 DEF TypeOK, ChunkLen
    <3>2. twi_size' \in Nat /\ tlen' \in 0 .. FifoSize /\ length' \in Nat
      BY <1>0, <2>1, <3>1
    <3>3. TwiTypeOK'
      BY <1>u, <1>7, <2>1, <3>2 DEF RdBlock, StartTransfer, TypeOK, TwiTypeOK
    <3> QED BY <1>0, <1>7, <1>j, <2>1, <3>3, <3>2 DEF RdBlock, TypeOK
  <2>2. CASE pc' = "ret" /\ UNCHANGED <<tlen, length, twi_size, twi_xfer, twi_held, polls>>
    BY <1>0, <1>u, <1>7, <2>2 DEF RdBlock, TypeOK, TwiTypeOK
  <2> QED BY <1>7, <2>1, <2>2 DEF RdBlock
<1>8. CASE RdBlockPoll
  <2>0. TwiTypeOK'
    BY <1>0, <1>u, <1>8 DEF RdBlockPoll, ReadIrt, TypeOK, TwiTypeOK
  <2>1. CASE Turn("rd_fifo") /\ err' = (polls = 1)
    <3>2. /\ polls' \in 0 .. PollMax
          /\ pc' = "rd_fifo" \/ (pc' = pc /\ polls' > 0)
          /\ trouble' \in BOOLEAN
      BY <1>8, <2>1, TurnTypes DEF RdBlockPoll, TypeOK
    <3> QED BY <1>0, <1>8, <1>j, <2>0, <2>1, <3>2 DEF RdBlockPoll, TypeOK
  <2>2. CASE pc' = "rd_fifo" /\ UNCHANGED <<polls, trouble, err>>
    BY <1>0, <1>8, <1>j, <2>0, <2>2 DEF RdBlockPoll, TypeOK
  <2> QED BY <1>8, <2>1, <2>2 DEF RdBlockPoll
<1>9. CASE RdFifo
  <2> DEFINE new == [i \in 1..tlen |-> IF i <= Len(twi_fifo) THEN twi_fifo[i] ELSE Junk]
  <2>0. tlen \in 0 .. FifoSize /\ twi_fifo \in Seq(Byte) /\ Len(twi_fifo) \in Nat
        /\ Len(twi_fifo) <= FifoSize
    BY DEF TypeOK, TwiTypeOK
  <2>1. new \in Seq(Byte)
    <3>1. new \in [1 .. tlen -> Byte]
      BY <1>0, <2>0, ElementOfSeq
    <3>2. tlen \in Nat
      BY <1>0, <2>0
    <3> HIDE DEF new
    <3> QED BY <3>1, <3>2, SeqDef
  <2>2. buf' \in Seq(Byte)
    <3>1. buf' = buf \o new
      BY <1>9 DEF RdFifo
    <3> HIDE DEF new
    <3> QED BY <2>1, <3>1, ConcatProperties DEF TypeOK
  <2>3. twi_fifo' \in Seq(Byte) /\ Len(twi_fifo') <= FifoSize
    <3>1. tlen \in Nat
      BY <1>0, <2>0
    <3> QED BY <1>9, <2>0, <3>1, RestType DEF RdFifo
  <2>4. total' \in Nat /\ tlen' = 0
    BY <1>0, <1>9, <2>0 DEF RdFifo, TypeOK
  <2> HIDE DEF new
  <2>5. TwiTypeOK'
    BY <1>0, <1>u, <1>9, <2>3 DEF RdFifo, TypeOK, TwiTypeOK
  <2> QED BY <1>0, <1>9, <1>j, <2>2, <2>4, <2>5 DEF RdFifo, TypeOK
<1> QED BY <1>1, <1>2, <1>3, <1>4, <1>5, <1>6, <1>7, <1>8, <1>9

(* i2c_write.                                                                *)
LEMMA WriteTypesStep ==
  ASSUME TInv, UNCHANGED <<util_vars, faults>>,
         WrSetup \/ WrIdle \/ WrBlock \/ WrAddr \/ WrPoll
  PROVE  TInv'
<1> USE DEF TInv, Polling, WriteCount, GoTo, ReadPcs, WritePcs, i2c_locals, rom_vars, twi_vars
<1>0. /\ PollMax \in Nat \ {0} /\ FifoSize \in Nat \ {0} /\ Base \in Nat \ {0}
      /\ Junk \in Byte /\ MaxFaults \in Nat
  BY TwiAssumption, I2cAssumption
<1>u. /\ todo' \in 0 .. MaxCommands
      /\ cmd' \in {"none", "screen", "dump", "write", "compare"}
      /\ said' \in {"none", "written", "error", "same", "differs"}
      /\ have' \in BOOLEAN /\ dumped' \in BOOLEAN
      /\ DOMAIN file' = 1..Len(file')
      /\ \A k \in 1..Len(file') : file'[k] = BadLine \/ IsLine(file'[k])
      /\ rom0' \in [Cells -> Byte] /\ snap' \in [Cells -> Byte]
      /\ faults' \in 0 .. MaxFaults
  BY DEF TypeOK, TwiTypeOK, util_vars
<1>w. offset = total /\ total + length = Len(wdata) /\ wdata \in Seq(Byte)
  BY DEF WrSetup, WrIdle, WrBlock, WrAddr, WrPoll, TypeOK
<1>j. ASSUME TwiTypeOK',
             /\ pc' \in WritePcs \cup {"ret"}
             /\ polls' \in 0 .. PollMax
             /\ pc' \in {"wr_idle", "wr_poll"} => polls' > 0,
             /\ offset' = total' /\ total' + length' = Len(wdata')
             /\ offset' \in Nat /\ length' \in Nat /\ total' \in Nat /\ tlen' \in 0 .. FifoSize
             /\ err' \in BOOLEAN /\ trouble' \in BOOLEAN /\ quiet' \in BOOLEAN
             /\ buf' \in Seq(Byte) /\ wdata' \in Seq(Byte)
      PROVE  TInv'
  BY <1>u, <1>j DEF TypeOK
<1>1. CASE WrSetup
  <2>1. TwiTypeOK'
    BY <1>0, <1>u, <1>1 DEF WrSetup, SetMode, ReadIrt, TypeOK, TwiTypeOK
  <2> QED BY <1>0, <1>1, <1>w, <1>j, <2>1 DEF WrSetup, TypeOK
<1>2. CASE WrIdle
  <2>0. TwiTypeOK'
    BY <1>u, <1>2 DEF WrIdle, TypeOK, TwiTypeOK
  <2>1. CASE Turn("wr_block")
    <3>1. /\ polls' \in 0 .. PollMax
          /\ pc' = "wr_block" \/ (pc' = pc /\ polls' > 0)
          /\ trouble' \in BOOLEAN
      BY <1>2, <2>1, TurnTypes DEF WrIdle
    <3> QED BY <1>2, <1>w, <1>j, <2>0, <3>1 DEF WrIdle, TypeOK
  <2>2. CASE pc' = "wr_block" /\ UNCHANGED <<polls, trouble>>
    BY <1>2, <1>w, <1>j, <2>0, <2>2 DEF WrIdle, TypeOK
  <2> QED BY <1>2, <2>1, <2>2 DEF WrIdle
<1>3. CASE WrBlock
  <2>1. CASE /\ length > 0
             /\ Push(<<offset % Base>> \o SubSeq(wdata, total + 1, total + BlockLen))
             /\ total' = total + BlockLen /\ offset' = offset + BlockLen
             /\ length' = length - BlockLen /\ pc' = "wr_addr"
    <3> DEFINE n == BlockLen
               more == SubSeq(wdata, total + 1, total + n)
    <3>1. n \in 1 .. length
      BY <2>1, BlockFits DEF TypeOK
    <3> HIDE DEF n
    <3>2. more \in Seq(Byte)
      <4>1. total \in Nat /\ length \in Nat /\ Len(wdata) \in Nat
        BY <1>w DEF TypeOK
      <4>2. \A i \in total + 1 .. total + n : wdata[i] \in Byte
        <5>1. \A i \in total + 1 .. total + n : i \in 1 .. Len(wdata)
          BY <1>w, <3>1, <4>1
        <5> QED BY <1>w, <5>1, ElementOfSeq
      <4>3. total + 1 \in Int /\ total + n \in Int
        BY <3>1, <4>1
      <4> QED BY <4>2, <4>3, SubSeqProperties
    <3>3. <<offset % Base>> \in Seq(Byte)
      BY <1>0 DEF TypeOK, Byte
    <3>4. twi_fifo' = Fitting(twi_fifo \o (<<offset % Base>> \o more))
      BY <2>1 DEF Push, n
    <3> HIDE DEF more
    <3>5. twi_fifo \o (<<offset % Base>> \o more) \in Seq(Byte)
      BY <3>2, <3>3, ConcatProperties DEF TypeOK, TwiTypeOK
    <3>6. twi_fifo' \in Seq(Byte) /\ Len(twi_fifo') <= FifoSize
      BY <3>4, <3>5, FittingType
    <3>7. TwiTypeOK'
      BY <1>u, <1>3, <3>6 DEF WrBlock, TypeOK, TwiTypeOK
    <3>8. /\ offset' \in Nat /\ length' \in Nat /\ total' \in Nat
          /\ offset' = total' /\ total' + length' = Len(wdata)
      <4>1. total \in Nat /\ length \in Nat
        BY DEF TypeOK
      <4>2. total' = total + n /\ offset' = offset + n /\ length' = length - n
        BY <2>1 DEF n
      <4> QED BY <1>w, <3>1, <4>1, <4>2
    <3> QED BY <1>3, <1>w, <1>j, <2>1, <3>7, <3>8 DEF WrBlock, TypeOK
  <2>2. CASE length = 0 /\ pc' = "ret" /\ UNCHANGED <<twi_fifo, total, offset, length>>
    <3>1. TwiTypeOK'
      BY <1>u, <1>3, <2>2 DEF WrBlock, TypeOK, TwiTypeOK
    <3> QED BY <1>3, <1>w, <1>j, <2>2, <3>1 DEF WrBlock, TypeOK
  <2> QED BY <1>3, <2>1, <2>2 DEF WrBlock
<1>4. CASE WrAddr
  <2>1. TwiTypeOK'
    BY <1>0, <1>u, <1>4 DEF WrAddr, StartTransfer, TypeOK, TwiTypeOK
  <2> QED BY <1>0, <1>4, <1>w, <1>j, <2>1 DEF WrAddr, TypeOK
<1>5. CASE WrPoll
  <2>0. TwiTypeOK'
    BY <1>u, <1>5 DEF WrPoll, ReadIrt, Sleep, TypeOK, TwiTypeOK
  <2>1. CASE Turn("wr_block")
    <3>1. /\ polls' \in 0 .. PollMax
          /\ pc' = "wr_block" \/ (pc' = pc /\ polls' > 0)
          /\ trouble' \in BOOLEAN
      BY <1>5, <2>1, TurnTypes DEF WrPoll
    <3> QED BY <1>5, <1>w, <1>j, <2>0, <3>1 DEF WrPoll, TypeOK
  <2>2. CASE pc' = "wr_block" /\ UNCHANGED <<polls, trouble>>
    BY <1>5, <1>w, <1>j, <2>0, <2>2 DEF WrPoll, TypeOK
  <2>3. CASE pc' = "ret" /\ trouble' = TRUE /\ UNCHANGED polls
    BY <1>5, <1>w, <1>j, <2>0, <2>3 DEF WrPoll, TypeOK
  <2> QED BY <1>5, <2>1, <2>2, <2>3 DEF WrPoll
<1> QED BY <1>1, <1>2, <1>3, <1>4, <1>5

(* The menu, its commands, and the user.                                     *)
MenuNext ==
  \/ ScreenReturn \/ DumpReturn \/ WriteReturn \/ CompareReturn
  \/ Start \/ Exit \/ Interrupt
  \/ eeprom_dump_to_screen \/ eeprom_dump_to_file
  \/ file_dump_to_eeprom \/ NotConfirmed \/ compare_eeprom_with_file
  \/ file_dump_to_screen \/ UnknownOption \/ FileRaises

LEMMA MenuTypesStep == TInv /\ MenuNext => TInv'
<1> SUFFICES ASSUME TInv, MenuNext PROVE TInv'
  OBVIOUS
<1> USE DEF TInv, Polling, WriteCount, GoTo, ReadPcs, WritePcs, i2c_locals, rom_vars, twi_vars
<1>0. /\ PollMax \in Nat \ {0} /\ FifoSize \in Nat \ {0} /\ Base \in Nat \ {0}
      /\ ScreenRecs \in Nat /\ FileRecs \in Nat /\ MaxCommands \in Nat
  BY TwiAssumption, I2cAssumption, UtilsAssumption
<1>e. <<>> \in Seq(Byte)
  OBVIOUS
<1>j. ASSUME UNCHANGED <<twi_vars, rom_vars, faults>>,
             pc' \in {"off", "menu"},
             /\ offset' \in Nat /\ length' \in Nat /\ total' \in Nat /\ tlen' \in 0 .. FifoSize
             /\ err' \in BOOLEAN /\ polls' \in 0 .. PollMax
             /\ buf' \in Seq(Byte) /\ wdata' \in Seq(Byte)
             /\ quiet' \in BOOLEAN /\ trouble' \in BOOLEAN,
             /\ cmd' \in {"none", "screen", "dump", "write", "compare"}
             /\ said' \in {"none", "written", "error", "same", "differs"}
             /\ rom0' \in [Cells -> Byte],
             UNCHANGED <<todo, have, file, dumped, snap>>
      PROVE  TInv'
  <2>1. TwiTypeOK'
    BY <1>j DEF TypeOK, TwiTypeOK
  <2> QED BY <1>j, <2>1 DEF TypeOK
<1>f. Forget => /\ offset' \in Nat /\ length' \in Nat /\ total' \in Nat /\ tlen' \in 0 .. FifoSize
                /\ err' \in BOOLEAN /\ polls' \in 0 .. PollMax
                /\ buf' \in Seq(Byte) /\ wdata' \in Seq(Byte)
                /\ quiet' \in BOOLEAN /\ trouble' \in BOOLEAN
  <2>1. 0 \in Nat /\ 0 \in 0 .. FifoSize /\ 0 \in 0 .. PollMax
    BY <1>0
  <2> QED BY <1>e, <2>1 DEF Forget
<1>s. UNCHANGED <<i2c_locals, polls, trouble>> =>
                /\ offset' \in Nat /\ length' \in Nat /\ total' \in Nat /\ tlen' \in 0 .. FifoSize
                /\ err' \in BOOLEAN /\ polls' \in 0 .. PollMax
                /\ buf' \in Seq(Byte) /\ wdata' \in Seq(Byte)
                /\ quiet' \in BOOLEAN /\ trouble' \in BOOLEAN
  BY DEF TypeOK
<1>1. CASE Start \/ Interrupt
  <2>1. rom \in [Cells -> Byte]
    BY DEF TypeOK, TwiTypeOK
  <2>2. CASE Start
    BY <1>f, <1>j, <2>1, <2>2 DEF Start, Bus
  <2>3. CASE Interrupt
    BY <1>f, <1>j, <2>1, <2>3 DEF Interrupt
  <2> QED BY <1>1, <2>2, <2>3
<1>2. CASE Exit \/ NotConfirmed \/ file_dump_to_screen \/ UnknownOption \/ FileRaises
  <2>1. (BackTo("off") \/ BackTo("menu"))
    BY <1>2 DEF Exit, NotConfirmed, file_dump_to_screen, UnknownOption, FileRaises
  <2>2. UNCHANGED <<twi_vars, rom_vars, faults, i2c_locals, polls, trouble, todo, have, file, rom0,
                    dumped, snap, cmd>> /\ pc' \in {"off", "menu"} /\ said' = "none"
    BY <2>1 DEF BackTo, Stay, Bus
  <2>3. cmd' \in {"none", "screen", "dump", "write", "compare"} /\ rom0' \in [Cells -> Byte]
    BY <2>2 DEF TypeOK
  <2> QED BY <1>s, <1>j, <2>2, <2>3
<1>c. ASSUME Command, NEW n \in Nat, NEW bytes \in Seq(Byte), NEW there \in {"rd_setup", "wr_setup"},
             Call(there, n, bytes), Bus, there = "wr_setup" => n = Len(bytes)
      PROVE  /\ TwiTypeOK' /\ Polling' /\ WriteCount'
             /\ pc' \in ReadPcs \cup WritePcs \cup {"off", "menu", "ret"}
             /\ offset' \in Nat /\ length' \in Nat /\ total' \in Nat /\ tlen' \in 0 .. FifoSize
             /\ err' \in BOOLEAN /\ polls' \in 0 .. PollMax
             /\ buf' \in Seq(Byte) /\ wdata' \in Seq(Byte)
             /\ quiet' \in BOOLEAN /\ trouble' \in BOOLEAN /\ todo' \in 0 .. MaxCommands
  <2>1. TwiTypeOK'
    BY <1>c DEF Bus, TypeOK, TwiTypeOK
  <2>2. todo' \in 0 .. MaxCommands
    BY <1>0, <1>c DEF Command, TypeOK
  <2>3. /\ pc' = there /\ offset' = 0 /\ length' = n /\ total' = 0 /\ tlen' = 0 /\ err' = FALSE
        /\ polls' = 0 /\ buf' = <<>> /\ wdata' = bytes
        /\ quiet' \in BOOLEAN /\ trouble' = FALSE
    BY <1>c DEF Call
  <2>4. 0 \in Nat /\ 0 \in 0 .. FifoSize /\ 0 \in 0 .. PollMax
    BY <1>0
  <2>5. CASE there = "rd_setup"
    BY <1>c, <1>e, <2>1, <2>2, <2>3, <2>4, <2>5
  <2>6. CASE there = "wr_setup"
    <3>1. WriteCount'
      BY <1>c, <2>3, <2>6
    <3> QED BY <1>c, <1>e, <2>1, <2>2, <2>3, <2>4, <2>6, <3>1
  <2> QED BY <1>c, <2>5, <2>6
<1>3. CASE eeprom_dump_to_screen
  <2>1. ScreenRecs * RecSize \in Nat
    BY <1>0 DEF RecSize
  <2> QED BY <1>3, <1>c, <1>e, <2>1 DEF eeprom_dump_to_screen, ReadRom, TypeOK, TwiTypeOK
<1>4. CASE eeprom_dump_to_file
  <2>1. FileRecs * RecSize \in Nat
    BY <1>0 DEF RecSize
  <2>2. Command /\ Call("rd_setup", FileRecs * RecSize, <<>>) /\ Bus
    BY <1>4 DEF eeprom_dump_to_file, ReadRom
  <2>3. /\ Len(file') = 0 /\ DOMAIN file' = 1 .. 0
        /\ cmd' = "dump" /\ said' = "none" /\ rom0' \in [Cells -> Byte]
        /\ have' = TRUE /\ dumped' = FALSE /\ snap' \in [Cells -> Byte]
    BY <1>4 DEF eeprom_dump_to_file, ReadRom, TypeOK, TwiTypeOK
  <2>4. DOMAIN file' = 1..Len(file') /\ \A k \in 1..Len(file') : file'[k] = BadLine \/ IsLine(file'[k])
    BY <2>3
  <2> QED BY <1>c, <1>e, <2>1, <2>2, <2>3, <2>4 DEF TypeOK
<1>5. CASE file_dump_to_eeprom
  <2>1. FileData \in Seq(Byte) /\ Len(FileData) \in Nat
    BY <1>5, FileDataType DEF file_dump_to_eeprom
  <2> QED BY <1>5, <1>c, <2>1 DEF file_dump_to_eeprom, TypeOK, TwiTypeOK
<1>6. CASE compare_eeprom_with_file
  <2>1. (Len(file) + 1) * RecSize \in Nat
    BY DEF RecSize, TypeOK
  <2> QED BY <1>6, <1>c, <1>e, <2>1 DEF compare_eeprom_with_file, ReadRom, TypeOK, TwiTypeOK
<1>7. CASE ScreenReturn
  BY <1>0, <1>7 DEF ScreenReturn, Stay, Bus, TypeOK, TwiTypeOK
<1>8. CASE DumpReturn
  <2>1. \A k \in 1 .. Walked(FileRecs) : IsLine(LineOf(Record(k)))
    BY <1>0, WalkedRecords, LineRead
  <2>2. Walked(FileRecs) \in Nat
    BY <1>0, WalkedRecords
  <2> DEFINE w == Walked(FileRecs)
             lines == [k \in 1 .. w |-> LineOf(Record(k))]
  <2>3. Len(lines) = w /\ DOMAIN lines = 1 .. w /\ \A k \in 1 .. w : lines[k] = LineOf(Record(k))
    <3> HIDE DEF w
    <3> QED BY <2>2 DEF w
  <2>4. file' = lines
    BY <1>8 DEF DumpReturn
  <2> HIDE DEF w, lines
  <2>5. /\ DOMAIN file' = 1..Len(file')
        /\ \A k \in 1..Len(file') : file'[k] = BadLine \/ IsLine(file'[k])
    BY <2>1, <2>3, <2>4 DEF w
  <2>6. snap' \in [Cells -> Byte] /\ dumped' \in BOOLEAN
    BY <1>8 DEF DumpReturn, TypeOK, TwiTypeOK
  <2>7. TwiTypeOK'
    BY <1>8 DEF DumpReturn, Bus, TypeOK, TwiTypeOK
  <2>8. /\ pc' \in {"off", "menu"} /\ cmd' = "none"
        /\ UNCHANGED <<todo, i2c_locals, polls, trouble, said, have, rom0>>
    BY <1>8 DEF DumpReturn
  <2> QED BY <1>s, <2>5, <2>6, <2>7, <2>8 DEF TypeOK
<1>9. CASE WriteReturn
  BY <1>0, <1>9 DEF WriteReturn, Stay, Bus, TypeOK, TwiTypeOK
<1>10. CASE CompareReturn
  BY <1>0, <1>10 DEF CompareReturn, Stay, Bus, TypeOK, TwiTypeOK
<1> QED BY <1>1, <1>2, <1>3, <1>4, <1>5, <1>6, <1>7, <1>8, <1>9, <1>10 DEF MenuNext

(* Every variable keeps its type.                                            *)
LEMMA TypesInductive == Init => TInv
<1> SUFFICES ASSUME Init PROVE TInv
  OBVIOUS
<1>0. /\ PollMax \in Nat \ {0} /\ FifoSize \in Nat \ {0} /\ RomSize \in Nat \ {0} /\ MaxFaults \in Nat
  BY TwiAssumption, I2cAssumption
<1>1. rom \in [Cells -> Byte] /\ rom0 \in [Cells -> Byte] /\ snap \in [Cells -> Byte]
  BY UtilsAssumption DEF Init
<1>2. <<>> \in Seq(Byte) /\ Len(<<>>) = 0
  OBVIOUS
<1>3. TwiTypeOK
  <2>1. rom_ptr \in Cells /\ twi_fifo \in Seq(Byte) /\ Len(twi_fifo) <= FifoSize
    BY <1>0, <1>2 DEF Init, TwiInit, Cells
  <2> QED BY <1>0, <1>1, <2>1 DEF Init, TwiInit, TwiTypeOK
<1>4. DOMAIN file = 1 .. Len(file) /\ \A k \in 1 .. Len(file) : file[k] = BadLine \/ IsLine(file[k])
  BY UtilsAssumption DEF Init
<1>5. /\ offset \in Nat /\ length \in Nat /\ total \in Nat /\ tlen \in 0 .. FifoSize
      /\ err \in BOOLEAN /\ polls \in 0 .. PollMax /\ quiet \in BOOLEAN /\ trouble \in BOOLEAN
      /\ have \in BOOLEAN /\ dumped \in BOOLEAN
      /\ cmd \in {"none", "screen", "dump", "write", "compare"}
      /\ said \in {"none", "written", "error", "same", "differs"}
  <2>1. /\ offset = 0 /\ length = 0 /\ total = 0 /\ tlen = 0 /\ polls = 0
        /\ err = FALSE /\ quiet = TRUE /\ trouble = FALSE /\ dumped = FALSE /\ have \in BOOLEAN
        /\ cmd = "none" /\ said = "none"
    BY DEF Init
  <2>2. 0 \in Nat /\ 0 \in 0 .. FifoSize /\ 0 \in 0 .. PollMax
    BY <1>0
  <2>3. have \in BOOLEAN /\ dumped \in BOOLEAN /\ err \in BOOLEAN /\ quiet \in BOOLEAN /\ trouble \in BOOLEAN
    BY <2>1, Zenon
  <2> QED BY <2>1, <2>2, <2>3
<1>6. buf \in Seq(Byte) /\ wdata \in Seq(Byte)
  BY <1>2 DEF Init
<1>7. todo \in 0 .. MaxCommands
  BY UtilsAssumption DEF Init
<1>8. pc = "off" /\ pc \in ReadPcs \cup WritePcs \cup {"off", "menu", "ret"}
  BY DEF Init
<1>9. TypeOK
  BY <1>1, <1>3, <1>4, <1>5, <1>6, <1>7, <1>8 DEF TypeOK
<1>10. Polling /\ WriteCount
  BY <1>8 DEF Polling, WriteCount, WritePcs
<1> QED BY <1>9, <1>10 DEF TInv

(* The steps of the specification, by who makes them.                        *)
LEMMA WhoSteps ==
  Next => \/ UNCHANGED <<util_vars, faults>>
               /\ (RdSetup \/ RdIdle \/ RdClear \/ RdAddr \/ RdPoll \/ RdMode
                     \/ RdBlock \/ RdBlockPoll \/ RdFifo)
          \/ UNCHANGED <<util_vars, faults>>
               /\ (WrSetup \/ WrIdle \/ WrBlock \/ WrAddr \/ WrPoll)
          \/ MenuNext
          \/ TwiNext /\ UNCHANGED <<i2c_vars, util_vars>>
  BY DEF Next, Program, I2cNext, MenuNext, util_vars

(* ... also in a step.                                                       *)
LEMMA TypesStep == TInv /\ [Next]_vars => TInv'
<1> SUFFICES ASSUME TInv, [Next]_vars PROVE TInv'
  OBVIOUS
<1>1. CASE TwiNext /\ UNCHANGED <<i2c_vars, util_vars>>
  <2>1. TypeOK'
    BY <1>1, TwiTypesStep DEF TInv
  <2> QED BY <1>1, <2>1 DEF TInv, Polling, WriteCount, i2c_vars, i2c_locals
<1>2. CASE UNCHANGED vars
  <2>1. TwiTypeOK'
    BY <1>2 DEF TInv, TypeOK, TwiTypeOK, vars, twi_vars, rom_vars
  <2> QED BY <1>2, <2>1 DEF TInv, TypeOK, Polling, WriteCount, vars, i2c_vars, i2c_locals, util_vars
<1> QED BY <1>1, <1>2, WhoSteps, ReadTypesStep, WriteTypesStep, MenuTypesStep

(* Every variable keeps its type, whatever the bus does and whenever the     *)
(* program is interrupted: no polling loop counts below zero, the FIFO never *)
(* holds more than it can and i2c_write never reads past its argument.       *)
THEOREM TypesHold == Spec => []TypeOK
<1>1. Spec => []TInv
  BY TypesInductive, TypesStep, PTL DEF Spec
<1> QED BY <1>1, PTL DEF TInv
-----------------------------------------------------------------------------
\* What a call in calm conditions has done so far.

Reading == cmd \in {"screen", "dump", "compare"}

(* Which command the program is in, and when the user sees an outcome.       *)
Places ==
  /\ pc \in ReadPcs => Reading
  /\ pc \in WritePcs => cmd = "write"
  /\ pc = "ret" => cmd # "none"
  /\ pc = "menu" => cmd = "none"
  /\ cmd # "none" \/ pc = "off" => said = "none"

(* What is written or compared is the file, and a complete dump has what was *)
(* read when it was taken.                                                   *)
FileBytes ==
  /\ cmd = "dump" => have
  /\ cmd \in {"write", "compare"} \/ said # "none" \/ dumped => Readable
  /\ cmd = "write" \/ said = "written" => wdata = FileData
  /\ dumped => \A i \in 1..(RecSize * Len(file)) : FileData[i] = snap[(i - 1) % RomSize]

(* A transfer of this call: on the bus, at its end, refused; or none.        *)
Running == twi_xfer = twi_rw /\ twi_irt = {}
Ended == twi_xfer = "idle" /\ twi_irt = {"comp"}
Refused == twi_xfer = "idle" /\ "comp" \notin twi_irt
Resting == twi_xfer = "idle" /\ twi_irt = {} /\ twi_fifo = <<>>

(* s has the n bytes of the EEPROM that follow address "at".                 *)
Holds(s, n, at) == Len(s) = n /\ \A i \in 1..n : s[i] = rom[(at + i - 1) % RomSize]

ReadBegins == {"rd_setup", "rd_idle", "rd_clear", "rd_addr", "rd_poll", "rd_mode"}

(* The transfer of i2c_read, at each of its places.                          *)
ReadPlace ==
  /\ pc \in {"rd_setup", "rd_idle", "rd_clear", "rd_addr"} => twi_xfer = "idle"
  /\ pc \in {"rd_idle", "rd_clear"} => twi_rw = "wr" /\ twi_fifo = <<>>
  /\ pc = "rd_addr" => twi_rw = "wr" /\ twi_fifo = <<0>> /\ twi_irt = {}
  /\ pc = "rd_poll" =>
       /\ twi_rw = "wr"
       /\ \/ Running /\ twi_fifo = <<0>>
          \/ Ended /\ rom_ptr = 0
          \/ Refused
  /\ pc = "rd_mode" => twi_xfer = "idle" /\ twi_irt = {} /\ rom_ptr = 0
  /\ pc = "rd_block" => twi_rw = "rd" /\ Resting /\ rom_ptr = total % RomSize
  /\ pc = "rd_block_poll" =>
       /\ twi_rw = "rd" /\ twi_size = tlen
       /\ \/ Running /\ twi_fifo = <<>> /\ rom_ptr = total % RomSize
          \/ Ended /\ Holds(twi_fifo, tlen, total) /\ rom_ptr = (total + tlen) % RomSize
          \/ Refused
  /\ pc = "rd_fifo" =>
       /\ twi_rw = "rd" /\ twi_xfer = "idle" /\ twi_irt = {}
       /\ Holds(twi_fifo, tlen, total) /\ rom_ptr = (total + tlen) % RomSize
  /\ pc = "ret" => twi_xfer = "idle" /\ length = 0

ReadInv ==
  Calm /\ Reading =>
    /\ rom = rom0 /\ ~err /\ offset = 0 /\ pc \in ReadPcs \cup {"ret"}
    /\ Holds(buf, total, 0) /\ total + tlen + length = Wanted
    /\ pc \in ReadBegins => total = 0
    /\ pc \notin {"rd_block_poll", "rd_fifo"} => tlen = 0
    /\ ReadPlace

-----------------------------------------------------------------------------
\* i2c_read.

(* The EEPROM takes the address 0, or nothing of it.                         *)
LEMMA PointerTaken ==
  ASSUME TypeOK, twi_fifo = << 0 >>, NEW n \in 0 .. 1, TakeBytes(n)
  PROVE  rom' = rom /\ (n = 1 => rom_ptr' = 0)
<1>1. CASE n = 0
  BY <1>1 DEF TakeBytes, rom_vars
<1>2. CASE n = 1
  <2>1. SubSeq(twi_fifo, 2, 1) = <<>>
    <3>1. 2 \in Int /\ 1 \in Int /\ 1 < 2
      OBVIOUS
    <3> QED BY <3>1, SubSeqEmpty
  <2>2. RomSize \in Nat \ {0} /\ PageSize \in Nat \ {0}
    BY TwiAssumption
  <2>3. twi_fifo[1] % RomSize = 0 /\ 0 % PageSize = 0
    <3>1. 0 \in 0 .. RomSize - 1 /\ 0 \in 0 .. PageSize - 1
      BY <2>2
    <3> QED BY <2>2, <3>1, ModSmall
  <2>4. rom' = PageWrite(0, <<>>) /\ rom_ptr' = PageAddr(0, 0)
    <3> DEFINE data == SubSeq(twi_fifo, 2, n)
               at == twi_fifo[1] % RomSize
    <3>1. rom' = PageWrite(at, data) /\ rom_ptr' = PageAddr(at, Len(data))
      BY <1>2 DEF TakeBytes
    <3>2. at = 0 /\ data = <<>> /\ Len(<<>>) = 0
      BY <1>2, <2>1, <2>3
    <3> HIDE DEF data, at
    <3> QED BY <3>1, <3>2
  <2>5. PageAddr(0, 0) = 0
    BY <2>3 DEF PageAddr
  <2>6. PageWrite(0, <<>>) = [i \in Cells |-> rom[i]]
    BY DEF PageWrite
  <2> QED BY <2>4, <2>5, <2>6 DEF TypeOK, TwiTypeOK
<1> QED BY <1>1, <1>2

(* The bytes of a block, and the pointer behind it.                          *)
LEMMA BlockSent ==
  ASSUME TInv, twi_fifo = <<>>, rom_ptr = total % RomSize, SendBytes(tlen)
  PROVE  /\ rom' = rom /\ rom_ptr' = (total + tlen) % RomSize
         /\ Len(twi_fifo') = tlen
         /\ \A i \in 1 .. tlen : twi_fifo'[i] = rom[(total + i - 1) % RomSize]
<1>0. RomSize \in Nat \ {0} /\ total \in Nat /\ tlen \in Nat /\ tlen <= FifoSize
  BY TwiAssumption DEF TInv, TypeOK
<1>1. rom' = rom /\ rom_ptr' = ((total % RomSize) + tlen) % RomSize
  BY DEF SendBytes
<1>2. /\ Len(twi_fifo') = tlen
      /\ \A i \in 1 .. tlen : twi_fifo'[i] = rom[(rom_ptr + i - 1) % RomSize]
  BY <1>0, SendTypes DEF TInv
<1>3. \A b \in Int : ((total % RomSize) + b) % RomSize = (total + b) % RomSize
  <2>1. total \in Int
    BY <1>0
  <2> QED BY <1>0, <2>1, ModAdd
<1>4. ((total % RomSize) + tlen) % RomSize = (total + tlen) % RomSize
  <2>1. tlen \in Int
    BY <1>0
  <2> QED BY <1>3, <2>1, Zenon
<1>5. ASSUME NEW i \in 1 .. tlen
      PROVE  (rom_ptr + i - 1) % RomSize = (total + i - 1) % RomSize
  <2> DEFINE b == i - 1
             r == total % RomSize
  <2>1. b \in Int /\ r \in Int
    BY <1>0, <1>5, DivMod
  <2>2. (r + b) % RomSize = (total + b) % RomSize
    BY <1>3, <2>1
  <2>3. r + b = rom_ptr + i - 1 /\ total + b = total + i - 1
    BY <1>0, <2>1
  <2> QED BY <2>2, <2>3
<1> QED BY <1>1, <1>2, <1>4, <1>5

(* The transfer of i2c_read goes on.                                         *)
LEMMA ReadTransfer ==
  ASSUME TInv, ReadInv, TwiNext, UNCHANGED <<i2c_vars, util_vars>>
  PROVE  ReadInv'
<1> SUFFICES ASSUME Calm, Reading
             PROVE  ReadInv'
  BY DEF ReadInv, Calm, Reading, i2c_vars, i2c_locals, util_vars
<1>1. /\ rom = rom0 /\ ~err /\ offset = 0 /\ pc \in ReadPcs \cup {"ret"}
      /\ Holds(buf, total, 0) /\ total + tlen + length = Wanted
      /\ pc \in ReadBegins => total = 0
      /\ pc \notin {"rd_block_poll", "rd_fifo"} => tlen = 0
      /\ ReadPlace
  BY DEF ReadInv
<1>k. ASSUME rom' = rom, ReadPlace' PROVE ReadInv'
  BY <1>1, <1>k DEF ReadInv, Holds, Wanted, i2c_vars, i2c_locals, util_vars
<1>2. CASE twi_xfer = "idle"
  <2>1. RomReady
    BY <1>2 DEF TwiNext, TwiRuns, TransferDone, TransferMeetsBusy, TransferFails, TransferHeld
  <2> QED BY <1>1, <1>k, <2>1 DEF RomReady, ReadPlace, Running, Ended, Refused, Resting, Holds,
             twi_vars, i2c_vars, i2c_locals
<1>3. CASE twi_xfer # "idle" /\ (RomReady \/ TransferHeld)
  BY <1>1, <1>3, <1>k DEF RomReady, TransferHeld, ReadPlace, Running, Ended, Refused, Resting, Holds,
     twi_vars, rom_vars, i2c_vars, i2c_locals
<1>4. CASE twi_xfer # "idle" /\ ~ (RomReady \/ TransferHeld)
  <2>1. pc \in {"rd_poll", "rd_block_poll"} /\ twi_irt = {}
    BY <1>1, <1>4 DEF ReadPlace, ReadPcs, Running, Ended, Refused, Resting
  <2>2. CASE TransferMeetsBusy
    <3>1. rom' = rom /\ Refused' /\ twi_rw' = twi_rw /\ twi_size' = twi_size /\ pc' = pc
          /\ tlen' = tlen
      BY <2>1, <2>2 DEF TransferMeetsBusy, TransferEnds, Refused, rom_vars, i2c_vars, i2c_locals
    <3> QED BY <1>1, <1>k, <2>1, <3>1 DEF ReadPlace
  <2>3. CASE TransferFails
    <3>1. Refused' /\ twi_rw' = twi_rw /\ twi_size' = twi_size /\ pc' = pc /\ tlen' = tlen
      BY <2>1, <2>3 DEF TransferFails, TransferEnds, Refused, i2c_vars, i2c_locals
    <3>2. rom' = rom
      <4>1. CASE twi_xfer = "wr"
        <5>1. pc = "rd_poll" /\ twi_fifo = <<0>>
          BY <1>1, <2>1, <4>1 DEF ReadPlace, Running, Ended, Refused
        <5>2. PICK n \in 0 .. Len(twi_fifo) : TakeBytes(n)
          BY <2>3, <4>1 DEF TransferFails
        <5>3. n \in 0 .. 1
          BY <5>1, <5>2
        <5> QED BY <5>1, <5>2, <5>3, PointerTaken DEF TInv
      <4>2. CASE twi_xfer # "wr"
        BY <2>3, <4>2 DEF TransferFails, SendBytes
      <4> QED BY <4>1, <4>2
    <3> QED BY <1>1, <1>k, <2>1, <3>1, <3>2 DEF ReadPlace
  <2>4. CASE TransferDone
    <3>1. Ended' /\ twi_rw' = twi_rw /\ twi_size' = twi_size /\ pc' = pc /\ tlen' = tlen /\ total' = total
      BY <2>1, <2>4 DEF TransferDone, TransferEnds, Ended, i2c_vars, i2c_locals
    <3>2. CASE pc = "rd_poll"
      <4>1. twi_xfer = "wr" /\ twi_fifo = <<0>>
        BY <1>1, <1>4, <3>2 DEF ReadPlace, Running, Ended, Refused
      <4>2. TakeBytes(1)
        BY <2>4, <4>1 DEF TransferDone
      <4>3. rom' = rom /\ rom_ptr' = 0
        BY <4>1, <4>2, PointerTaken DEF TInv
      <4> QED BY <1>1, <1>k, <3>1, <3>2, <4>3 DEF ReadPlace
    <3>3. CASE pc = "rd_block_poll"
      <4>1. twi_xfer = "rd" /\ twi_fifo = <<>> /\ rom_ptr = total % RomSize /\ twi_size = tlen
        BY <1>1, <1>4, <3>3 DEF ReadPlace, Running, Ended, Refused
      <4>2. SendBytes(tlen)
        BY <2>4, <4>1 DEF TransferDone
      <4>3. rom' = rom /\ rom_ptr' = (total + tlen) % RomSize /\ Holds(twi_fifo, tlen, total)'
        BY <3>1, <4>1, <4>2, BlockSent DEF Holds
      <4> QED BY <1>1, <1>k, <3>1, <3>3, <4>3 DEF ReadPlace
    <3> QED BY <2>1, <3>2, <3>3
  <2> QED BY <1>4, <2>2, <2>3, <2>4 DEF TwiNext, TwiRuns
<1> QED BY <1>2, <1>3, <1>4

(* i2c_read goes on.                                                         *)
LEMMA ReadStep ==
  ASSUME TInv, ReadInv, UNCHANGED <<util_vars, faults>>,
         RdSetup \/ RdIdle \/ RdClear \/ RdAddr \/ RdPoll \/ RdMode
           \/ RdBlock \/ RdBlockPoll \/ RdFifo
  PROVE  ReadInv'
<1> DEFINE Acts == RdSetup \/ RdIdle \/ RdClear \/ RdAddr \/ RdPoll \/ RdMode
                     \/ RdBlock \/ RdBlockPoll \/ RdFifo
<1>0. rom' = rom /\ rom0' = rom0 /\ Wanted' = Wanted /\ quiet' = quiet /\ offset' = offset
      /\ (trouble' = trouble \/ trouble' = TRUE)
  <2>1. rom' = rom /\ quiet' = quiet /\ offset' = offset /\ (trouble' = trouble \/ trouble' = TRUE)
    BY DEF RdSetup, RdIdle, RdClear, RdAddr, RdPoll, RdMode, RdBlock, RdBlockPoll, RdFifo, Turn,
           i2c_locals, rom_vars
  <2> QED BY <2>1 DEF util_vars, Wanted
<1> SUFFICES ASSUME Calm', Reading PROVE ReadInv'
  BY DEF ReadInv, Reading, util_vars
<1>c. Calm /\ trouble' # TRUE /\ trouble' = trouble
  <2>1. trouble' # TRUE /\ quiet'
    BY Zenon DEF Calm
  <2>2. trouble' = trouble /\ quiet' = quiet
    BY <1>0, <2>1
  <2> QED BY <2>1, <2>2, Zenon DEF Calm
<1>1. /\ rom = rom0 /\ ~err /\ offset = 0
      /\ Holds(buf, total, 0) /\ total + tlen + length = Wanted
      /\ pc \in ReadBegins => total = 0
      /\ pc \notin {"rd_block_poll", "rd_fifo"} => tlen = 0
      /\ ReadPlace
  BY <1>c DEF ReadInv
<1>k. ASSUME pc' \in ReadBegins, UNCHANGED <<total, tlen, length, err, buf>>, ReadPlace', pc \in ReadBegins
      PROVE  ReadInv'
  <2>1. rom' = rom0' /\ err' = FALSE /\ offset' = 0
    <3>1. err = FALSE
      BY <1>1 DEF TInv, TypeOK
    <3> QED BY <1>0, <1>1, <1>k, <3>1
  <2>2. Holds(buf, total, 0)'
    BY <1>0, <1>1, <1>k DEF Holds
  <2>3. total' + tlen' + length' = Wanted'
    BY <1>0, <1>1, <1>k
  <2>4. total' = 0 /\ tlen' = 0
    BY <1>1, <1>k DEF ReadBegins
  <2>5. pc' \in ReadPcs
    BY <1>k DEF ReadBegins, ReadPcs
  <2> QED BY <1>k, <2>1, <2>2, <2>3, <2>4, <2>5 DEF ReadInv
<1>2. CASE RdSetup
  <2>1. ReadPlace'
    BY <1>1, <1>2 DEF RdSetup, GoTo, SetMode, ReadPlace
  <2> QED BY <1>k, <1>2, <2>1 DEF RdSetup, GoTo, i2c_locals, ReadBegins
<1>3. CASE RdIdle
  <2>1. pc' = "rd_clear" /\ pc = "rd_idle" /\ UNCHANGED twi_vars
    BY <1>1, <1>3 DEF RdIdle, ReadPlace
  <2>2. ReadPlace'
    BY <1>1, <2>1 DEF ReadPlace, twi_vars
  <2> QED BY <1>k, <1>3, <2>1, <2>2 DEF RdIdle, i2c_locals, ReadBegins
<1>4. CASE RdClear
  <2>1. twi_fifo' = <<0>>
    <3>1. twi_fifo = <<>> /\ offset % Base = 0
      <4>1. Base \in Nat \ {0} /\ 0 \in 0 .. Base - 1
        BY TwiAssumption
      <4>2. 0 % Base = 0
        BY <4>1, ModSmall
      <4>3. twi_fifo = <<>> /\ offset = 0
        BY <1>1, <1>4 DEF RdClear, GoTo, ReadPlace
      <4> QED BY <4>2, <4>3
    <3> DEFINE s == <<0>>
    <3>2. twi_fifo' = Fitting(<<>> \o s)
      BY <1>4, <3>1 DEF RdClear, Push
    <3>3. s \in Seq(Byte) /\ Len(s) <= FifoSize
      BY TwiAssumption DEF Byte
    <3> HIDE DEF s
    <3>4. <<>> \o s = s
      BY <3>3, ConcatEmptySeq
    <3>5. Fitting(s) = s
      BY <3>3, FittingType
    <3> QED BY <3>2, <3>4, <3>5 DEF s
  <2>2. ReadPlace'
    BY <1>1, <1>4, <2>1 DEF RdClear, GoTo, ClearStale, ReadIrt, ReadPlace
  <2> QED BY <1>k, <1>4, <2>2 DEF RdClear, GoTo, i2c_locals, ReadBegins
<1>5. CASE RdAddr
  <2>0. /\ pc' = "rd_poll" /\ twi_rw = "wr" /\ twi_rw' = twi_rw /\ twi_xfer' = twi_rw
        /\ twi_irt' = {} /\ twi_fifo' = <<0>>
    BY <1>1, <1>5 DEF RdAddr, GoTo, StartTransfer, ReadPlace
  <2>1. ReadPlace'
    <3>1. (twi_rw = "wr" /\ Running /\ twi_fifo = <<0>>)'
      BY <2>0 DEF Running
    <3>2. /\ pc' \notin {"rd_setup", "rd_idle", "rd_clear", "rd_addr"} /\ pc' \notin {"rd_idle", "rd_clear"}
          /\ pc' # "rd_addr" /\ pc' # "rd_mode" /\ pc' # "rd_block" /\ pc' # "rd_block_poll"
          /\ pc' # "rd_fifo" /\ pc' # "ret"
      BY <2>0
    <3> QED BY <3>1, <3>2, Zenon DEF ReadPlace
  <2> QED BY <1>k, <1>5, <2>1 DEF RdAddr, GoTo, i2c_locals, ReadBegins
<1>6. CASE RdPoll
  <2>1. CASE "comp" \in twi_irt /\ pc' = "rd_mode"
    <3>1. Ended /\ rom_ptr = 0
      BY <1>1, <1>6, <2>1 DEF RdPoll, ReadPlace, Running, Refused
    <3>2. ReadPlace'
      BY <1>6, <2>1, <3>1 DEF RdPoll, ReadIrt, ReadPlace, Ended, rom_vars
    <3> QED BY <1>k, <1>6, <2>1, <3>2 DEF RdPoll, i2c_locals, ReadBegins
  <2>2. CASE twi_irt = {"fail"} /\ pc' = "off" /\ trouble' = TRUE
    <3>1. FALSE
      BY <1>c, <2>2
    <3> QED BY <3>1
  <2>3. CASE twi_irt = {} /\ Turn("off")
    <3>1. pc' = pc
      BY <1>c, <1>6, <2>3, TurnTypes DEF TInv, Polling, RdPoll
    <3>2. ReadPlace'
      BY <1>1, <1>6, <2>3, <3>1 DEF RdPoll, ReadIrt, ReadPlace, Running, Ended, Refused, rom_vars
    <3> QED BY <1>k, <1>6, <3>1, <3>2 DEF RdPoll, i2c_locals, ReadBegins
  <2> QED BY <1>6, <2>1, <2>2, <2>3 DEF RdPoll
<1>7. CASE RdMode
  <2>1. ReadPlace'
    <3>1. RomSize \in Nat \ {0} /\ 0 \in 0 .. RomSize - 1
      BY TwiAssumption
    <3>2. 0 % RomSize = 0
      BY <3>1, ModSmall
    <3>3. total = 0
      BY <1>1, <1>7 DEF RdMode, GoTo, ReadBegins
    <3> QED BY <1>1, <1>7, <3>2, <3>3 DEF RdMode, GoTo, SetMode, ReadPlace, Resting, i2c_locals, rom_vars
  <2> QED BY <1>0, <1>1, <1>7, <2>1 DEF ReadInv, RdMode, GoTo, i2c_locals, ReadBegins, Holds, ReadPcs
<1>8. CASE RdBlock
  <2>0. pc = "rd_block" /\ tlen = 0
    BY <1>1, <1>8 DEF RdBlock
  <2>1. CASE length > 0 /\ tlen' = ChunkLen /\ length' = length - tlen' /\ twi_size' = tlen'
               /\ StartTransfer /\ pc' = "rd_block_poll"
    <3>1. ReadPlace'
      BY <1>1, <1>8, <2>0, <2>1 DEF RdBlock, StartTransfer, ReadPlace, Running, Resting, rom_vars
    <3>2. total' + tlen' + length' = Wanted
      <4>1. total \in Nat /\ length \in Nat /\ tlen' \in Nat /\ total' = total
        BY <1>8, <2>1, TwiAssumption DEF RdBlock, ChunkLen, TInv, TypeOK
      <4>2. total + 0 + length = Wanted /\ length' = length - tlen'
        BY <1>1, <2>0, <2>1
      <4> QED BY <4>1, <4>2
    <3> QED BY <1>0, <1>1, <1>8, <2>1, <3>1, <3>2 DEF RdBlock, ReadInv, ReadBegins, Holds, ReadPcs
  <2>2. CASE (length = 0 \/ err) /\ pc' = "ret" /\ UNCHANGED <<tlen, length, twi_size, twi_xfer, twi_held, polls>>
    <3>1. ReadPlace'
      BY <1>1, <2>0, <2>2 DEF ReadPlace, Resting
    <3> QED BY <1>0, <1>1, <1>8, <2>0, <2>2, <3>1 DEF RdBlock, ReadInv, ReadBegins, Holds, ReadPcs
  <2> QED BY <1>8, <2>1, <2>2 DEF RdBlock
<1>9. CASE RdBlockPoll
  <2>1. CASE "comp" \in twi_irt /\ pc' = "rd_fifo" /\ UNCHANGED <<polls, trouble, err>>
    <3>1. Ended /\ Holds(twi_fifo, tlen, total) /\ rom_ptr = (total + tlen) % RomSize /\ twi_rw = "rd"
      BY <1>1, <1>9, <2>1 DEF RdBlockPoll, ReadPlace, Running, Refused
    <3>2. ReadPlace'
      BY <1>0, <1>9, <2>1, <3>1 DEF RdBlockPoll, ReadIrt, ReadPlace, Ended, Holds, rom_vars
    <3> QED BY <1>0, <1>1, <1>9, <2>1, <3>2 DEF RdBlockPoll, ReadInv, ReadBegins, Holds, ReadPcs
  <2>2. CASE "comp" \notin twi_irt /\ Turn("rd_fifo") /\ err' = (polls = 1)
    <3>1. pc' = pc /\ polls # 1
      BY <1>c, <1>9, <2>2, TurnTypes DEF TInv, Polling, RdBlockPoll
    <3>2. ReadPlace'
      BY <1>0, <1>1, <1>9, <2>2, <3>1 DEF RdBlockPoll, ReadIrt, ReadPlace, Running, Ended, Refused, Holds, rom_vars
    <3>3. ~ err'
      BY <2>2, <3>1
    <3> QED BY <1>0, <1>1, <1>9, <3>1, <3>2, <3>3 DEF RdBlockPoll, ReadInv, ReadBegins, Holds, ReadPcs
  <2> QED BY <1>9, <2>1, <2>2 DEF RdBlockPoll
<1>10. CASE RdFifo
  <2>0. /\ tlen \in Nat /\ total \in Nat /\ length \in Nat /\ twi_fifo \in Seq(Byte) /\ buf \in Seq(Byte)
        /\ Len(twi_fifo) <= FifoSize
    BY TwiAssumption DEF TInv, TypeOK, TwiTypeOK
  <2>1. /\ Holds(twi_fifo, tlen, total) /\ rom_ptr = (total + tlen) % RomSize /\ twi_rw = "rd"
        /\ twi_xfer = "idle" /\ twi_irt = {}
    BY <1>1, <1>10 DEF RdFifo, GoTo, ReadPlace
  <2>2. twi_fifo' = <<>>
    <3>1. Len(twi_fifo) <= tlen
      BY <2>0, <2>1 DEF Holds
    <3>2. twi_fifo' = SubSeq(twi_fifo, tlen + 1, Len(twi_fifo))
      BY <1>10 DEF RdFifo
    <3> QED BY <2>0, <3>1, <3>2, RestType
  <2>3. buf' = buf \o twi_fifo
    <3> DEFINE new == [i \in 1..tlen |-> IF i <= Len(twi_fifo) THEN twi_fifo[i] ELSE Junk]
    <3>1. new \in [1 .. tlen -> Byte] /\ \A i \in 1 .. tlen : new[i] = twi_fifo[i]
      BY <2>0, <2>1, ElementOfSeq DEF Holds
    <3>2. buf' = buf \o new
      BY <1>10 DEF RdFifo
    <3> HIDE DEF new
    <3>3. new \in Seq(Byte) /\ Len(new) = tlen
      BY <2>0, <3>1, SeqDef
    <3>4. new = twi_fifo
      BY <2>0, <2>1, <3>1, <3>3, SeqEqual DEF Holds
    <3> QED BY <3>2, <3>4
  <2>4. total' = total + tlen /\ tlen' = 0 /\ length' = length /\ err' = err /\ pc' = "rd_block"
        /\ twi_rw' = twi_rw /\ twi_xfer' = twi_xfer /\ twi_irt' = twi_irt /\ rom_ptr' = rom_ptr
    BY <1>10 DEF RdFifo, GoTo, rom_vars
  <2>5. Holds(buf, total, 0)'
    <3>1. /\ Len(buf) = total /\ Len(twi_fifo) = tlen
          /\ \A i \in 1 .. total : buf[i] = rom[(0 + i - 1) % RomSize]
          /\ \A i \in 1 .. tlen : twi_fifo[i] = rom[(total + i - 1) % RomSize]
      BY <1>1, <2>1 DEF Holds
    <3>2. /\ Len(buf \o twi_fifo) = total + tlen
          /\ \A i \in 1 .. total + tlen : (buf \o twi_fifo)[i] =
                IF i <= total THEN buf[i] ELSE twi_fifo[i - total]
      <4>1. buf \in Seq(Byte) /\ twi_fifo \in Seq(Byte) /\ Len(buf) = total /\ Len(twi_fifo) = tlen
        BY <2>0, <3>1
      <4>2. /\ Len(buf \o twi_fifo) = Len(buf) + Len(twi_fifo)
            /\ \A i \in 1 .. Len(buf) + Len(twi_fifo) : (buf \o twi_fifo)[i] =
                  IF i <= Len(buf) THEN buf[i] ELSE twi_fifo[i - Len(buf)]
        BY <4>1, ConcatProperties, Zenon
      <4> QED BY <4>1, <4>2
    <3>3. ASSUME NEW i \in 1 .. total + tlen PROVE (buf \o twi_fifo)[i] = rom[(0 + i - 1) % RomSize]
      <4>1. CASE i <= total
        <5>1. i \in 1 .. total
          BY <2>0, <4>1
        <5> QED BY <3>1, <3>2, <4>1, <5>1
      <4>2. CASE ~ (i <= total)
        <5>1. i - total \in 1 .. tlen /\ total + (i - total) - 1 = 0 + i - 1
          BY <2>0, <4>2
        <5> QED BY <3>1, <3>2, <4>2, <5>1
      <4> QED BY <4>1, <4>2
    <3> QED BY <1>0, <2>3, <2>4, <3>2, <3>3 DEF Holds
  <2>6. ReadPlace'
    <3>1. (total + tlen) = total'
      BY <2>4
    <3> QED BY <2>1, <2>2, <2>4, <3>1 DEF ReadPlace, Resting
  <2>7. total' + tlen' + length' = Wanted
    BY <1>1, <2>0, <2>4
  <2> QED BY <1>0, <1>1, <2>4, <2>5, <2>6, <2>7 DEF ReadInv, ReadBegins, ReadPcs
<1> QED BY <1>2, <1>3, <1>4, <1>5, <1>6, <1>7, <1>8, <1>9, <1>10


-----------------------------------------------------------------------------
\* What a call of i2c_write has done so far.

(* The places, counted from 1, of the first t bytes of the file that go to   *)
(* cell i; the first t bytes of the file are in the EEPROM.                  *)
Hits(i, t) == {j \in 1..t : (j - 1) % RomSize = i}
Written(t) ==
  \A i \in Cells :
    \/ Hits(i, t) = {} /\ rom[i] = rom0[i]
    \/ \E j \in Hits(i, t) : (\A k \in Hits(i, t) : k <= j) /\ rom[i] = wdata[j]

(* The FIFO holds an address and the n bytes of the file from the t-th on,   *)
(* which do not go over the end of a page.                                   *)
Block(t, n) ==
  /\ n \in 1..Burst /\ t + n <= Len(wdata)
  /\ (t % PageSize) + n <= PageSize
  /\ Len(twi_fifo) = n + 1 /\ twi_fifo[1] = t % Base
  /\ \A i \in 1..n : twi_fifo[i + 1] = wdata[t + i]

(* The bytes counted last are in the FIFO, the others in the EEPROM.         *)
Loaded ==
  \E n \in 1..Burst : /\ n <= total /\ Block(total - n, n) /\ Written(total - n)
                      /\ total > n => ~rom_busy

(* The transfer of i2c_write, at each of its places.                         *)
WritePlace ==
  /\ pc \in {"wr_setup", "wr_idle", "wr_block", "wr_addr"} => twi_xfer = "idle"
  /\ pc = "wr_idle" => twi_rw = "wr" /\ Resting
  /\ pc = "wr_block" => twi_rw = "wr" /\ Resting /\ Written(total) /\ (total > 0 => ~rom_busy)
  /\ pc = "wr_addr" => twi_rw = "wr" /\ twi_irt = {} /\ Loaded
  /\ pc = "wr_poll" =>
       /\ twi_rw = "wr"
       /\ \/ Running /\ Loaded
          \/ Ended /\ Written(total) /\ twi_fifo = <<>>
          \/ Refused
  /\ pc = "ret" => twi_xfer = "idle" /\ length = 0 /\ Written(total)

WriteInv ==
  Calm /\ cmd = "write" =>
    /\ pc \in WritePcs \cup {"ret"}
    /\ offset = total /\ total + length = Len(wdata)
    /\ pc \in {"wr_setup", "wr_idle"} => total = 0 /\ rom = rom0
    /\ WritePlace

-----------------------------------------------------------------------------
\* i2c_write.

(* Before the first block nothing is written.                                *)
LEMMA NoneWritten == rom = rom0 => Written(0)
<1>1. \A i \in Cells : Hits(i, 0) = {}
  BY DEF Hits
<1> QED BY <1>1 DEF Written

(* No two bytes of a block go to the same cell.                              *)
LEMMA BlockApart ==
  ASSUME NEW t \in Nat, NEW n \in Nat, Block(t, n)
  PROVE  \A j, k \in 1 .. n : j < k => (t + j - 1) % RomSize # (t + k - 1) % RomSize
<1> SUFFICES ASSUME NEW j \in 1 .. n, NEW k \in 1 .. n, j < k
             PROVE  (t + j - 1) % RomSize # (t + k - 1) % RomSize
  BY Zenon
<1>1. RomSize \in Nat \ {0} /\ PageSize \in Nat \ {0} /\ PageSize <= RomSize
  BY TwiAssumption, I2cAssumption
<1>2. n <= PageSize
  <2>1. (t % PageSize) + n <= PageSize /\ t % PageSize \in 0 .. PageSize - 1
    BY <1>1, DivMod DEF Block
  <2> QED BY <1>1, <2>1
<1> DEFINE a == t + j - 1
           d == k - j
<1>3. a \in Int /\ d \in 1 .. RomSize - 1 /\ a + d = t + k - 1
  BY <1>1, <1>2
<1> HIDE DEF a, d
<1>4. (a + d) % RomSize # a % RomSize
  BY <1>1, <1>3, ModApart
<1> QED BY <1>3, <1>4 DEF a

(* A block that the EEPROM takes reaches the cells of its addresses, and no  *)
(* other: the pointer does not roll over inside the page.                    *)
LEMMA BlockWritten ==
  ASSUME TypeOK, NEW t \in Nat, NEW n \in Nat, Block(t, n), TakeBytes(n + 1)
  PROVE  /\ \A j \in 1 .. n : rom'[(t + j - 1) % RomSize] = wdata[t + j]
         /\ \A i \in Cells : (\A j \in 1 .. n : (t + j - 1) % RomSize # i) => rom'[i] = rom[i]
         /\ twi_fifo' = <<>>
<1>0. /\ RomSize \in Nat \ {0} /\ PageSize \in Nat \ {0} /\ PageSize <= RomSize
      /\ twi_fifo \in Seq(Byte) /\ n \in 1 .. Burst /\ Len(twi_fifo) = n + 1
      /\ Len(twi_fifo) <= FifoSize
  BY TwiAssumption, I2cAssumption DEF TypeOK, TwiTypeOK, Block
<1> DEFINE data == SubSeq(twi_fifo, 2, n + 1)
           at == twi_fifo[1] % RomSize
<1>1. Len(data) = n /\ \A j \in 1 .. n : data[j] = wdata[t + j]
  <2>1. 2 \in Int /\ n + 1 \in Int /\ \A i \in 2 .. n + 1 : twi_fifo[i] \in Byte
    BY <1>0, ElementOfSeq
  <2>2. /\ Len(data) = IF 2 <= n + 1 THEN n + 1 - 2 + 1 ELSE 0
        /\ \A j \in 1 .. n + 1 - 2 + 1 : data[j] = twi_fifo[2 + j - 1]
    BY <2>1, SubSeqProperties
  <2> HIDE DEF data
  <2>3. Len(data) = n
    BY <1>0, <2>2
  <2>4. ASSUME NEW j \in 1 .. n PROVE data[j] = wdata[t + j]
    <3>1. j \in 1 .. n + 1 - 2 + 1 /\ 2 + j - 1 = j + 1
      BY <1>0
    <3>2. data[j] = twi_fifo[j + 1]
      BY <2>2, <3>1
    <3> QED BY <3>2 DEF Block
  <2> QED BY <2>3, <2>4
<1>2. rom' = PageWrite(at, data)
  BY <1>0 DEF TakeBytes
<1>3. at = (t % Base) % RomSize
  BY DEF Block
<1>4. \A j \in 1 .. n : PageAddr(at, j - 1) = (t + j - 1) % RomSize
  <2> SUFFICES ASSUME NEW j \in 1 .. n PROVE PageAddr(at, j - 1) = (t + j - 1) % RomSize
    OBVIOUS
  <2>1. (t % PageSize) + n <= PageSize /\ t % PageSize \in Int
    BY <1>0, DivMod DEF Block
  <2>2. j - 1 \in Nat /\ (t % PageSize) + (j - 1) < PageSize /\ t + (j - 1) = t + j - 1
    <3> HIDE DEF at
    <3> QED BY <1>0, <2>1
  <2>3. PageAddr((t % Base) % RomSize, j - 1) = (t + (j - 1)) % RomSize
    BY <2>2, PageCell
  <2> QED BY <1>3, <2>2, <2>3
<1>5. \A j, k \in 1 .. n : j < k => (t + j - 1) % RomSize # (t + k - 1) % RomSize
  BY BlockApart
<1> HIDE DEF data, at
<1>6. ASSUME NEW j \in 1 .. n
      PROVE  rom'[(t + j - 1) % RomSize] = wdata[t + j]
  <2> DEFINE i == (t + j - 1) % RomSize
             P(m) == /\ PageAddr(at, m - 1) = i
                     /\ \A k \in (m + 1) .. Len(data) : PageAddr(at, k - 1) # i
  <2>1. i \in Cells
    <3>1. t + j - 1 \in Int
      OBVIOUS
    <3> QED BY <3>1, CellTypes
  <2>2. PageAddr(at, j - 1) = i
    BY <1>4
  <2>3. \A m \in 1 .. n : PageAddr(at, m - 1) = i => m = j
    <3> SUFFICES ASSUME NEW m \in 1 .. n, PageAddr(at, m - 1) = i, m # j PROVE FALSE
      OBVIOUS
    <3>1. (t + m - 1) % RomSize = (t + j - 1) % RomSize
      BY <1>4
    <3>2. m < j \/ j < m
      BY <1>0
    <3> QED BY <1>5, <3>1, <3>2
  <2>4. P(j)
    <3>1. ASSUME NEW k \in (j + 1) .. n, PageAddr(at, k - 1) = i PROVE FALSE
      <4>1. k \in 1 .. n /\ k # j
        BY <1>0, <3>1
      <4> QED BY <2>3, <3>1, <4>1
    <3> QED BY <1>1, <2>2, <3>1
  <2>5. \A m \in 1 .. n : P(m) => m = j
    BY <2>3
  <2>6. rom'[i] = data[CHOOSE m \in 1 .. Len(data) : P(m)]
    <3> HIDE DEF i
    <3> QED BY <1>1, <1>2, <2>1, <2>2 DEF PageWrite
  <2> HIDE DEF P, i
  <2>7. (CHOOSE m \in 1 .. n : P(m)) = j
    BY <2>4, <2>5
  <2>8. rom'[i] = data[j]
    BY <1>1, <2>6, <2>7
  <2> QED BY <1>1, <2>8 DEF i
<1>7. ASSUME NEW i \in Cells, \A j \in 1 .. n : (t + j - 1) % RomSize # i
      PROVE  rom'[i] = rom[i]
  <2>1. ~ \E j \in 1 .. Len(data) : PageAddr(at, j - 1) = i
    BY <1>1, <1>4, <1>7
  <2> QED BY <1>2, <2>1 DEF PageWrite
<1>8. twi_fifo' = <<>>
  <2>1. twi_fifo' = SubSeq(twi_fifo, (n + 1) + 1, Len(twi_fifo))
    BY DEF TakeBytes
  <2>2. n + 1 \in Nat /\ Len(twi_fifo) <= n + 1
    BY <1>0
  <2> QED BY <1>0, <2>1, <2>2, RestType
<1> QED BY <1>6, <1>7, <1>8

(* ... so that it is written behind the bytes before it.                     *)
LEMMA MoreWritten ==
  ASSUME TypeOK, NEW t \in Nat, NEW n \in Nat, Block(t, n), Written(t), TakeBytes(n + 1)
  PROVE  \A i \in Cells :
           \/ Hits(i, t + n) = {} /\ rom'[i] = rom0[i]
           \/ \E j \in Hits(i, t + n) : (\A k \in Hits(i, t + n) : k <= j) /\ rom'[i] = wdata[j]
<1> SUFFICES ASSUME NEW i \in Cells
             PROVE  \/ Hits(i, t + n) = {} /\ rom'[i] = rom0[i]
                    \/ \E j \in Hits(i, t + n) : /\ \A k \in Hits(i, t + n) : k <= j
                                                 /\ rom'[i] = wdata[j]
  OBVIOUS
<1>0. /\ \A j \in 1 .. n : rom'[(t + j - 1) % RomSize] = wdata[t + j]
      /\ (\A j \in 1 .. n : (t + j - 1) % RomSize # i) => rom'[i] = rom[i]
      /\ \A j, k \in 1 .. n : j < k => (t + j - 1) % RomSize # (t + k - 1) % RomSize
  <2>1. \A j, k \in 1 .. n : j < k => (t + j - 1) % RomSize # (t + k - 1) % RomSize
    BY BlockApart, Zenon
  <2>2. /\ \A j \in 1 .. n : rom'[(t + j - 1) % RomSize] = wdata[t + j]
        /\ \A c \in Cells : (\A j \in 1 .. n : (t + j - 1) % RomSize # c) => rom'[c] = rom[c]
    BY BlockWritten, Zenon
  <2> QED BY <2>1, <2>2, Zenon
<1>1. CASE \E j \in 1 .. n : (t + j - 1) % RomSize = i
  <2>1. PICK j \in 1 .. n : (t + j - 1) % RomSize = i
    BY <1>1
  <2>2. t + j \in Hits(i, t + n) /\ rom'[i] = wdata[t + j]
    BY <1>0, <2>1 DEF Hits
  <2>3. ASSUME NEW k \in Hits(i, t + n) PROVE k <= t + j
    <3> SUFFICES ASSUME k > t + j PROVE FALSE
      BY <2>3 DEF Hits
    <3> DEFINE m == k - t
    <3>1. k \in 1 .. t + n /\ (k - 1) % RomSize = i
      BY <2>3 DEF Hits
    <3>2. m \in 1 .. n /\ j < m /\ t + m - 1 = k - 1
      BY <3>1
    <3> HIDE DEF m
    <3>3. (t + m - 1) % RomSize = i
      BY <3>1, <3>2
    <3> QED BY <1>0, <2>1, <3>2, <3>3
  <2> QED BY <2>2, <2>3
<1>2. CASE ~ \E j \in 1 .. n : (t + j - 1) % RomSize = i
  <2>1. rom'[i] = rom[i]
    BY <1>0, <1>2
  <2>2. Hits(i, t + n) = Hits(i, t)
    <3>1. ASSUME NEW k \in 1 .. t + n, (k - 1) % RomSize = i PROVE k <= t
      <4> SUFFICES ASSUME k > t PROVE FALSE
        BY <3>1
      <4> DEFINE m == k - t
      <4>1. m \in 1 .. n /\ t + m - 1 = k - 1
        BY <3>1
      <4> HIDE DEF m
      <4> QED BY <1>2, <3>1, <4>1
    <3> QED BY <3>1 DEF Hits
  <2> QED BY <2>1, <2>2 DEF Written
<1> QED BY <1>1, <1>2

(* What is written stays, and so does what is loaded.                        *)
LEMMA WrittenKept ==
  ASSUME UNCHANGED <<rom, rom0, wdata, total>>
  PROVE  /\ \A t \in Nat : Written(t) => Written(t)'
         /\ Written(total) => Written(total)'
  BY DEF Written

LEMMA LoadedKept ==
  ASSUME Loaded, UNCHANGED <<rom, rom0, wdata, total, twi_fifo>>,
         rom_busy' = rom_busy \/ rom_busy' = FALSE
  PROVE  Loaded'
<1>1. PICK n \in 1 .. Burst : /\ n <= total /\ Block(total - n, n) /\ Written(total - n)
                              /\ total > n => ~ rom_busy
  BY DEF Loaded
<1>2. n <= total' /\ Block(total - n, n)' /\ Written(total - n)'
  BY <1>1 DEF Block, Written
<1>3. total' > n => ~ rom_busy'
  BY <1>1
<1> QED BY <1>2, <1>3, Zenon DEF Loaded

(* The transfer of i2c_write goes on.                                        *)
LEMMA WriteTransfer ==
  ASSUME TInv, WriteInv, TwiNext, UNCHANGED <<i2c_vars, util_vars>>
  PROVE  WriteInv'
<1> SUFFICES ASSUME Calm, cmd = "write"
             PROVE  WriteInv'
  BY DEF WriteInv, Calm, i2c_vars, i2c_locals, util_vars
<1>1. /\ pc \in WritePcs \cup {"ret"}
      /\ offset = total /\ total + length = Len(wdata)
      /\ pc \in {"wr_setup", "wr_idle"} => total = 0 /\ rom = rom0
      /\ WritePlace
  BY DEF WriteInv
<1>2. /\ UNCHANGED <<pc, offset, length, total, wdata, rom0, cmd>>
      /\ twi_xfer = "idle" => RomReady
  BY DEF TwiNext, TwiRuns, TransferDone, TransferMeetsBusy, TransferFails, TransferHeld,
     i2c_vars, i2c_locals, util_vars
<1>k. ASSUME pc \in {"wr_setup", "wr_idle"} => rom' = rom, WritePlace' PROVE WriteInv'
  BY <1>1, <1>2, <1>k DEF WriteInv
<1>3. CASE RomReady
  <2>1. UNCHANGED <<twi_vars, rom>> /\ rom_busy' = FALSE
    BY <1>3 DEF RomReady
  <2>2. /\ Written(total) => Written(total)'
        /\ Loaded => Loaded'
    BY <1>2, <2>1, WrittenKept, LoadedKept DEF twi_vars
  <2>3. UNCHANGED <<Running, Ended, Refused, Resting>>
    BY <2>1 DEF Running, Ended, Refused, Resting, twi_vars
  <2>4. WritePlace'
    BY <1>1, <1>2, <2>1, <2>2, <2>3 DEF WritePlace, twi_vars
  <2> QED BY <1>k, <2>1, <2>4
<1>4. CASE twi_xfer # "idle" /\ TransferHeld
  <2>1. UNCHANGED <<twi_rw, twi_fifo, twi_xfer, twi_irt, rom, rom_busy>>
    BY <1>4 DEF TransferHeld, rom_vars
  <2>2. /\ Written(total) => Written(total)'
        /\ Loaded => Loaded'
    BY <1>2, <2>1, WrittenKept, LoadedKept
  <2>3. UNCHANGED <<Running, Ended, Refused, Resting>>
    BY <2>1 DEF Running, Ended, Refused, Resting
  <2>4. WritePlace'
    BY <1>1, <1>2, <2>1, <2>2, <2>3 DEF WritePlace
  <2> QED BY <1>k, <2>1, <2>4
<1>5. CASE twi_xfer # "idle" /\ ~ (RomReady \/ TransferHeld)
  <2>1. pc = "wr_poll" /\ twi_irt = {} /\ twi_rw = "wr" /\ twi_xfer = "wr" /\ Loaded
    BY <1>1, <1>5 DEF WritePlace, WritePcs, Running, Ended, Refused, Resting
  <2>2. CASE TransferMeetsBusy \/ TransferFails
    <3>1. twi_rw' = twi_rw /\ Refused'
      BY <2>1, <2>2 DEF TransferMeetsBusy, TransferFails, TransferEnds, Refused
    <3>2. WritePlace'
      BY <1>2, <2>1, <3>1 DEF WritePlace
    <3> QED BY <1>k, <2>1, <3>2
  <2>3. CASE TransferDone
    <3>1. twi_rw' = twi_rw /\ Ended' /\ TakeBytes(Len(twi_fifo))
      BY <2>1, <2>3 DEF TransferDone, TransferEnds, Ended
    <3>2. PICK n \in 1 .. Burst : n <= total /\ Block(total - n, n) /\ Written(total - n)
      BY <2>1 DEF Loaded
    <3> DEFINE t == total - n
    <3>3. t \in Nat /\ n \in Nat /\ t + n = total
      BY <3>2, I2cAssumption DEF TInv, TypeOK
    <3>4. Block(t, n) /\ Written(t)
      BY <3>2
    <3>5. TakeBytes(n + 1)
      BY <3>1, <3>4 DEF Block
    <3> HIDE DEF t
    <3>6. twi_fifo' = <<>>
      BY <3>3, <3>4, <3>5, BlockWritten DEF TInv
    <3>7. \A i \in Cells :
            \/ Hits(i, t + n) = {} /\ rom'[i] = rom0[i]
            \/ \E j \in Hits(i, t + n) : (\A k \in Hits(i, t + n) : k <= j) /\ rom'[i] = wdata[j]
      BY <3>3, <3>4, <3>5, MoreWritten DEF TInv
    <3>8. Written(total)'
      BY <1>2, <3>3, <3>7 DEF Written
    <3>9. WritePlace'
      BY <1>2, <2>1, <3>1, <3>6, <3>8 DEF WritePlace
    <3> QED BY <1>k, <2>1, <3>9
  <2> QED BY <1>5, <2>2, <2>3 DEF TwiNext, TwiRuns
<1> QED BY <1>3, <1>4, <1>5, <1>2

(* i2c_write fills the FIFO with the next block.                             *)
LEMMA BlockLoaded ==
  ASSUME TypeOK, twi_fifo = <<>>, offset = total, total + length = Len(wdata), length > 0,
         Push(<<offset % Base>> \o SubSeq(wdata, total + 1, total + BlockLen))
  PROVE  /\ BlockLen \in 1 .. Burst /\ total + BlockLen <= Len(wdata)
         /\ (total % PageSize) + BlockLen <= PageSize
         /\ Len(twi_fifo') = BlockLen + 1 /\ twi_fifo'[1] = total % Base
         /\ \A i \in 1 .. BlockLen : twi_fifo'[i + 1] = wdata[total + i]
<1>0. /\ wdata \in Seq(Byte) /\ total \in Nat /\ length \in Nat /\ offset \in Nat
      /\ Base \in Nat \ {0} /\ FifoSize \in Nat \ {0} /\ Burst \in Nat \ {0} /\ Burst < FifoSize
  BY TwiAssumption, I2cAssumption DEF TypeOK
<1> DEFINE n == BlockLen
           head == <<offset % Base>>
           data == SubSeq(wdata, total + 1, total + n)
<1>1. n \in 1 .. length /\ n \in 1 .. Burst /\ (offset % PageSize) + n <= PageSize
  BY <1>0, BlockFits
<1> HIDE DEF n
<1>2. data \in Seq(Byte) /\ Len(data) = n /\ \A i \in 1 .. n : data[i] = wdata[total + i]
  <2> DEFINE a == total + 1
             b == total + n
  <2>1. a \in 1 .. Len(wdata) /\ b \in 1 .. Len(wdata) /\ a <= b /\ b - a + 1 = n
    BY <1>0, <1>1
  <2>2. \A i \in 1 .. n : a + i - 1 = total + i
    BY <1>0, <1>1
  <2> HIDE DEF a, b
  <2>3. a \in Int /\ b \in Int /\ \A i \in a .. b : wdata[i] \in Byte
    BY <1>0, <2>1, ElementOfSeq
  <2>4. /\ SubSeq(wdata, a, b) \in Seq(Byte)
        /\ Len(SubSeq(wdata, a, b)) = IF a <= b THEN b - a + 1 ELSE 0
        /\ \A i \in 1 .. b - a + 1 : SubSeq(wdata, a, b)[i] = wdata[a + i - 1]
    BY <2>3, SubSeqProperties
  <2> QED BY <2>1, <2>2, <2>4 DEF a, b
<1>3. head \in Seq(Byte) /\ Len(head) = 1 /\ head[1] = offset % Base
  <2>1. offset % Base \in Byte
    BY <1>0, DivMod DEF Byte
  <2> QED BY <2>1
<1>4. twi_fifo' = Fitting(<<>> \o (head \o data))
  BY DEF Push, n
<1> HIDE DEF head, data
<1>5. /\ head \o data \in Seq(Byte) /\ Len(head \o data) = 1 + n
      /\ \A i \in 1 .. 1 + n : (head \o data)[i] = IF i <= 1 THEN head[i] ELSE data[i - 1]
  <2>1. /\ head \o data \in Seq(Byte) /\ Len(head \o data) = Len(head) + Len(data)
        /\ \A i \in 1 .. Len(head) + Len(data) :
             (head \o data)[i] = IF i <= Len(head) THEN head[i] ELSE data[i - Len(head)]
    <3>1. head \in Seq(Byte) /\ data \in Seq(Byte)
      BY <1>2, <1>3
    <3> QED BY <3>1, ConcatProperties
  <2>2. Len(head) = 1 /\ Len(data) = n
    BY <1>2, <1>3
  <2>3. head \o data \in Seq(Byte) /\ Len(head \o data) = 1 + n
    BY <2>1, <2>2
  <2>4. ASSUME NEW i \in 1 .. 1 + n PROVE (head \o data)[i] = IF i <= 1 THEN head[i] ELSE data[i - 1]
    <3>1. i \in 1 .. Len(head) + Len(data)
      BY <2>2
    <3>2. (head \o data)[i] = IF i <= Len(head) THEN head[i] ELSE data[i - Len(head)]
      BY <2>1, <3>1
    <3> QED BY <2>2, <3>2
  <2> QED BY <2>3, <2>4
<1> DEFINE s == head \o data
<1>6. twi_fifo' = s
  <2>1. s \in Seq(Byte) /\ Len(s) <= FifoSize
    BY <1>0, <1>1, <1>5
  <2> HIDE DEF s
  <2>2. <<>> \o s = s
    BY <2>1, ConcatEmptySeq
  <2>3. twi_fifo' = Fitting(<<>> \o s)
    BY <1>4 DEF s
  <2> QED BY <2>1, <2>2, <2>3, FittingType
<1>7. twi_fifo'[1] = total % Base
  <2>1. 1 \in 1 .. 1 + n
    BY <1>1
  <2> QED BY <1>3, <1>5, <1>6, <2>1
<1>8. ASSUME NEW i \in 1 .. n PROVE twi_fifo'[i + 1] = wdata[total + i]
  <2>1. i + 1 \in 1 .. 1 + n /\ ~ (i + 1 <= 1) /\ (i + 1) - 1 = i
    BY <1>1
  <2> QED BY <1>2, <1>5, <1>6, <2>1
<1>9. Len(twi_fifo') = n + 1 /\ total + n <= Len(wdata)
  BY <1>0, <1>1, <1>5, <1>6
<1> QED BY <1>1, <1>7, <1>8, <1>9 DEF n

(* i2c_write goes on.                                                        *)
LEMMA WriteStep ==
  ASSUME TInv, WriteInv, UNCHANGED <<util_vars, faults>>,
         WrSetup \/ WrIdle \/ WrBlock \/ WrAddr \/ WrPoll
  PROVE  WriteInv'
<1>0. /\ rom' = rom /\ rom0' = rom0 /\ cmd' = cmd /\ quiet' = quiet /\ wdata' = wdata
      /\ trouble' = trouble \/ trouble' = TRUE
  BY DEF WrSetup, WrIdle, WrBlock, WrAddr, WrPoll, Turn, i2c_locals, rom_vars, util_vars
<1> SUFFICES ASSUME Calm', cmd = "write" PROVE WriteInv'
  BY <1>0 DEF WriteInv
<1>c. Calm /\ trouble' # TRUE /\ trouble' = trouble
  <2>1. trouble' # TRUE /\ quiet'
    BY Zenon DEF Calm
  <2>2. trouble' = trouble /\ quiet' = quiet
    BY <1>0, <2>1
  <2> QED BY <2>1, <2>2, Zenon DEF Calm
<1>1. /\ offset = total /\ total + length = Len(wdata)
      /\ pc \in {"wr_setup", "wr_idle"} => total = 0 /\ rom = rom0
      /\ WritePlace
  BY <1>c DEF WriteInv
<1>t. total \in Nat /\ length \in Nat /\ offset \in Nat
  BY DEF TInv, TypeOK
<1>k. ASSUME pc' \in WritePcs \cup {"ret"}, WritePlace', UNCHANGED <<total, offset, length>>,
             pc' \in {"wr_setup", "wr_idle"} => pc \in {"wr_setup", "wr_idle"}
      PROVE  WriteInv'
  <2>1. offset' = total' /\ total' + length' = Len(wdata')
    BY <1>0, <1>1, <1>k
  <2>2. pc' \in {"wr_setup", "wr_idle"} => total' = 0 /\ rom' = rom0'
    BY <1>0, <1>1, <1>k
  <2> QED BY <1>k, <2>1, <2>2 DEF WriteInv
<1>2. CASE WrSetup
  <2>1. pc = "wr_setup" /\ pc' = "wr_idle" /\ twi_rw' = "wr" /\ Resting'
    BY <1>1, <1>2 DEF WrSetup, GoTo, ReadIrt, SetMode, WritePlace, Resting
  <2>2. WritePlace'
    BY <2>1 DEF WritePlace, Resting
  <2> QED BY <1>2, <1>k, <2>1, <2>2 DEF WrSetup, i2c_locals, WritePcs
<1>3. CASE WrIdle
  <2>1. /\ pc = "wr_idle" /\ pc' = "wr_block" /\ twi_rw' = "wr" /\ Resting'
        /\ UNCHANGED <<total, offset, length>>
    BY <1>1, <1>3 DEF WrIdle, WritePlace, Resting, twi_vars, i2c_locals
  <2>2. Written(total)' /\ total' = 0
    <3>1. rom = rom0 /\ total = 0
      BY <1>1, <2>1
    <3>2. Written(0)
      BY <3>1, NoneWritten
    <3> QED BY <1>0, <2>1, <3>1, <3>2 DEF Written
  <2>3. WritePlace'
    BY <2>1, <2>2 DEF WritePlace, Resting
  <2> QED BY <1>k, <2>1, <2>3 DEF WritePcs
<1>4. CASE WrBlock
  <2>0. pc = "wr_block" /\ twi_rw = "wr" /\ Resting /\ Written(total) /\ (total > 0 => ~rom_busy)
    BY <1>1, <1>4 DEF WrBlock, WritePlace
  <2>1. CASE length > 0 /\ pc' = "wr_addr"
    <3>1. /\ Push(<<offset % Base>> \o SubSeq(wdata, total + 1, total + BlockLen))
          /\ total' = total + BlockLen /\ offset' = offset + BlockLen
          /\ length' = length - BlockLen
          /\ twi_rw' = twi_rw /\ twi_xfer' = twi_xfer /\ twi_irt' = twi_irt /\ rom_busy' = rom_busy
      BY <1>4, <2>1 DEF WrBlock, rom_vars
    <3>2. /\ BlockLen \in 1 .. Burst /\ total + BlockLen <= Len(wdata)
          /\ (total % PageSize) + BlockLen <= PageSize
          /\ Len(twi_fifo') = BlockLen + 1 /\ twi_fifo'[1] = total % Base
          /\ \A i \in 1 .. BlockLen : twi_fifo'[i + 1] = wdata[total + i]
      BY <1>1, <2>0, <2>1, <3>1, BlockLoaded DEF TInv, Resting
    <3>3. PICK n \in 1 .. Burst : n = BlockLen
      BY <3>2
    <3>4. /\ n \in Nat /\ total' = total + n /\ n <= total' /\ total' - n = total
          /\ offset' = total' /\ total' + length' = Len(wdata')
      <4>1. n \in Nat /\ total' = total + n /\ offset' = offset + n /\ length' = length - n
        BY <3>1, <3>3, I2cAssumption
      <4> QED BY <1>0, <1>1, <1>t, <4>1
    <3>5. Block(total - n, n)'
      BY <1>0, <3>2, <3>3, <3>4 DEF Block
    <3>6. Written(total - n)'
      BY <1>0, <2>0, <3>4 DEF Written
    <3>7. total' > n => ~ rom_busy'
      <4>1. total' > n => total > 0
        BY <1>t, <3>4
      <4> QED BY <2>0, <3>1, <4>1
    <3>8. Loaded'
      BY <3>4, <3>5, <3>6, <3>7, Zenon DEF Loaded
    <3>9. WritePlace'
      BY <2>0, <2>1, <3>1, <3>8 DEF WritePlace, Resting
    <3> QED BY <2>1, <3>4, <3>9 DEF WriteInv, WritePcs
  <2>2. CASE length = 0 /\ pc' = "ret"
    <3>1. UNCHANGED <<twi_xfer, total, offset, length>>
      BY <1>4, <2>2 DEF WrBlock
    <3>2. Written(total)'
      BY <1>0, <2>0, <3>1, WrittenKept
    <3>3. WritePlace'
      BY <2>0, <2>2, <3>1, <3>2 DEF WritePlace, Resting
    <3> QED BY <1>k, <2>2, <3>1, <3>3
  <2> QED BY <1>4, <2>1, <2>2 DEF WrBlock
<1>5. CASE WrAddr
  <2>1. /\ pc = "wr_addr" /\ pc' = "wr_poll" /\ twi_rw' = "wr" /\ Running'
        /\ UNCHANGED <<total, offset, length, twi_fifo, rom_busy>> /\ Loaded
    BY <1>1, <1>5 DEF WrAddr, GoTo, StartTransfer, WritePlace, Running, i2c_locals, rom_vars
  <2>2. Loaded'
    BY <1>0, <2>1, LoadedKept
  <2>3. WritePlace'
    BY <2>1, <2>2 DEF WritePlace
  <2> QED BY <1>k, <2>1, <2>3 DEF WritePcs
<1>6. CASE WrPoll
  <2>0. /\ pc = "wr_poll" /\ twi_rw' = "wr" /\ twi_irt' = {} /\ rom_busy' = FALSE
        /\ UNCHANGED <<twi_xfer, twi_fifo, total, offset, length>>
        /\ twi_rw = "wr"
        /\ \/ Running /\ Loaded
           \/ Ended /\ Written(total) /\ twi_fifo = <<>>
           \/ Refused
    BY <1>1, <1>6 DEF WrPoll, ReadIrt, Sleep, WritePlace, i2c_locals
  <2>1. CASE "comp" \in twi_irt /\ pc' = "wr_block"
    <3>1. Ended /\ Written(total) /\ twi_fifo = <<>>
      BY <2>0, <2>1 DEF Running, Refused
    <3>2. Resting' /\ Written(total)'
      BY <1>0, <2>0, <3>1, WrittenKept DEF Resting, Ended
    <3>3. WritePlace'
      BY <2>0, <2>1, <3>2 DEF WritePlace, Resting
    <3> QED BY <1>k, <2>0, <2>1, <3>3 DEF WritePcs
  <2>2. CASE twi_irt = {"fail"} /\ trouble' = TRUE
    <3>1. FALSE
      BY <1>c, <2>2
    <3> QED BY <3>1
  <2>3. CASE twi_irt = {} /\ Turn("wr_block")
    <3>1. pc' = pc
      BY <1>c, <2>0, <2>3, TurnTypes DEF TInv, Polling
    <3>2. (Running /\ Loaded) \/ Refused
      BY <2>0, <2>3 DEF Ended
    <3>3. (Running /\ Loaded)' \/ Refused'
      BY <1>0, <2>0, <3>2, LoadedKept DEF Running, Refused
    <3>4. WritePlace'
      BY <2>0, <3>1, <3>3 DEF WritePlace
    <3> QED BY <1>k, <2>0, <3>1, <3>4 DEF WritePcs
  <2> QED BY <1>6, <2>1, <2>2, <2>3 DEF WrPoll
<1> QED BY <1>2, <1>3, <1>4, <1>5, <1>6
-----------------------------------------------------------------------------
\* The menu and its file.

SaidInv ==
  Calm /\ said # "none" =>
    /\ twi_xfer = "idle"
    /\ said = "written" => Written(Len(wdata))
    /\ said \in {"same", "differs"} =>
         (said = "same" <=> \A i \in 1..Len(FileData) : FileData[i] = rom[(i - 1) % RomSize])

(* A command is left, or not begun.                                          *)
Leaves ==
  /\ pc' \in {"off", "menu"} /\ cmd' = "none" /\ said' = "none"
  /\ UNCHANGED <<have, file, dumped, snap>>

(* A command calls i2c_read.                                                 *)
CallsRead ==
  /\ pc' = "rd_setup" /\ cmd' \in {"screen", "dump", "compare"} /\ said' = "none"
  /\ Bus /\ rom0' = rom
  /\ offset' = 0 /\ length' = Wanted' /\ total' = 0 /\ tlen' = 0 /\ err' = FALSE /\ buf' = <<>>
  /\ quiet' = (twi_xfer = "idle") /\ trouble' = FALSE
  /\ snap' = snap
  /\ \/ cmd' = "dump" /\ have' = TRUE /\ dumped' = FALSE
     \/ cmd' # "dump" /\ UNCHANGED <<have, file, dumped>> /\ (cmd' = "compare" => Readable)

(* What the actions of the menu have in common.                              *)
LEMMA MenuSteps ==
  ASSUME Places, MenuNext
  PROVE  \/ Leaves \/ CallsRead
         \/ file_dump_to_eeprom \/ DumpReturn \/ WriteReturn \/ CompareReturn
<1>1. CASE Start \/ Interrupt
  BY <1>1 DEF Start, Interrupt, GoTo, Leaves
<1>2. CASE Exit \/ NotConfirmed \/ file_dump_to_screen \/ UnknownOption \/ FileRaises
  <2>1. BackTo("off") \/ BackTo("menu")
    BY <1>2 DEF Exit, NotConfirmed, file_dump_to_screen, UnknownOption, FileRaises
  <2> QED BY <2>1 DEF BackTo, GoTo, Stay, Places, Leaves
<1>3. CASE ScreenReturn
  BY <1>3 DEF ScreenReturn, Stay, Places, Leaves
<1>4. CASE eeprom_dump_to_screen
  <2>1. cmd' = "screen" /\ Wanted' = ScreenRecs * RecSize
    BY <1>4 DEF eeprom_dump_to_screen, ReadRom, Wanted
  <2> QED BY <1>4, <2>1 DEF eeprom_dump_to_screen, ReadRom, Call, CallsRead
<1>5. CASE eeprom_dump_to_file
  <2>1. cmd' = "dump" /\ Wanted' = FileRecs * RecSize
    BY <1>5 DEF eeprom_dump_to_file, ReadRom, Wanted
  <2> QED BY <1>5, <2>1 DEF eeprom_dump_to_file, ReadRom, Call, CallsRead
<1>6. CASE compare_eeprom_with_file
  <2>1. cmd' = "compare" /\ Wanted' = (Len(file) + 1) * RecSize
    BY <1>6 DEF compare_eeprom_with_file, ReadRom, Wanted
  <2> QED BY <1>6, <2>1 DEF compare_eeprom_with_file, ReadRom, Call, CallsRead
<1> QED BY <1>1, <1>2, <1>3, <1>4, <1>5, <1>6 DEF MenuNext

(* Places holds in every step.                                               *)
LEMMA PlacesStep == Places /\ [Next]_vars => Places'
<1> SUFFICES ASSUME Places, [Next]_vars PROVE Places'
  OBVIOUS
<1>1. CASE UNCHANGED <<util_vars, faults>>
            /\ (RdSetup \/ RdIdle \/ RdClear \/ RdAddr \/ RdPoll \/ RdMode
                  \/ RdBlock \/ RdBlockPoll \/ RdFifo)
  <2>1. /\ pc \in ReadPcs /\ pc' \in ReadPcs \cup {"ret", "off"}
        /\ cmd' = cmd /\ said' = said
    BY <1>1 DEF RdSetup, RdIdle, RdClear, RdAddr, RdPoll, RdMode, RdBlock, RdBlockPoll, RdFifo,
       Turn, GoTo, ReadPcs, util_vars
  <2>2. Reading /\ said = "none"
    BY <2>1 DEF Places, Reading
  <2>3. Reading' /\ said' = "none" /\ pc' \notin WritePcs /\ pc' # "menu" /\ cmd' # "none"
    BY <2>1, <2>2 DEF Reading, ReadPcs, WritePcs
  <2> QED BY <2>3 DEF Places
<1>2. CASE UNCHANGED <<util_vars, faults>> /\ (WrSetup \/ WrIdle \/ WrBlock \/ WrAddr \/ WrPoll)
  <2>1. /\ pc \in WritePcs /\ pc' \in WritePcs \cup {"ret"}
        /\ cmd' = cmd /\ said' = said
    BY <1>2 DEF WrSetup, WrIdle, WrBlock, WrAddr, WrPoll, Turn, GoTo, WritePcs, util_vars
  <2>2. cmd = "write" /\ said = "none"
    BY <2>1 DEF Places
  <2>3. cmd' = "write" /\ said' = "none" /\ pc' \notin ReadPcs /\ pc' # "menu"
    BY <2>1, <2>2 DEF ReadPcs, WritePcs
  <2> QED BY <2>3 DEF Places
<1>3. CASE MenuNext
  <2>1. CASE Leaves
    BY <2>1 DEF Leaves, Places, ReadPcs, WritePcs
  <2>2. CASE CallsRead
    BY <2>2 DEF CallsRead, Places, Reading, WritePcs
  <2>3. CASE file_dump_to_eeprom
    BY <2>3 DEF file_dump_to_eeprom, Call, Places, ReadPcs
  <2>4. CASE DumpReturn
    BY <2>4 DEF DumpReturn, Places, ReadPcs, WritePcs
  <2>5. CASE WriteReturn \/ CompareReturn
    <3>1. pc' \in {"off", "menu"} /\ cmd' = "none" /\ (pc' = "off" => said' = said) /\ cmd # "none"
      BY <2>5 DEF WriteReturn, CompareReturn
    <3> QED BY <3>1 DEF Places, ReadPcs, WritePcs
  <2> QED BY <1>3, <2>1, <2>2, <2>3, <2>4, <2>5, MenuSteps
<1>4. CASE (TwiNext /\ UNCHANGED <<i2c_vars, util_vars>>) \/ UNCHANGED vars
  BY <1>4 DEF Places, Reading, vars, i2c_vars, util_vars
<1> QED BY <1>1, <1>2, <1>3, <1>4, WhoSteps

(* A line of the file is not one that makes the parsing raise.               *)
LEMMA LineIsGood == \A line : IsLine(line) => line # BadLine
<1>1. BadLine \notin Seq(Byte) \X Seq(Byte)
  <2>1. \A x \in Seq(Byte) \X Seq(Byte) : Len(x) = 2
    OBVIOUS
  <2> QED BY <2>1 DEF BadLine
<1> QED BY <1>1 DEF IsLine

(* A dump in calm conditions has the bytes of the EEPROM.                    *)
LEMMA DumpTaken ==
  ASSUME TInv, Places, FileBytes, ReadInv, DumpReturn
  PROVE  FileBytes'
<1>0. /\ cmd = "dump" /\ pc = "ret" /\ cmd' = "none" /\ said' = "none" /\ have' = have /\ have
      /\ dumped' = (pc' = "menu" /\ Calm)
      /\ FileRecs \in Nat
  BY UtilsAssumption DEF DumpReturn, Places, FileBytes
<1> SUFFICES ASSUME dumped'
             PROVE  /\ Readable'
                    /\ \A i \in 1 .. RecSize * Len(file') : FileData'[i] = snap'[(i - 1) % RomSize]
  BY <1>0 DEF FileBytes
<1>1. Calm /\ Reading /\ snap' = rom
  BY <1>0 DEF DumpReturn, Reading
<1>2. Len(buf) = total /\ \A i \in 1 .. total : buf[i] = rom[(0 + i - 1) % RomSize]
  BY <1>1 DEF ReadInv, Holds
<1> DEFINE w == Walked(FileRecs)
<1>3. /\ w \in Nat
      /\ \A k \in 1 .. w :
           /\ IsLine(LineOf(Record(k))) /\ RecSize * k <= Len(buf)
           /\ \A at \in 0 .. RecSize - 1 : LineByte(LineOf(Record(k)), at) = buf[RecSize * (k - 1) + at + 1]
  <2>1. w \in 0 .. FileRecs
    BY <1>0, WalkedRecords DEF TInv
  <2> SUFFICES ASSUME NEW k \in 1 .. w
               PROVE  /\ IsLine(LineOf(Record(k))) /\ RecSize * k <= Len(buf)
                      /\ \A at \in 0 .. RecSize - 1 :
                           LineByte(LineOf(Record(k)), at) = buf[RecSize * (k - 1) + at + 1]
    BY <1>0, <2>1
  <2>2. /\ Record(k) \in Seq(Byte) /\ Len(Record(k)) = RecSize /\ RecSize * k <= Len(buf)
        /\ \A m \in 1 .. RecSize : Record(k)[m] = buf[RecSize * (k - 1) + m]
    BY <1>0, WalkedRecords DEF TInv
  <2>3. /\ IsLine(LineOf(Record(k)))
        /\ \A at \in 0 .. RecSize - 1 : LineByte(LineOf(Record(k)), at) = Record(k)[at + 1]
    BY <2>2, LineRead
  <2>4. ASSUME NEW at \in 0 .. RecSize - 1
        PROVE  LineByte(LineOf(Record(k)), at) = buf[RecSize * (k - 1) + at + 1]
    <3>1. at + 1 \in 1 .. RecSize /\ RecSize * (k - 1) + at + 1 = RecSize * (k - 1) + (at + 1)
      BY <1>0, <2>1 DEF RecSize
    <3> QED BY <2>2, <2>3, <3>1
  <2> QED BY <2>2, <2>3, <2>4
<1>4. /\ Len(file') = w
      /\ \A k \in 1 .. w : file'[k] = LineOf(Record(k))
  <2>1. file' = [k \in 1 .. w |-> LineOf(Record(k))]
    BY DEF DumpReturn
  <2> HIDE DEF w
  <2> QED BY <1>3, <2>1
<1> HIDE DEF w
<1>5. Readable'
  <2>1. \A k \in 1 .. Len(file') : file'[k] # BadLine
    BY <1>3, <1>4, LineIsGood
  <2> QED BY <1>0, <2>1 DEF Readable
<1>6. ASSUME NEW i \in 1 .. RecSize * Len(file')
      PROVE  FileData'[i] = snap'[(i - 1) % RomSize]
  <2> DEFINE q == (i - 1) \div 6
             r == (i - 1) % 6
  <2>1. i \in 1 .. 6 * w
    BY <1>4 DEF RecSize
  <2>2. q \in 0 .. w - 1 /\ r \in 0 .. 5 /\ i = 6 * q + r + 1
    BY <1>3, <2>1
  <2>3. FileData'[i] = LineByte(file'[q + 1], r)
    BY DEF FileData, RecSize
  <2> HIDE DEF q, r
  <2>4. q + 1 \in 1 .. w /\ (q + 1) - 1 = q
    BY <1>3, <2>2
  <2>5. FileData'[i] = buf[6 * ((q + 1) - 1) + r + 1] /\ 6 * (q + 1) <= Len(buf)
    <3>1. file'[q + 1] = LineOf(Record(q + 1))
      BY <1>4, <2>4
    <3>2. /\ 6 * (q + 1) <= Len(buf)
          /\ LineByte(LineOf(Record(q + 1)), r) = buf[6 * ((q + 1) - 1) + r + 1]
      <4> DEFINE k == q + 1
      <4>1. k \in 1 .. w /\ r \in 0 .. RecSize - 1
        BY <2>2, <2>4 DEF RecSize
      <4> HIDE DEF k
      <4>2. /\ RecSize * k <= Len(buf)
            /\ LineByte(LineOf(Record(k)), r) = buf[RecSize * (k - 1) + r + 1]
        BY <1>3, <4>1
      <4> QED BY <4>2 DEF RecSize, k
    <3> QED BY <2>3, <3>1, <3>2
  <2>6. FileData'[i] = buf[i] /\ i \in 1 .. total
    <3>1. 6 * ((q + 1) - 1) + r + 1 = i /\ i <= 6 * (q + 1)
      BY <2>2, <1>3
    <3>2. total \in Nat
      BY DEF TInv, TypeOK
    <3> QED BY <1>2, <2>1, <2>2, <2>5, <3>1, <3>2
  <2>7. 0 + i - 1 = i - 1
    BY <2>6
  <2> QED BY <1>1, <1>2, <2>6, <2>7
<1> QED BY <1>5, <1>6

(* The file and what is made of it in every step.                            *)
LEMMA FileBytesStep ==
  TInv /\ Places /\ FileBytes /\ ReadInv /\ [Next]_vars => FileBytes'
<1> SUFFICES ASSUME TInv, Places, FileBytes, ReadInv, [Next]_vars PROVE FileBytes'
  OBVIOUS
<1>r. ASSUME UNCHANGED <<have, file>> PROVE (Readable' <=> Readable) /\ FileData' = FileData
  BY <1>r DEF Readable, FileData
<1>k. ASSUME UNCHANGED <<util_vars, wdata>> PROVE FileBytes'
  BY <1>k, <1>r DEF FileBytes, util_vars
<1>1. CASE \/ UNCHANGED vars
           \/ TwiNext /\ UNCHANGED <<i2c_vars, util_vars>>
  BY <1>1, <1>k DEF vars, i2c_vars, i2c_locals, util_vars
<1>2. CASE \/ UNCHANGED <<util_vars, faults>>
                /\ (RdSetup \/ RdIdle \/ RdClear \/ RdAddr \/ RdPoll \/ RdMode
                      \/ RdBlock \/ RdBlockPoll \/ RdFifo)
           \/ UNCHANGED <<util_vars, faults>>
                /\ (WrSetup \/ WrIdle \/ WrBlock \/ WrAddr \/ WrPoll)
  BY <1>2, <1>k DEF RdSetup, RdIdle, RdClear, RdAddr, RdPoll, RdMode, RdBlock, RdBlockPoll, RdFifo,
     WrSetup, WrIdle, WrBlock, WrAddr, WrPoll, i2c_locals
<1>3. CASE MenuNext
  <2>1. CASE Leaves
    BY <1>r, <2>1 DEF Leaves, FileBytes
  <2>2. CASE CallsRead
    <3>1. CASE cmd' = "dump" /\ have' = TRUE /\ dumped' = FALSE
      BY <2>2, <3>1 DEF CallsRead, FileBytes
    <3>2. CASE cmd' # "dump" /\ UNCHANGED <<have, file, dumped>> /\ (cmd' = "compare" => Readable)
      BY <1>r, <2>2, <3>2 DEF CallsRead, FileBytes
    <3> QED BY <2>2, <3>1, <3>2 DEF CallsRead
  <2>3. CASE file_dump_to_eeprom
    BY <1>r, <2>3 DEF file_dump_to_eeprom, Call, FileBytes
  <2>4. CASE DumpReturn
    BY <2>4, DumpTaken
  <2>5. CASE WriteReturn
    <3>1. /\ cmd = "write" /\ cmd' = "none" /\ UNCHANGED <<wdata, have, file, dumped, snap>>
      BY <2>5 DEF WriteReturn, Stay, i2c_locals
    <3> QED BY <1>r, <3>1 DEF FileBytes
  <2>6. CASE CompareReturn
    <3>1. /\ cmd = "compare" /\ cmd' = "none" /\ UNCHANGED <<wdata, have, file, dumped, snap>>
          /\ said' = said \/ said' \in {"same", "differs"}
      BY <2>6 DEF CompareReturn, Stay, i2c_locals
    <3>2. said' # "written"
      BY <3>1 DEF Places
    <3> QED BY <1>r, <3>1, <3>2 DEF FileBytes
  <2> QED BY <1>3, <2>1, <2>2, <2>3, <2>4, <2>5, <2>6, MenuSteps
<1> QED BY <1>1, <1>2, <1>3, WhoSteps

(* What has been read is the EEPROM, in every step.                          *)
LEMMA ReadInvStep == TInv /\ Places /\ ReadInv /\ [Next]_vars => ReadInv'
<1> SUFFICES ASSUME TInv, Places, ReadInv, [Next]_vars PROVE ReadInv'
  OBVIOUS
<1>1. CASE UNCHANGED vars
  BY <1>1 DEF ReadInv, ReadPlace, Calm, Reading, Wanted, Holds, Running, Ended, Refused, Resting,
     vars, twi_vars, rom_vars, i2c_vars, i2c_locals, util_vars
<1>2. CASE TwiNext /\ UNCHANGED <<i2c_vars, util_vars>>
  BY <1>2, ReadTransfer
<1>3. CASE UNCHANGED <<util_vars, faults>>
             /\ (RdSetup \/ RdIdle \/ RdClear \/ RdAddr \/ RdPoll \/ RdMode
                   \/ RdBlock \/ RdBlockPoll \/ RdFifo)
  BY <1>3, ReadStep
<1>4. CASE UNCHANGED <<util_vars, faults>> /\ (WrSetup \/ WrIdle \/ WrBlock \/ WrAddr \/ WrPoll)
  <2>1. pc \in WritePcs /\ cmd' = cmd
    BY <1>4 DEF WrSetup, WrIdle, WrBlock, WrAddr, WrPoll, GoTo, WritePcs, util_vars
  <2>2. cmd' = "write"
    BY <2>1 DEF Places
  <2> QED BY <2>2 DEF ReadInv, Reading
<1>5. CASE MenuNext
  <2>1. CASE CallsRead
    <3> SUFFICES ASSUME Calm' PROVE ReadInv'
      BY DEF ReadInv
    <3>1. twi_xfer' = "idle"
      <4>1. quiet' = (twi_xfer = "idle") /\ twi_xfer' = twi_xfer
        BY <2>1 DEF CallsRead, Bus, twi_vars
      <4>2. quiet'
        BY Zenon DEF Calm
      <4> QED BY <4>1, <4>2, Zenon
    <3>2. /\ pc' = "rd_setup" /\ rom' = rom0' /\ offset' = 0 /\ length' = Wanted' /\ total' = 0
          /\ tlen' = 0 /\ err' = FALSE /\ buf' = <<>>
      BY <2>1 DEF CallsRead, Bus, rom_vars
    <3>3. Holds(buf, total, 0)'
      BY <3>2 DEF Holds
    <3>4. total' + tlen' + length' = Wanted'
      <4>1. length' \in Nat
        <5>1. TInv'
          BY <1>5, MenuTypesStep
        <5> QED BY <5>1 DEF TInv, TypeOK
      <4>2. total' = 0 /\ tlen' = 0 /\ length' = Wanted'
        BY <3>2
      <4>3. \A x \in Nat : 0 + 0 + x = x
        OBVIOUS
      <4> QED BY <4>1, <4>2, <4>3, Zenon
    <3>5. ReadPlace'
      BY <3>1, <3>2 DEF ReadPlace
    <3> QED BY <3>2, <3>3, <3>4, <3>5 DEF ReadInv, ReadPcs
  <2>2. CASE Leaves \/ file_dump_to_eeprom \/ DumpReturn \/ WriteReturn \/ CompareReturn
    <3>1. cmd' = "none" \/ cmd' = "write"
      BY <2>2 DEF Leaves, file_dump_to_eeprom, DumpReturn, WriteReturn, CompareReturn
    <3> QED BY <3>1 DEF ReadInv, Reading
  <2> QED BY <1>5, <2>1, <2>2, MenuSteps
<1> QED BY <1>1, <1>2, <1>3, <1>4, <1>5, WhoSteps

(* What has been written is the file, in every step.                         *)
LEMMA WriteInvStep == TInv /\ Places /\ WriteInv /\ [Next]_vars => WriteInv'
<1> SUFFICES ASSUME TInv, Places, WriteInv, [Next]_vars PROVE WriteInv'
  OBVIOUS
<1>1. CASE UNCHANGED vars
  <2>1. UNCHANGED <<twi_vars, rom_vars, i2c_vars, util_vars>>
    BY <1>1 DEF vars
  <2>2. (Written(total) => Written(total)') /\ (Loaded => Loaded')
    BY <2>1, WrittenKept, LoadedKept DEF twi_vars, rom_vars, i2c_vars, i2c_locals, util_vars
  <2>3. UNCHANGED <<Running, Ended, Refused, Resting>>
    BY <2>1 DEF Running, Ended, Refused, Resting, twi_vars
  <2> QED BY <2>1, <2>2, <2>3 DEF WriteInv, WritePlace, Calm, twi_vars, rom_vars, i2c_vars,
             i2c_locals, util_vars
<1>2. CASE TwiNext /\ UNCHANGED <<i2c_vars, util_vars>>
  BY <1>2, WriteTransfer
<1>3. CASE UNCHANGED <<util_vars, faults>>
             /\ (RdSetup \/ RdIdle \/ RdClear \/ RdAddr \/ RdPoll \/ RdMode
                   \/ RdBlock \/ RdBlockPoll \/ RdFifo)
  <2>1. pc \in ReadPcs /\ cmd' = cmd
    BY <1>3 DEF RdSetup, RdIdle, RdClear, RdAddr, RdPoll, RdMode, RdBlock, RdBlockPoll, RdFifo,
       GoTo, ReadPcs, util_vars
  <2>2. cmd' # "write"
    BY <2>1 DEF Places, Reading
  <2> QED BY <2>2 DEF WriteInv
<1>4. CASE UNCHANGED <<util_vars, faults>> /\ (WrSetup \/ WrIdle \/ WrBlock \/ WrAddr \/ WrPoll)
  BY <1>4, WriteStep
<1>5. CASE MenuNext
  <2>1. CASE file_dump_to_eeprom
    <3> SUFFICES ASSUME Calm' PROVE WriteInv'
      BY DEF WriteInv
    <3>1. twi_xfer' = "idle"
      <4>1. quiet' = (twi_xfer = "idle") /\ twi_xfer' = twi_xfer
        BY <2>1 DEF file_dump_to_eeprom, Call, Bus, twi_vars
      <4>2. quiet'
        BY Zenon DEF Calm
      <4> QED BY <4>1, <4>2, Zenon
    <3>2. /\ pc' = "wr_setup" /\ rom' = rom0' /\ offset' = 0 /\ total' = 0
          /\ length' = Len(FileData) /\ wdata' = FileData
      BY <2>1 DEF file_dump_to_eeprom, Call, Bus, rom_vars
    <3>3. total' + length' = Len(wdata')
      <4>1. Len(FileData) \in Nat
        BY <2>1, FileDataType DEF file_dump_to_eeprom, TInv
      <4> QED BY <3>2, <4>1
    <3>4. WritePlace'
      BY <3>1, <3>2 DEF WritePlace
    <3> QED BY <3>2, <3>3, <3>4 DEF WriteInv, WritePcs
  <2>2. CASE Leaves \/ CallsRead \/ DumpReturn \/ WriteReturn \/ CompareReturn
    <3>1. cmd' # "write"
      BY <2>2 DEF Leaves, CallsRead, DumpReturn, WriteReturn, CompareReturn
    <3> QED BY <3>1 DEF WriteInv
  <2> QED BY <1>5, <2>1, <2>2, MenuSteps
<1> QED BY <1>1, <1>2, <1>3, <1>4, <1>5, WhoSteps

(* What the user is told stays true until the next command.                  *)
LEMMA SaidInvStep ==
  TInv /\ Places /\ FileBytes /\ ReadInv /\ WriteInv /\ SaidInv /\ [Next]_vars => SaidInv'
<1> SUFFICES ASSUME TInv, Places, FileBytes, ReadInv, WriteInv, SaidInv, [Next]_vars PROVE SaidInv'
  OBVIOUS
<1>n. ASSUME said' = "none" PROVE SaidInv'
  BY <1>n DEF SaidInv
<1>1. CASE UNCHANGED vars
  BY <1>1 DEF SaidInv, Calm, Written, FileData, vars, twi_vars, rom_vars, i2c_vars, i2c_locals,
     util_vars
<1>2. CASE TwiNext /\ UNCHANGED <<i2c_vars, util_vars>>
  <2> SUFFICES ASSUME Calm, said # "none" PROVE SaidInv'
    BY <1>2 DEF SaidInv, Calm, i2c_vars, i2c_locals, util_vars
  <2>1. twi_xfer = "idle"
    BY DEF SaidInv
  <2>2. UNCHANGED <<twi_xfer, rom, rom0, wdata, said, file>>
    BY <1>2, <2>1 DEF TwiNext, TwiRuns, TransferDone, TransferMeetsBusy, TransferFails, TransferHeld,
       RomReady, twi_vars, i2c_vars, i2c_locals, util_vars
  <2> QED BY <2>2 DEF SaidInv, Written, FileData
<1>3. CASE \/ UNCHANGED <<util_vars, faults>>
                /\ (RdSetup \/ RdIdle \/ RdClear \/ RdAddr \/ RdPoll \/ RdMode
                      \/ RdBlock \/ RdBlockPoll \/ RdFifo)
           \/ UNCHANGED <<util_vars, faults>>
                /\ (WrSetup \/ WrIdle \/ WrBlock \/ WrAddr \/ WrPoll)
  <2>1. pc \in ReadPcs \cup WritePcs /\ said' = said
    BY <1>3 DEF RdSetup, RdIdle, RdClear, RdAddr, RdPoll, RdMode, RdBlock, RdBlockPoll, RdFifo,
       WrSetup, WrIdle, WrBlock, WrAddr, WrPoll, GoTo, ReadPcs, WritePcs, util_vars
  <2>2. said' = "none"
    BY <2>1 DEF Places, Reading
  <2> QED BY <1>n, <2>2
<1>4. CASE MenuNext
  <2>1. CASE Leaves \/ CallsRead \/ file_dump_to_eeprom \/ DumpReturn
    <3>1. said' = "none"
      BY <2>1 DEF Leaves, CallsRead, file_dump_to_eeprom, DumpReturn, Places
    <3> QED BY <1>n, <3>1
  <2>2. CASE WriteReturn
    <3>1. /\ pc = "ret" /\ cmd = "write"
          /\ said' = (IF total = Len(wdata) THEN "written" ELSE "error")
          /\ UNCHANGED <<twi_xfer, rom, rom0, wdata, quiet, trouble>>
      BY <2>2 DEF WriteReturn, Stay, Bus, twi_vars, rom_vars, i2c_locals
    <3> SUFFICES ASSUME Calm PROVE SaidInv'
      BY <3>1 DEF SaidInv, Calm
    <3>2. twi_xfer = "idle" /\ Written(total)
      BY <3>1 DEF WriteInv, WritePlace
    <3>3. said' = "written" => Written(Len(wdata))'
      BY <3>1, <3>2 DEF Written
    <3>4. said' \notin {"same", "differs"}
      BY <3>1
    <3> QED BY <3>1, <3>2, <3>3, <3>4 DEF SaidInv
  <2>3. CASE CompareReturn
    <3>1. /\ pc = "ret" /\ cmd = "compare"
          /\ UNCHANGED <<twi_xfer, rom, file, quiet, trouble>>
      BY <2>3 DEF CompareReturn, Stay, Bus, twi_vars, rom_vars, i2c_locals
    <3>2. said = "none"
      BY <3>1 DEF Places
    <3>3. CASE said' = said
      BY <1>n, <3>2, <3>3
    <3>4. CASE ~ (Len(buf) < Len(FileData)) /\ said' = (IF Matches THEN "same" ELSE "differs")
      <4> SUFFICES ASSUME Calm PROVE SaidInv'
        BY <3>1 DEF SaidInv, Calm
      <4>1. /\ twi_xfer = "idle" /\ Len(buf) = total
            /\ \A i \in 1 .. total : buf[i] = rom[(0 + i - 1) % RomSize]
        BY <3>1 DEF ReadInv, ReadPlace, Reading, Holds
      <4>2. ASSUME NEW i \in 1 .. Len(FileData) PROVE buf[i] = rom[(i - 1) % RomSize]
        <5>1. Len(FileData) \in Nat /\ total \in Nat
          BY <3>1, FileDataType DEF FileBytes, TInv, TypeOK
        <5>2. i \in 1 .. total /\ 0 + i - 1 = i - 1
          BY <3>4, <4>1, <5>1
        <5> QED BY <4>1, <5>2
      <4>3. Matches <=> \A i \in 1 .. Len(FileData) : FileData[i] = rom[(i - 1) % RomSize]
        BY <4>2 DEF Matches
      <4>4. FileData' = FileData
        BY <3>1 DEF FileData
      <4>5. said' \in {"same", "differs"} /\ (said' = "same" <=> Matches)
        BY <3>4
      <4> QED BY <3>1, <4>1, <4>3, <4>4, <4>5 DEF SaidInv
    <3> QED BY <2>3, <3>3, <3>4 DEF CompareReturn
  <2> QED BY <1>4, <2>1, <2>2, <2>3, MenuSteps
<1> QED BY <1>1, <1>2, <1>3, <1>4, WhoSteps

-----------------------------------------------------------------------------
\* The commands.

IInv == TInv /\ Places /\ FileBytes /\ ReadInv /\ WriteInv /\ SaidInv

(* IInv is inductive.                                                        *)
LEMMA Inductive == Spec => []IInv
<1>1. Init => IInv
  <2> SUFFICES ASSUME Init PROVE IInv
    OBVIOUS
  <2>1. pc = "off" /\ cmd = "none" /\ said = "none" /\ dumped = FALSE
    BY DEF Init
  <2>2. Places /\ FileBytes /\ ReadInv /\ WriteInv /\ SaidInv
    BY <2>1 DEF Places, FileBytes, ReadInv, Reading, WriteInv, SaidInv, ReadPcs, WritePcs
  <2> QED BY <2>2, TypesInductive DEF IInv
<1>2. IInv /\ [Next]_vars => IInv'
  BY TypesStep, PlacesStep, FileBytesStep, ReadInvStep, WriteInvStep, SaidInvStep DEF IInv
<1> QED BY <1>1, <1>2, PTL DEF Spec

(* A read in calm conditions returns the bytes of the EEPROM from address 0  *)
(* on, as many as were asked for, whatever earlier commands have left in the *)
(* controller, and leaves the EEPROM as it was.                              *)
THEOREM ReadsExact == Spec => []ReadExact
<1>1. IInv => ReadExact
  <2> SUFFICES ASSUME IInv, pc = "ret", Reading, Calm
               PROVE  buf = [i \in 1..Wanted |-> rom[(i - 1) % RomSize]] /\ rom = rom0
    BY DEF ReadExact, Reading
  <2>1. /\ rom = rom0 /\ Len(buf) = total /\ total + tlen + length = Wanted
        /\ tlen = 0 /\ length = 0
        /\ \A i \in 1 .. total : buf[i] = rom[(0 + i - 1) % RomSize]
    BY DEF IInv, ReadInv, ReadPlace, Holds
  <2>2. total \in Nat /\ buf \in Seq(Byte)
    BY DEF IInv, TInv, TypeOK
  <2>3. Wanted = total
    BY <2>1, <2>2
  <2> DEFINE s == [i \in 1 .. total |-> rom[(i - 1) % RomSize]]
  <2>4. \A i \in 1 .. total : s[i] = buf[i]
    <3>1. \A i \in 1 .. total : 0 + i - 1 = i - 1
      BY <2>2
    <3> QED BY <2>1, <3>1
  <2>5. s \in [1 .. total -> Byte]
    BY <2>1, <2>2, <2>4, ElementOfSeq
  <2>6. s = [i \in 1 .. Wanted |-> rom[(i - 1) % RomSize]]
    BY <2>3
  <2> HIDE DEF s
  <2>7. s \in Seq(Byte) /\ Len(s) = total
    BY <2>2, <2>5, SeqDef
  <2>8. buf = s
    BY <2>1, <2>2, <2>4, <2>7, SeqEqual
  <2> QED BY <2>1, <2>6, <2>8
<1> QED BY <1>1, Inductive, PTL

(* A write that reports its success has put every byte of the file at its    *)
(* address, the last one where addresses wrap, and has left the rest of the  *)
(* EEPROM alone: no block goes over the end of a page or of the FIFO.        *)
THEOREM WritesExact == Spec => []WriteExact
<1>1. IInv => WriteExact
  <2> SUFFICES ASSUME IInv, said = "written", Calm, NEW i \in Cells
               PROVE  LET hits == {j \in 1..Len(wdata) : (j - 1) % RomSize = i}
                      IN  IF hits = {} THEN rom[i] = rom0[i]
                          ELSE \E j \in hits : (\A k \in hits : k <= j) /\ rom[i] = wdata[j]
    BY DEF WriteExact
  <2>1. Written(Len(wdata))
    BY DEF IInv, SaidInv
  <2> DEFINE hits == Hits(i, Len(wdata))
  <2>2. hits = {j \in 1..Len(wdata) : (j - 1) % RomSize = i}
    BY DEF Hits
  <2>3. IF hits = {} THEN rom[i] = rom0[i]
        ELSE \E j \in hits : (\A k \in hits : k <= j) /\ rom[i] = wdata[j]
    BY <2>1 DEF Written
  <2> HIDE DEF hits
  <2> QED BY <2>2, <2>3
<1> QED BY <1>1, Inductive, PTL

(* From the second block on, a transfer starts only when the write cycle of  *)
(* the block before has ended.                                               *)
THEOREM WritesSpaced == Spec => []WriteSpaced
<1>1. IInv => WriteSpaced
  <2> SUFFICES ASSUME IInv, pc = "wr_addr", Calm, total > Burst PROVE ~ rom_busy
    BY DEF WriteSpaced
  <2>1. cmd = "write"
    BY DEF IInv, Places, WritePcs
  <2>2. Loaded
    BY <2>1 DEF IInv, WriteInv, WritePlace
  <2>3. PICK n \in 1 .. Burst : total > n => ~ rom_busy
    BY <2>2 DEF Loaded
  <2>4. total > n
    BY I2cAssumption DEF IInv, TInv, TypeOK
  <2> QED BY <2>3, <2>4
<1> QED BY <1>1, Inductive, PTL

(* Writing back a complete dump restores the EEPROM as it was when the dump  *)
(* was taken, at every address the dump covers, whatever has been done to it *)
(* in between.                                                               *)
THEOREM DumpsRestore == Spec => []DumpRestores
<1>1. IInv => DumpRestores
  <2> SUFFICES ASSUME IInv, said = "written", Calm, dumped, NEW i \in 1..(RecSize * Len(file))
               PROVE  rom[(i - 1) % RomSize] = snap[(i - 1) % RomSize]
    BY DEF DumpRestores
  <2>1. /\ Written(Len(wdata)) /\ wdata = FileData /\ Readable
        /\ \A j \in 1..(RecSize * Len(file)) : FileData[j] = snap[(j - 1) % RomSize]
    BY DEF IInv, SaidInv, FileBytes
  <2>2. Len(wdata) = RecSize * Len(file)
    BY <2>1, FileDataType DEF IInv, TInv
  <2> DEFINE c == (i - 1) % RomSize
  <2>3. c \in Cells /\ i \in Hits(c, Len(wdata))
    <3>1. i - 1 \in Int
      BY <2>1 DEF IInv, TInv, TypeOK, RecSize
    <3> QED BY <2>2, <3>1, CellTypes DEF Hits
  <2> HIDE DEF c
  <2>4. PICK j \in Hits(c, Len(wdata)) : rom[c] = wdata[j]
    BY <2>1, <2>3 DEF Written
  <2>5. j \in 1..(RecSize * Len(file)) /\ (j - 1) % RomSize = c
    BY <2>2, <2>4 DEF Hits
  <2>6. rom[c] = snap[c]
    BY <2>1, <2>4, <2>5
  <2> QED BY <2>6 DEF c
<1> QED BY <1>1, Inductive, PTL

(* What the comparison says of the EEPROM and the file is so.                *)
THEOREM ComparesTrue == Spec => []CompareTruth
<1>1. IInv => CompareTruth
  BY DEF IInv, SaidInv, CompareTruth
<1> QED BY <1>1, Inductive, PTL

=============================================================================
