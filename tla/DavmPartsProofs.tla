-------------------------- MODULE DavmPartsProofs --------------------------
(***************************************************************************)
(* The parts of DAVM apart from its processor.                             *)
(* The memory: for every page size, address space and sequence of chunks,  *)
(* a process gets exactly the pages its chunks touch.  The invariant is    *)
(* MappedSoFar; what it takes is that a step of a page never skips a page, *)
(* and that where the loop stops for fear of an overflow the rest of the   *)
(* chunk is on the same page.                                              *)
(* The words: for every instruction the compiler emits, unpacking the word *)
(* it is packed into gives it back, and patching a target in the word      *)
(* changes the target and nothing else.                                    *)
(***************************************************************************)
EXTENDS ProcessMemory, Encoding, TLAPS


(* Division is what the pages are made of.                                 *)
LEMMA Quotient ==
  ASSUME NEW p \in Nat \ {0}, NEW x \in Nat
  PROVE  /\ x \div p \in Nat
         /\ p * (x \div p) <= x
         /\ x < p * (x \div p) + p
  BY SMT

LEMMA QuotientIs ==
  ASSUME NEW p \in Nat \ {0}, NEW x \in Nat, NEW q \in Nat,
         p * q <= x, x < p * q + p
  PROVE  x \div p = q
  BY SMT

LEMMA SmallRemainder ==
  ASSUME NEW n \in Nat \ {0}, NEW x \in 0 .. n - 1
  PROVE  x % n = x
  BY SMT

(* A later address is on the same or a later page.                         *)
LEMMA PagesInOrder ==
  ASSUME NEW x \in Addresses, NEW y \in Addresses, x <= y
  PROVE  /\ PageOfAddr(x) \in Nat
         /\ PageOfAddr(x) <= PageOfAddr(y)
         /\ PageOfAddr(x) \in Pages
<1> DEFINE qx == x \div PageSize
           qy == y \div PageSize
           qm == kMaxAddress \div PageSize
<1>1. PageSize \in Nat \ {0} /\ x \in Nat /\ y \in Nat /\ kMaxAddress \in Nat
  BY PagesAssumption DEF Addresses, kMaxAddress
<1>2. /\ qx \in Nat /\ qy \in Nat /\ qm \in Nat
      /\ PageSize * qx <= x /\ y < PageSize * qy + PageSize
      /\ kMaxAddress < PageSize * qm + PageSize
  BY <1>1, Quotient
<1>3. x <= kMaxAddress
  BY DEF Addresses, kMaxAddress
<1> HIDE DEF qx, qy, qm
<1>4. PageSize * qx < PageSize * (qy + 1) /\ PageSize * qx < PageSize * (qm + 1)
  BY <1>1, <1>2, <1>3
<1>5. qx < qy + 1 /\ qx < qm + 1
  BY <1>1, <1>2, <1>4, SMT
<1>6. qx <= qy /\ qx <= qm
  BY <1>2, <1>5
<1> QED
  BY <1>2, <1>6 DEF PageOfAddr, Pages, qx, qy, qm

(* A page further is the next page.                                        *)
LEMMA NextPage ==
  ASSUME NEW x \in Addresses
  PROVE  PageOfAddr(x + PageSize) = PageOfAddr(x) + 1
<1> DEFINE q == x \div PageSize
<1>1. PageSize \in Nat \ {0} /\ x \in Nat
  BY PagesAssumption DEF Addresses, kMaxAddress
<1>2. q \in Nat /\ PageSize * q <= x /\ x < PageSize * q + PageSize
  BY <1>1, Quotient
<1> HIDE DEF q
<1>3. PageSize * (q + 1) = PageSize * q + PageSize
  BY <1>1, <1>2
<1>4. PageSize * (q + 1) <= x + PageSize /\ x + PageSize < PageSize * (q + 1) + PageSize
  BY <1>1, <1>2, <1>3
<1>5. (x + PageSize) \div PageSize = q + 1
  BY <1>1, <1>2, <1>4, QuotientIs
<1> QED
  BY <1>5 DEF PageOfAddr, q

(* From the start of the last page on there is one page only, because the  *)
(* pages fill the address space.                                           *)
LEMMA OneLastPage ==
  ASSUME NEW x \in Addresses, NEW y \in Addresses, x <= y,
         x >= kMaxAddress - PageSize + 1
  PROVE  PageOfAddr(x) = PageOfAddr(y)
<1> DEFINE k == AddrSpace \div PageSize
<1>1. PageSize \in Nat \ {0} /\ AddrSpace \in Nat \ {0} /\ x \in Nat /\ y \in Nat
  BY PagesAssumption DEF Addresses, kMaxAddress
<1>2. k \in Nat /\ AddrSpace = PageSize * k
  BY <1>1, PagesAssumption, SMT
<1> HIDE DEF k
<1>3. k # 0
  BY <1>1, <1>2
<1>4. k - 1 \in Nat /\ PageSize * (k - 1) = AddrSpace - PageSize
  BY <1>1, <1>2, <1>3
<1>5. /\ PageSize * (k - 1) <= x /\ x < PageSize * (k - 1) + PageSize
      /\ PageSize * (k - 1) <= y /\ y < PageSize * (k - 1) + PageSize
  BY <1>1, <1>4 DEF Addresses, kMaxAddress
<1>6. x \div PageSize = k - 1 /\ y \div PageSize = k - 1
  BY <1>1, <1>4, <1>5, QuotientIs
<1> QED
  BY <1>6 DEF PageOfAddr

(* The pages of the first n chunks and the next one's are those of n + 1.  *)
LEMMA OneChunkMore ==
  ASSUME NEW n \in Nat
  PROVE  PagesOfFirst(n + 1) = PagesOfFirst(n) \cup PagesTouched(chunks[n + 1])
<1>1. 1 .. n + 1 = (1 .. n) \cup {n + 1}
  OBVIOUS
<1> QED
  BY <1>1 DEF PagesOfFirst

LEMMA ChunksAreChunks ==
  ASSUME TypeOK, next <= Len(chunks)
  PROVE  /\ Len(chunks) \in Nat
         /\ Chunk.low \in Addresses /\ Chunk.high \in Addresses
         /\ Chunk.low <= Chunk.high
<1>1. chunks \in Seq(MemChunk) /\ next \in 1 .. Len(chunks)
  BY ChunksAssumption DEF TypeOK
<1>2. chunks[next] \in MemChunk
  BY <1>1
<1> QED
  BY <1>1, <1>2, ChunksAssumption DEF TypeOK, Chunk, MemChunk

-----------------------------------------------------------------------------
IInv == TypeOK /\ MappedSoFar

LEMMA Initially == Init => IInv
<1> SUFFICES ASSUME Init PROVE IInv
  OBVIOUS
<1>1. Len(chunks) \in Nat
  BY ChunksAssumption DEF Init
<1>2. 0 \in Addresses
  BY PagesAssumption DEF Addresses, kMaxAddress
<1>3. PagesOfFirst(next - 1) = {}
  BY DEF PagesOfFirst, Init
<1>4. TypeOK
  <2>1. next \in 1 .. Len(chunks) + 1
    BY <1>1 DEF Init
  <2> QED
    BY <1>2, <2>1 DEF Init, TypeOK
<1>5. MappedSoFar
  BY <1>3 DEF Init, MappedSoFar
<1> QED
  BY <1>4, <1>5 DEF IInv

LEMMA StartKeeps ==
  ASSUME IInv, StartChunk
  PROVE  IInv'
<1>1. /\ Len(chunks) \in Nat /\ next \in Nat /\ next <= Len(chunks)
      /\ Chunk.low \in Addresses /\ Chunk.high \in Addresses /\ Chunk.low <= Chunk.high
  BY ChunksAreChunks DEF IInv, TypeOK, StartChunk
<1>2. PageOfAddr(Chunk.low) \in Pages /\ PageOfAddr(Chunk.low) \in Nat
  BY <1>1, PagesInOrder DEF Addresses
<1>3. TypeOK'
  BY <1>1, <1>2 DEF IInv, TypeOK, StartChunk, AllocateLogical
<1>4. Chunk' = Chunk /\ \A n : PagesOfFirst(n)' = PagesOfFirst(n)
  BY DEF StartChunk, Chunk, PagesOfFirst
<1>5. PageOfAddr(Chunk.low) .. PageOfAddr(Chunk.low) = {PageOfAddr(Chunk.low)}
  BY <1>2
<1>6. pages' = PagesOfFirst(next - 1) \cup {PageOfAddr(Chunk.low)}
  BY DEF IInv, MappedSoFar, StartChunk, AllocateLogical
<1>7. Chunk.low <= Chunk.low
  BY <1>1 DEF Addresses, kMaxAddress
<1> QED
  BY <1>1, <1>3, <1>4, <1>5, <1>6, <1>7 DEF IInv, MappedSoFar, StartChunk

(* Leaving the loop with the page of the chunk's end mapped completes it.  *)
LEMMA LeaveKeeps ==
  ASSUME IInv, walking, chunks' = chunks, walking' = FALSE, next' = next + 1, a' \in Addresses,
         pages' = PagesOfFirst(next - 1) \cup PageOfAddr(Chunk.low) .. PageOfAddr(Chunk.high)
  PROVE  IInv'
<1>1. /\ Len(chunks) \in Nat /\ next \in Nat \ {0} /\ next <= Len(chunks)
      /\ Chunk.low \in Addresses /\ Chunk.high \in Addresses /\ Chunk.low <= Chunk.high
  BY ChunksAreChunks DEF IInv, TypeOK, MappedSoFar
<1>2. PageOfAddr(Chunk.high) \in Pages /\ PageOfAddr(Chunk.low) \in Nat
  BY <1>1, PagesInOrder DEF Addresses
<1>3. PagesOfFirst(next - 1) \subseteq pages
  BY DEF IInv, MappedSoFar
<1>4. kMaxAddress \in Nat /\ kMaxAddress \div PageSize \in Nat
  BY PagesAssumption, Quotient DEF kMaxAddress
<1>5. PageOfAddr(Chunk.low) .. PageOfAddr(Chunk.high) \subseteq Pages
  BY <1>2, <1>4 DEF Pages
<1>6. TypeOK'
  <2>1. pages' \subseteq Pages
    BY <1>3, <1>5 DEF IInv, TypeOK
  <2>2. next' \in 1 .. Len(chunks) + 1
    BY <1>1
  <2>3. chunks' \in ChunkLists
    BY DEF IInv, TypeOK
  <2> QED
    BY <2>1, <2>2, <2>3 DEF TypeOK
<1>7. PagesOfFirst(next) = PagesOfFirst(next - 1) \cup PagesTouched(Chunk)
  BY <1>1, OneChunkMore, next - 1 \in Nat, (next - 1) + 1 = next DEF Chunk
<1>8. next' - 1 = next /\ PagesOfFirst(next - 1)' = PagesOfFirst(next)
  BY <1>1 DEF PagesOfFirst
<1>9. pages' = PagesOfFirst(next - 1)'
  BY <1>7, <1>8 DEF PagesTouched
<1>10. MappedSoFar'
  BY <1>9 DEF MappedSoFar
<1> QED
  BY <1>6, <1>10 DEF IInv

LEMMA EndKeeps ==
  ASSUME IInv, EndOfMemory
  PROVE  IInv'
<1>1. /\ walking /\ next <= Len(chunks) /\ a \in Addresses /\ a <= Chunk.high
      /\ Chunk.high \in Addresses
  BY ChunksAreChunks DEF IInv, TypeOK, MappedSoFar, EndOfMemory
<1>2. PageOfAddr(a) = PageOfAddr(Chunk.high)
  BY <1>1, OneLastPage DEF EndOfMemory, InLastPage
<1>3. pages' = PagesOfFirst(next - 1) \cup PageOfAddr(Chunk.low) .. PageOfAddr(Chunk.high)
  BY <1>1, <1>2 DEF IInv, MappedSoFar, EndOfMemory
<1> QED
  BY <1>1, <1>3, LeaveKeeps DEF EndOfMemory

LEMMA AdvanceKeeps ==
  ASSUME IInv, Advance
  PROVE  IInv'
<1>1. /\ walking /\ next <= Len(chunks) /\ next \in Nat /\ a \in Addresses
      /\ Chunk.low <= a /\ a <= Chunk.high
      /\ Chunk.low \in Addresses /\ Chunk.high \in Addresses /\ Len(chunks) \in Nat
  BY ChunksAreChunks DEF IInv, TypeOK, MappedSoFar, Advance
<1>2. PageSize \in Nat \ {0} /\ AddrSpace \in Nat \ {0} /\ kMaxAddress = AddrSpace - 1
  BY PagesAssumption DEF kMaxAddress
<1>3. a \in Nat /\ a + PageSize \in 0 .. AddrSpace - 1
  BY <1>1, <1>2 DEF Advance, InLastPage, Addresses
<1>4. NextAddr = a + PageSize /\ NextAddr \in Addresses
  BY <1>2, <1>3, SmallRemainder DEF NextAddr, Addresses
<1>5. /\ PageOfAddr(NextAddr) = PageOfAddr(a) + 1
      /\ PageOfAddr(Chunk.low) \in Nat /\ PageOfAddr(a) \in Nat
      /\ PageOfAddr(Chunk.low) <= PageOfAddr(a)
      /\ PageOfAddr(a) <= PageOfAddr(Chunk.high) /\ PageOfAddr(Chunk.high) \in Nat
  BY <1>1, <1>4, NextPage, PagesInOrder DEF Addresses
<1>6. pages = PagesOfFirst(next - 1) \cup PageOfAddr(Chunk.low) .. PageOfAddr(a)
  BY <1>1 DEF IInv, MappedSoFar
<1>7. CASE NextAddr >= Chunk.high
  <2>1. PageOfAddr(Chunk.high) <= PageOfAddr(a) + 1
    BY <1>1, <1>4, <1>5, <1>7, PagesInOrder
  <2>2. (PageOfAddr(Chunk.low) .. PageOfAddr(a)) \cup {PageOfAddr(Chunk.high)}
          = PageOfAddr(Chunk.low) .. PageOfAddr(Chunk.high)
    BY <1>5, <2>1
  <2>3. /\ a' = Chunk.high /\ walking' = FALSE /\ next' = next + 1
        /\ pages' = pages \cup {PageOfAddr(Chunk.high)} /\ UNCHANGED chunks
    BY <1>7 DEF Advance, AllocateLogical
  <2>4. pages' = PagesOfFirst(next - 1) \cup PageOfAddr(Chunk.low) .. PageOfAddr(Chunk.high)
    BY <1>6, <2>2, <2>3
  <2> QED
    BY <1>1, <2>3, <2>4, LeaveKeeps
<1>8. CASE ~(NextAddr >= Chunk.high)
  <2>1. /\ a' = NextAddr /\ UNCHANGED <<walking, next, chunks>>
        /\ pages' = pages \cup {PageOfAddr(NextAddr)}
    BY <1>8 DEF Advance, AllocateLogical
  <2>2. PageOfAddr(NextAddr) \in Pages
    BY <1>4, PagesInOrder DEF Addresses
  <2>3. TypeOK'
    BY <1>4, <2>1, <2>2 DEF IInv, TypeOK
  <2>4. (PageOfAddr(Chunk.low) .. PageOfAddr(a)) \cup {PageOfAddr(NextAddr)}
          = PageOfAddr(Chunk.low) .. PageOfAddr(NextAddr)
    BY <1>5
  <2>5. pages' = PagesOfFirst(next - 1) \cup PageOfAddr(Chunk.low) .. PageOfAddr(NextAddr)
    BY <1>6, <2>1, <2>4
  <2>6. Chunk' = Chunk /\ PagesOfFirst(next - 1)' = PagesOfFirst(next - 1)
    BY <2>1 DEF Chunk, PagesOfFirst
  <2>7. PageOfAddr(Chunk.low)' .. PageOfAddr(a)' = PageOfAddr(Chunk.low) .. PageOfAddr(NextAddr)
    BY <2>1, <2>6 DEF PageOfAddr
  <2>8. /\ Chunk.low <= NextAddr /\ NextAddr <= Chunk.high
    BY <1>1, <1>2, <1>3, <1>4, <1>8 DEF Addresses
  <2> QED
    BY <1>1, <2>1, <2>3, <2>5, <2>6, <2>7, <2>8 DEF IInv, MappedSoFar
<1> QED
  BY <1>7, <1>8

LEMMA StepsKeep == IInv /\ [Next]_vars => IInv'
<1> SUFFICES ASSUME IInv, [Next]_vars PROVE IInv'
  OBVIOUS
<1>1. CASE StartChunk
  BY <1>1, StartKeeps
<1>2. CASE EndOfMemory
  BY <1>2, EndKeeps
<1>3. CASE Advance
  BY <1>3, AdvanceKeeps
<1>4. CASE UNCHANGED vars
  BY <1>4 DEF vars, IInv, TypeOK, MappedSoFar, Chunk, PagesOfFirst, PagesTouched, PageOfAddr
<1> QED
  BY <1>1, <1>2, <1>3, <1>4 DEF Next

(* When the constructor of a process is through, its page table has every  *)
(* page a chunk touches and no other, whatever the chunks.                 *)
THEOREM ChunksAreMapped == Spec => []ExactlyTheChunksAreMapped
<1>1. IInv => ExactlyTheChunksAreMapped
  <2> SUFFICES ASSUME IInv, Done PROVE pages = PagesOfFirst(Len(chunks))
    BY DEF ExactlyTheChunksAreMapped
  <2>1. Len(chunks) \in Nat /\ next \in 1 .. Len(chunks) + 1
    BY ChunksAssumption DEF IInv, TypeOK
  <2>2. next - 1 = Len(chunks) /\ ~(next <= Len(chunks))
    BY <2>1 DEF Done
  <2> QED
    BY <2>2 DEF IInv, MappedSoFar
<1> QED
  BY <1>1, Initially, StepsKeep, PTL DEF Spec

-----------------------------------------------------------------------------
(* The words of instructions.                                              *)

Registers == 0..2^kRegisterNumBits - 1
Literals == -MaxLiteral..MaxLiteral
Halfwords == {l \in Nat : l < 65536}
Below(n) == {m \in Nat : m < n}

(* The instructions as IRBuilder makes them: a class has its own fields,    *)
(* the others stay blank.                                                   *)
OfClass(class) == {op \in DOMAIN IRCodf : ClassOf(op) = class}
SubtypesOf(op) == {Subtypes[op][n] : n \in DOMAIN Subtypes[op]}
Jumping(op, lit) == [Blank EXCEPT !.op = op, !.lit = lit]
Addressing(op, reg, reg2, lit) == [Blank EXCEPT !.op = op, !.reg = reg, !.reg2 = reg2, !.lit = lit]
WithLiteral(op, sub, reg, lit) == [Blank EXCEPT !.op = op, !.sub = sub, !.reg = reg, !.lit = lit]
OnRegisters(op, sub, reg, reg2, dst) ==
  [Blank EXCEPT !.op = op, !.sub = sub, !.reg = reg, !.reg2 = reg2, !.dst = dst]

IsInstruction(i) ==
  \/ \E op \in OfClass(0), lit \in Literals : i = Jumping(op, lit)
  \/ \E op \in OfClass(1), reg \in Registers, reg2 \in Registers, lit \in Literals :
        i = Addressing(op, reg, reg2, lit)
  \/ \E op \in OfClass(2) : \E sub \in SubtypesOf(op), reg \in Registers, lit \in Literals :
        i = WithLiteral(op, sub, reg, lit)
  \/ \E op \in OfClass(3) :
        \E sub \in SubtypesOf(op), reg \in Registers, reg2 \in Registers, dst \in Registers :
          i = OnRegisters(op, sub, reg, reg2, dst)

-----------------------------------------------------------------------------
LEMMA Widths ==
  /\ kOpcodeNumBits(0) = 5 /\ kOpcodeNumBits(1) = 5 /\ kOpcodeNumBits(2) = 3 /\ kOpcodeNumBits(3) = 4
  /\ kInstTypeNumBits[0] = 3 /\ kInstTypeNumBits[1] = 3 /\ kInstTypeNumBits[2] = 1 /\ kInstTypeNumBits[3] = 2
  /\ MaxLiteral = 32767 /\ kLiteralSignPosition = 15 /\ kRegisterNumBits = 4
BY DEF kOpcodeNumBits, kClassNumBits, kInstTypeNumBits, MaxLiteral, kLiteralSignPosition,
       kLiteralNumBits, kRegisterNumBits

LEMMA LiteralRange == \A l \in Literals : l \in Int /\ -32767 <= l /\ l <= 32767
<1>1. MaxLiteral \in Int  BY Widths
<1>2. \A l \in Literals : l \in Int /\ -MaxLiteral <= l /\ l <= MaxLiteral  BY <1>1 DEF Literals
<1>3. MaxLiteral = 32767  BY Widths
<1> QED BY <1>2, <1>3

(* Packed and unpacked, a literal that fits is the same. *)
LEMMA LiteralIsKept ==
  ASSUME NEW l \in Literals
  PROVE  Code(l) \in Halfwords /\ Decode(Code(l)) = l
<1>1. l \in Int /\ -32767 <= l /\ l <= 32767  BY LiteralRange
<1>2. Magnitude(l) = IF l < 0 THEN -l ELSE l  BY <1>1, Widths DEF Magnitude
<1>3. 2^15 = 32768  OBVIOUS
<1>4. CASE l < 0
  <2>1. Code(l) = -l + 32768  BY <1>1, <1>2, <1>3, <1>4, Widths DEF Code
  <2>2. Code(l) \in Nat  BY <1>1, <1>4, <2>1
  <2>3. Code(l) % 32768 = -l  BY <1>1, <1>4, <2>1
  <2>4. (Code(l) \div 32768) % 2 = 1  BY <1>1, <1>4, <2>1
  <2>5. Bits(Code(l), 0, 15) = -l /\ Bits(Code(l), 15, 1) = 1  BY <2>2, <2>3, <2>4 DEF Bits
  <2> QED BY <1>1, <1>4, <2>1, <2>5, Widths DEF Decode, Halfwords
<1>5. CASE ~(l < 0)
  <2>1. Code(l) = l  BY <1>1, <1>2, <1>3, <1>5, Widths DEF Code
  <2>2. Code(l) \in Nat  BY <1>1, <1>5, <2>1
  <2>3. Code(l) % 32768 = l  BY <1>1, <1>5, <2>1
  <2>4. (Code(l) \div 32768) % 2 = 0  BY <1>1, <1>5, <2>1
  <2>5. Bits(Code(l), 0, 15) = l /\ Bits(Code(l), 15, 1) = 0  BY <2>2, <2>3, <2>4 DEF Bits
  <2> QED BY <1>1, <1>5, <2>1, <2>5, Widths DEF Decode, Halfwords
<1> QED BY <1>4, <1>5

LEMMA RegisterRange == \A r \in Registers : r \in Nat /\ r < 16
BY Widths DEF Registers

(* The sum a word of each class is, with every field at its place. *)
Sum0(t, l) == t + l * 32
Sum1(t, r, b, l) == t + r * 32 + b * 512 + l * 8192
Sum2(t, u, r, l) == t + u * 8 + r * 64 + l * 1024
Sum3(t, u, r, b, d) == t + u * 16 + r * 128 + b * 2048 + d * 32768

(* The fields of a word of each class, from the opcode up. *)
LEMMA Fields0 ==
  ASSUME NEW t \in Below(32), NEW l \in Halfwords
  PROVE  /\ Sum0(t, l) \in Nat
         /\ Bits(Sum0(t, l), 0, 2) = t % 4
         /\ Bits(Sum0(t, l), 2, 3) = t \div 4
         /\ Bits(Sum0(t, l), 0, 5) = t
         /\ Bits(Sum0(t, l), 5, 16) = l
<1> DEFINE w == Sum0(t, l)
<1>0. /\ t \in Nat /\ t < 32
      /\ l \in Nat /\ l < 65536
      /\ w = t + l * 32
  BY RegisterRange DEF Sum0, Below, Halfwords
<1> HIDE DEF w
<1>1. w \in Nat  BY <1>0
<1>2. w % 4 = t % 4  BY <1>0
<1>3. (w \div 4) % 8 = t \div 4
  <2> DEFINE rest == l
             type == t \div 4
  <2>1. w \div 4 = type + 8 * rest  BY <1>0
  <2>2. type \in Nat /\ type < 8 /\ rest \in Nat  BY <1>0
  <2> HIDE DEF rest, type
  <2>3. (type + 8 * rest) % 8 = type  BY <2>2
  <2> QED BY <2>1, <2>3 DEF type
<1>4. w % 32 = t  BY <1>0
<1>5. (w \div 32) % 65536 = l
  <2>1. w \div 32 = l  BY <1>0
  <2>2. l % 65536 = l  BY <1>0
  <2> QED BY <2>1, <2>2
<1> QED BY <1>1, <1>2, <1>3, <1>4, <1>5 DEF Bits, w

LEMMA Fields1 ==
  ASSUME NEW t \in Below(32), NEW r \in Registers, NEW b \in Registers, NEW l \in Halfwords
  PROVE  /\ Sum1(t, r, b, l) \in Nat
         /\ Bits(Sum1(t, r, b, l), 0, 2) = t % 4
         /\ Bits(Sum1(t, r, b, l), 2, 3) = t \div 4
         /\ Bits(Sum1(t, r, b, l), 0, 5) = t
         /\ Bits(Sum1(t, r, b, l), 5, 4) = r
         /\ Bits(Sum1(t, r, b, l), 9, 4) = b
         /\ Bits(Sum1(t, r, b, l), 13, 16) = l
<1> DEFINE w == Sum1(t, r, b, l)
<1>0. /\ t \in Nat /\ t < 32
      /\ r \in Nat /\ r < 16
      /\ b \in Nat /\ b < 16
      /\ l \in Nat /\ l < 65536
      /\ w = t + r * 32 + b * 512 + l * 8192
  BY RegisterRange DEF Sum1, Below, Halfwords
<1> HIDE DEF w
<1>1. w \in Nat  BY <1>0
<1>2. w % 4 = t % 4  BY <1>0
<1>3. (w \div 4) % 8 = t \div 4
  <2> DEFINE rest == r + b * 16 + l * 256
             type == t \div 4
  <2>1. w \div 4 = type + 8 * rest  BY <1>0
  <2>2. type \in Nat /\ type < 8 /\ rest \in Nat  BY <1>0
  <2> HIDE DEF rest, type
  <2>3. (type + 8 * rest) % 8 = type  BY <2>2
  <2> QED BY <2>1, <2>3 DEF type
<1>4. w % 32 = t  BY <1>0
<1>5. (w \div 32) % 16 = r
  <2>1. w \div 32 = r + b * 16 + l * 256  BY <1>0
  <2>2. (r + b * 16 + l * 256) % 16 = r  BY <1>0
  <2> QED BY <2>1, <2>2
<1>6. (w \div 512) % 16 = b
  <2>1. w \div 512 = b + l * 16  BY <1>0
  <2>2. (b + l * 16) % 16 = b  BY <1>0
  <2> QED BY <2>1, <2>2
<1>7. (w \div 8192) % 65536 = l
  <2>1. w \div 8192 = l  BY <1>0
  <2>2. l % 65536 = l  BY <1>0
  <2> QED BY <2>1, <2>2
<1> QED BY <1>1, <1>2, <1>3, <1>4, <1>5, <1>6, <1>7 DEF Bits, w

LEMMA Fields2 ==
  ASSUME NEW t \in Below(8), NEW u \in Below(8), NEW r \in Registers, NEW l \in Halfwords
  PROVE  /\ Sum2(t, u, r, l) \in Nat
         /\ Bits(Sum2(t, u, r, l), 0, 2) = t % 4
         /\ Bits(Sum2(t, u, r, l), 2, 1) = t \div 4
         /\ Bits(Sum2(t, u, r, l), 0, 3) = t
         /\ Bits(Sum2(t, u, r, l), 3, 3) = u
         /\ Bits(Sum2(t, u, r, l), 6, 4) = r
         /\ Bits(Sum2(t, u, r, l), 10, 16) = l
<1> DEFINE w == Sum2(t, u, r, l)
<1>0. /\ t \in Nat /\ t < 8
      /\ u \in Nat /\ u < 8
      /\ r \in Nat /\ r < 16
      /\ l \in Nat /\ l < 65536
      /\ w = t + u * 8 + r * 64 + l * 1024
  BY RegisterRange DEF Sum2, Below, Halfwords
<1> HIDE DEF w
<1>1. w \in Nat  BY <1>0
<1>2. w % 4 = t % 4  BY <1>0
<1>3. (w \div 4) % 2 = t \div 4
  <2> DEFINE rest == u + r * 8 + l * 128
             type == t \div 4
  <2>1. w \div 4 = type + 2 * rest  BY <1>0
  <2>2. type \in Nat /\ type < 2 /\ rest \in Nat  BY <1>0
  <2> HIDE DEF rest, type
  <2>3. (type + 2 * rest) % 2 = type  BY <2>2
  <2> QED BY <2>1, <2>3 DEF type
<1>4. w % 8 = t  BY <1>0
<1>5. (w \div 8) % 8 = u
  <2>1. w \div 8 = u + r * 8 + l * 128  BY <1>0
  <2>2. (u + r * 8 + l * 128) % 8 = u  BY <1>0
  <2> QED BY <2>1, <2>2
<1>6. (w \div 64) % 16 = r
  <2>1. w \div 64 = r + l * 16  BY <1>0
  <2>2. (r + l * 16) % 16 = r  BY <1>0
  <2> QED BY <2>1, <2>2
<1>7. (w \div 1024) % 65536 = l
  <2>1. w \div 1024 = l  BY <1>0
  <2>2. l % 65536 = l  BY <1>0
  <2> QED BY <2>1, <2>2
<1> QED BY <1>1, <1>2, <1>3, <1>4, <1>5, <1>6, <1>7 DEF Bits, w

LEMMA Fields3 ==
  ASSUME NEW t \in Below(16), NEW u \in Below(8), NEW r \in Registers, NEW b \in Registers, NEW d \in Registers
  PROVE  /\ Sum3(t, u, r, b, d) \in Nat
         /\ Bits(Sum3(t, u, r, b, d), 0, 2) = t % 4
         /\ Bits(Sum3(t, u, r, b, d), 2, 2) = t \div 4
         /\ Bits(Sum3(t, u, r, b, d), 4, 3) = u
         /\ Bits(Sum3(t, u, r, b, d), 7, 4) = r
         /\ Bits(Sum3(t, u, r, b, d), 11, 4) = b
         /\ Bits(Sum3(t, u, r, b, d), 15, 4) = d
<1> DEFINE w == Sum3(t, u, r, b, d)
<1>0. /\ t \in Nat /\ t < 16
      /\ u \in Nat /\ u < 8
      /\ r \in Nat /\ r < 16
      /\ b \in Nat /\ b < 16
      /\ d \in Nat /\ d < 16
      /\ w = t + u * 16 + r * 128 + b * 2048 + d * 32768
  BY RegisterRange DEF Sum3, Below, Halfwords
<1> HIDE DEF w
<1>1. w \in Nat  BY <1>0
<1>2. w % 4 = t % 4  BY <1>0
<1>3. (w \div 4) % 4 = t \div 4
  <2> DEFINE rest == u + r * 8 + b * 128 + d * 2048
             type == t \div 4
  <2>1. w \div 4 = type + 4 * rest  BY <1>0
  <2>2. type \in Nat /\ type < 4 /\ rest \in Nat  BY <1>0
  <2> HIDE DEF rest, type
  <2>3. (type + 4 * rest) % 4 = type  BY <2>2
  <2> QED BY <2>1, <2>3 DEF type
<1>4. w % 16 = t  BY <1>0
<1>5. (w \div 16) % 8 = u
  <2>1. w \div 16 = u + r * 8 + b * 128 + d * 2048  BY <1>0
  <2>2. (u + r * 8 + b * 128 + d * 2048) % 8 = u  BY <1>0
  <2> QED BY <2>1, <2>2
<1>6. (w \div 128) % 16 = r
  <2>1. w \div 128 = r + b * 16 + d * 256  BY <1>0
  <2>2. (r + b * 16 + d * 256) % 16 = r  BY <1>0
  <2> QED BY <2>1, <2>2
<1>7. (w \div 2048) % 16 = b
  <2>1. w \div 2048 = b + d * 16  BY <1>0
  <2>2. (b + d * 16) % 16 = b  BY <1>0
  <2> QED BY <2>1, <2>2
<1>8. (w \div 32768) % 16 = d
  <2>1. w \div 32768 = d  BY <1>0
  <2>2. d % 16 = d  BY <1>0
  <2> QED BY <2>1, <2>2
<1> QED BY <1>1, <1>2, <1>3, <1>4, <1>5, <1>6, <1>7, <1>8 DEF Bits, w

-----------------------------------------------------------------------------
Ops == DOMAIN IRCodf

LEMMA Ops17 ==
  Ops = {"STOP", "JMP", "CALL", "RET", "LOAD", "LOADI", "STORE", "LOADB", "STOREB", "PUSH",
         "POP", "LEA", "JMPC", "ARII", "ARI", "CMP", "LOGIC"}
BY DEF Ops, IRCodf

(* The class of an instruction is in the low bits of its opcode, and every  *)
(* instruction has an opcode of its own.                                    *)
LEMMA OpCodes ==
  ASSUME NEW op \in Ops
  PROVE  /\ ClassOf(op) \in 0..3
         /\ OpCode(op) \in Nat
         /\ OpCode(op) % 4 = ClassOf(op)
         /\ OpCode(op) = ClassOf(op) + (OpCode(op) \div 4) * 4
         /\ ClassOf(op) \in {0, 1} => OpCode(op) < 32
         /\ ClassOf(op) = 2 => OpCode(op) < 8
         /\ ClassOf(op) = 3 => OpCode(op) < 16
         /\ \A o \in Ops : OpCode(o) = OpCode(op) => o = op
<1>1. \A o \in Ops : OpCode(o) =
        CASE o = "STOP" -> 4 [] o = "JMP" -> 12 [] o = "CALL" -> 16 [] o = "RET" -> 24
          [] o = "LOAD" -> 1 [] o = "LOADI" -> 5 [] o = "STORE" -> 9 [] o = "LOADB" -> 13
          [] o = "STOREB" -> 17 [] o = "PUSH" -> 21 [] o = "POP" -> 25 [] o = "LEA" -> 29
          [] o = "JMPC" -> 2 [] o = "ARII" -> 6
          [] o = "ARI" -> 3 [] o = "CMP" -> 7 [] o = "LOGIC" -> 11
  BY Ops17 DEF OpCode, ClassOf, IRCodf, kClassNumBits
<1>2. \A o \in Ops : ClassOf(o) =
        IF o \in {"STOP", "JMP", "CALL", "RET"} THEN 0
        ELSE IF o \in {"JMPC", "ARII"} THEN 2
        ELSE IF o \in {"ARI", "CMP", "LOGIC"} THEN 3 ELSE 1
  BY Ops17 DEF ClassOf, IRCodf
<1>3. \A o \in Ops : OpCode(o) = OpCode(op) => o = op  BY <1>1, Ops17
<1>4. OpCode(op) \in Nat /\ ClassOf(op) \in 0..3 BY <1>1, <1>2, Ops17
<1>5. OpCode(op) % 4 = ClassOf(op)  BY <1>1, <1>2, Ops17
<1>6. OpCode(op) = ClassOf(op) + (OpCode(op) \div 4) * 4  BY <1>4, <1>5
<1>7. /\ ClassOf(op) \in {0, 1} => OpCode(op) < 32
      /\ ClassOf(op) = 2 => OpCode(op) < 8
      /\ ClassOf(op) = 3 => OpCode(op) < 16
  BY <1>1, <1>2, Ops17
<1> QED BY <1>3, <1>4, <1>5, <1>6, <1>7

(* A word whose low bits are the opcode of an instruction is decoded as it. *)
LEMMA Names ==
  ASSUME NEW op \in Ops, NEW w,
         DecodeClass(w) = OpCode(op) % 4,
         DecodeType(w, ClassOf(op)) = OpCode(op) \div 4
  PROVE  Decoded(w) = [ CASE ClassOf(op) = 0 -> DecodeClass0(w)
                          [] ClassOf(op) = 1 -> DecodeClass1(w)
                          [] ClassOf(op) = 2 -> DecodeClass2(w, op)
                          [] ClassOf(op) = 3 -> DecodeClass3(w, op) EXCEPT !.op = op ]
<1> DEFINE class == DecodeClass(w)
           code == DecodeOpCode(class, DecodeType(w, class))
           named == {o \in DOMAIN IRCodf : OpCode(o) = code}
<1>1. class = ClassOf(op)  BY OpCodes
<1>2. code = OpCode(op)  BY <1>1, OpCodes DEF DecodeOpCode, kClassNumBits
<1>3. named = {op}  BY <1>2, OpCodes DEF Ops
<1>4. named # {} /\ (CHOOSE o \in named : TRUE) = op  BY <1>3
<1> HIDE DEF named
<1> QED BY <1>1, <1>4 DEF Decoded, named

(* A subtype is found again by its number. *)
LEMMA SubtypesAreKept ==
  ASSUME NEW op \in DOMAIN Subtypes, NEW sub \in SubtypesOf(op)
  PROVE  /\ SubtypeCode(op, sub) \in Nat /\ SubtypeCode(op, sub) < 8
         /\ SubtypeNamed(op, SubtypeCode(op, sub)) = sub
<1> DEFINE place == CHOOSE n \in DOMAIN Subtypes[op] : Subtypes[op][n] = sub
<1>1. place \in DOMAIN Subtypes[op] /\ Subtypes[op][place] = sub  BY DEF SubtypesOf
<1>2. DOMAIN Subtypes[op] \subseteq 1..5  BY DEF Subtypes
<1> HIDE DEF place
<1>3. place \in 1..5  BY <1>1, <1>2
<1>4. SubtypeCode(op, sub) = place - 1  BY DEF SubtypeCode, place
<1>5. SubtypeCode(op, sub) + 1 = place  BY <1>3, <1>4
<1> QED BY <1>1, <1>3, <1>4, <1>5 DEF SubtypeNamed

LEMMA Classes ==
  /\ \A op \in OfClass(2) \cup OfClass(3) : op \in DOMAIN Subtypes
  /\ \A class \in 0..3 : \A op \in OfClass(class) : op \in Ops /\ ClassOf(op) = class
  /\ {"JMP", "CALL"} \subseteq OfClass(0) /\ "JMPC" \in OfClass(2)
BY Ops17 DEF OfClass, ClassOf, IRCodf, Subtypes, Ops

-----------------------------------------------------------------------------
(* The words of each class, and what is read from them. *)
USE DEF kClassNumBits, kLiteralNumBits, kSubtypeNumBits

(* The places the fields of a word begin at. *)
LEMMA Powers ==
  ASSUME NEW n
  PROVE  /\ n = 3 => 2^n = 8
         /\ n = 4 => 2^n = 16
         /\ n = 5 => 2^n = 32
         /\ n = 6 => 2^n = 64
         /\ n = 7 => 2^n = 128
         /\ n = 9 => 2^n = 512
         /\ n = 10 => 2^n = 1024
         /\ n = 11 => 2^n = 2048
         /\ n = 13 => 2^n = 8192
         /\ n = 15 => 2^n = 32768
<1>1. ASSUME n = 3 PROVE 2^n = 8  BY <1>1
<1>2. ASSUME n = 4 PROVE 2^n = 16  BY <1>2
<1>3. ASSUME n = 5 PROVE 2^n = 32  BY <1>3
<1>4. ASSUME n = 6 PROVE 2^n = 64  BY <1>4
<1>5. ASSUME n = 7 PROVE 2^n = 128  BY <1>5
<1>6. ASSUME n = 9 PROVE 2^n = 512  BY <1>6
<1>7. ASSUME n = 10 PROVE 2^n = 1024  BY <1>7
<1>8. ASSUME n = 11 PROVE 2^n = 2048  BY <1>8
<1>9. ASSUME n = 13 PROVE 2^n = 8192  BY <1>9
<1>10. ASSUME n = 15 PROVE 2^n = 32768  BY <1>10
<1> QED BY <1>1, <1>2, <1>3, <1>4, <1>5, <1>6, <1>7, <1>8, <1>9, <1>10

LEMMA Places ==
  /\ 2^kOpcodeNumBits(0) = 32
  /\ 2^kOpcodeNumBits(1) = 32
  /\ 2^(kOpcodeNumBits(1) + kRegisterNumBits) = 512
  /\ 2^(kOpcodeNumBits(1) + 2 * kRegisterNumBits) = 8192
  /\ 2^kOpcodeNumBits(2) = 8
  /\ 2^(kOpcodeNumBits(2) + kSubtypeNumBits) = 64
  /\ 2^(kOpcodeNumBits(2) + kSubtypeNumBits + kRegisterNumBits) = 1024
  /\ 2^kOpcodeNumBits(3) = 16
  /\ 2^(kOpcodeNumBits(3) + kSubtypeNumBits) = 128
  /\ 2^(kOpcodeNumBits(3) + kSubtypeNumBits + kRegisterNumBits) = 2048
  /\ 2^(kOpcodeNumBits(3) + kSubtypeNumBits + 2 * kRegisterNumBits) = 32768
<1>1. 2^kOpcodeNumBits(0) = 32
  <2>1. kOpcodeNumBits(0) = 5  BY Widths
  <2> QED BY <2>1, Powers
<1>2. 2^kOpcodeNumBits(1) = 32
  <2>1. kOpcodeNumBits(1) = 5  BY Widths
  <2> QED BY <2>1, Powers
<1>3. 2^(kOpcodeNumBits(1) + kRegisterNumBits) = 512
  <2>1. kOpcodeNumBits(1) + kRegisterNumBits = 9  BY Widths
  <2> QED BY <2>1, Powers
<1>4. 2^(kOpcodeNumBits(1) + 2 * kRegisterNumBits) = 8192
  <2>1. kOpcodeNumBits(1) + 2 * kRegisterNumBits = 13  BY Widths
  <2> QED BY <2>1, Powers
<1>5. 2^kOpcodeNumBits(2) = 8
  <2>1. kOpcodeNumBits(2) = 3  BY Widths
  <2> QED BY <2>1, Powers
<1>6. 2^(kOpcodeNumBits(2) + kSubtypeNumBits) = 64
  <2>1. kOpcodeNumBits(2) + kSubtypeNumBits = 6  BY Widths
  <2> QED BY <2>1, Powers
<1>7. 2^(kOpcodeNumBits(2) + kSubtypeNumBits + kRegisterNumBits) = 1024
  <2>1. kOpcodeNumBits(2) + kSubtypeNumBits + kRegisterNumBits = 10  BY Widths
  <2> QED BY <2>1, Powers
<1>8. 2^kOpcodeNumBits(3) = 16
  <2>1. kOpcodeNumBits(3) = 4  BY Widths
  <2> QED BY <2>1, Powers
<1>9. 2^(kOpcodeNumBits(3) + kSubtypeNumBits) = 128
  <2>1. kOpcodeNumBits(3) + kSubtypeNumBits = 7  BY Widths
  <2> QED BY <2>1, Powers
<1>10. 2^(kOpcodeNumBits(3) + kSubtypeNumBits + kRegisterNumBits) = 2048
  <2>1. kOpcodeNumBits(3) + kSubtypeNumBits + kRegisterNumBits = 11  BY Widths
  <2> QED BY <2>1, Powers
<1>11. 2^(kOpcodeNumBits(3) + kSubtypeNumBits + 2 * kRegisterNumBits) = 32768
  <2>1. kOpcodeNumBits(3) + kSubtypeNumBits + 2 * kRegisterNumBits = 15  BY Widths
  <2> QED BY <2>1, Powers
<1> QED BY <1>1, <1>2, <1>3, <1>4, <1>5, <1>6, <1>7, <1>8, <1>9, <1>10, <1>11

(* The fields, as the decoder counts their places. *)
LEMMA Positions ==
  ASSUME NEW w
  PROVE  /\ RegAt(w, kOpcodeNumBits(1)) = Bits(w, 5, 4)
         /\ RegAt(w, kOpcodeNumBits(1) + kRegisterNumBits) = Bits(w, 9, 4)
         /\ LiteralAt(w, kOpcodeNumBits(1) + 2 * kRegisterNumBits) = Decode(Bits(w, 13, 16))
         /\ SubtypeAt(w, kOpcodeNumBits(2)) = Bits(w, 3, 3)
         /\ RegAt(w, kOpcodeNumBits(2) + kSubtypeNumBits) = Bits(w, 6, 4)
         /\ LiteralAt(w, kOpcodeNumBits(2) + kSubtypeNumBits + kRegisterNumBits) = Decode(Bits(w, 10, 16))
         /\ SubtypeAt(w, kOpcodeNumBits(3)) = Bits(w, 4, 3)
         /\ RegAt(w, kOpcodeNumBits(3) + kSubtypeNumBits) = Bits(w, 7, 4)
         /\ RegAt(w, kOpcodeNumBits(3) + kSubtypeNumBits + kRegisterNumBits) = Bits(w, 11, 4)
         /\ RegAt(w, kOpcodeNumBits(3) + kSubtypeNumBits + 2 * kRegisterNumBits) = Bits(w, 15, 4)
<1>1. RegAt(w, kOpcodeNumBits(1)) = Bits(w, 5, 4)
  <2>1. kOpcodeNumBits(1) = 5  BY Widths
  <2> QED BY <2>1, Widths DEF RegAt
<1>2. RegAt(w, kOpcodeNumBits(1) + kRegisterNumBits) = Bits(w, 9, 4)
  <2>1. kOpcodeNumBits(1) + kRegisterNumBits = 9  BY Widths
  <2> QED BY <2>1, Widths DEF RegAt
<1>3. LiteralAt(w, kOpcodeNumBits(1) + 2 * kRegisterNumBits) = Decode(Bits(w, 13, 16))
  <2>1. kOpcodeNumBits(1) + 2 * kRegisterNumBits = 13  BY Widths
  <2> QED BY <2>1, Widths DEF LiteralAt
<1>4. SubtypeAt(w, kOpcodeNumBits(2)) = Bits(w, 3, 3)
  <2>1. kOpcodeNumBits(2) = 3  BY Widths
  <2> QED BY <2>1, Widths DEF SubtypeAt
<1>5. RegAt(w, kOpcodeNumBits(2) + kSubtypeNumBits) = Bits(w, 6, 4)
  <2>1. kOpcodeNumBits(2) + kSubtypeNumBits = 6  BY Widths
  <2> QED BY <2>1, Widths DEF RegAt
<1>6. LiteralAt(w, kOpcodeNumBits(2) + kSubtypeNumBits + kRegisterNumBits) = Decode(Bits(w, 10, 16))
  <2>1. kOpcodeNumBits(2) + kSubtypeNumBits + kRegisterNumBits = 10  BY Widths
  <2> QED BY <2>1, Widths DEF LiteralAt
<1>7. SubtypeAt(w, kOpcodeNumBits(3)) = Bits(w, 4, 3)
  <2>1. kOpcodeNumBits(3) = 4  BY Widths
  <2> QED BY <2>1, Widths DEF SubtypeAt
<1>8. RegAt(w, kOpcodeNumBits(3) + kSubtypeNumBits) = Bits(w, 7, 4)
  <2>1. kOpcodeNumBits(3) + kSubtypeNumBits = 7  BY Widths
  <2> QED BY <2>1, Widths DEF RegAt
<1>9. RegAt(w, kOpcodeNumBits(3) + kSubtypeNumBits + kRegisterNumBits) = Bits(w, 11, 4)
  <2>1. kOpcodeNumBits(3) + kSubtypeNumBits + kRegisterNumBits = 11  BY Widths
  <2> QED BY <2>1, Widths DEF RegAt
<1>10. RegAt(w, kOpcodeNumBits(3) + kSubtypeNumBits + 2 * kRegisterNumBits) = Bits(w, 15, 4)
  <2>1. kOpcodeNumBits(3) + kSubtypeNumBits + 2 * kRegisterNumBits = 15  BY Widths
  <2> QED BY <2>1, Widths DEF RegAt
<1> QED BY <1>1, <1>2, <1>3, <1>4, <1>5, <1>6, <1>7, <1>8, <1>9, <1>10

LEMMA Word0 ==
  ASSUME NEW op \in OfClass(0), NEW lit \in Literals
  PROVE  Decoded(CodeClass0(lit, OpCode(op))) = Jumping(op, lit)
<1> DEFINE w == CodeClass0(lit, OpCode(op))
<1>1. op \in Ops /\ ClassOf(op) = 0  BY Classes
<1>8. OpCode(op) \in Below(32)  BY <1>1, OpCodes DEF Below
<1>9. Code(lit) \in Halfwords  BY LiteralIsKept
<1>2. w = Sum0(OpCode(op), Code(lit))  BY Places DEF CodeClass0, Sum0
<1> HIDE DEF w
<1>3. /\ Bits(w, 0, 2) = OpCode(op) % 4 /\ Bits(w, 2, 3) = OpCode(op) \div 4
      /\ Bits(w, 5, 16) = Code(lit)
  BY <1>2, <1>8, <1>9, Fields0, Zenon
<1>4. DecodeClass0(w) = [Blank EXCEPT !.lit = lit]
  BY <1>3, LiteralIsKept, Widths, Positions DEF DecodeClass0, LiteralAt
<1>5. Decoded(w) = [DecodeClass0(w) EXCEPT !.op = op]
  BY <1>1, <1>3, Names, Widths DEF DecodeClass, DecodeType
<1> QED BY <1>4, <1>5 DEF w, Blank, Jumping

LEMMA Word1 ==
  ASSUME NEW op \in OfClass(1), NEW dst \in Registers, NEW base \in Registers, NEW lit \in Literals
  PROVE  Decoded(CodeClass1(dst, base, lit, OpCode(op))) = Addressing(op, dst, base, lit)
<1> DEFINE w == CodeClass1(dst, base, lit, OpCode(op))
<1>1. op \in Ops /\ ClassOf(op) = 1  BY Classes
<1>2. w = Sum1(OpCode(op), dst, base, Code(lit))  BY Places DEF CodeClass1, Sum1
<1>8. OpCode(op) \in Below(32)  BY <1>1, OpCodes DEF Below
<1>9. Code(lit) \in Halfwords  BY LiteralIsKept
<1> HIDE DEF w
<1>4. /\ Bits(w, 0, 2) = OpCode(op) % 4 /\ Bits(w, 2, 3) = OpCode(op) \div 4
      /\ Bits(w, 5, 4) = dst /\ Bits(w, 9, 4) = base /\ Bits(w, 13, 16) = Code(lit)
  BY <1>2, <1>8, <1>9, Fields1
<1>5. DecodeClass1(w) = [Blank EXCEPT !.reg = dst, !.reg2 = base, !.lit = lit]
  <2>1. Decode(Code(lit)) = lit  BY LiteralIsKept
  <2> QED BY <1>4, <2>1, Positions DEF DecodeClass1
<1>6. Decoded(w) = [DecodeClass1(w) EXCEPT !.op = op]
  BY <1>1, <1>4, Names, Widths DEF DecodeClass, DecodeType
<1> QED BY <1>5, <1>6 DEF w, Blank, Addressing

LEMMA Word2 ==
  ASSUME NEW op \in OfClass(2), NEW u \in Below(8), NEW dst \in Registers, NEW lit \in Literals
  PROVE  LET w == CodeClass2(dst, lit, OpCode(op), u)
         IN  /\ Decoded(w) = WithLiteral(op, SubtypeNamed(op, u), dst, lit)
             /\ SubtypeAt(w, kOpcodeNumBits(2)) = u
<1> DEFINE w == CodeClass2(dst, lit, OpCode(op), u)
<1>1. op \in Ops /\ ClassOf(op) = 2  BY Classes
<1>2. w = Sum2(OpCode(op), u, dst, Code(lit))  BY Places DEF CodeClass2, Sum2
<1>8. OpCode(op) \in Below(8)  BY <1>1, OpCodes DEF Below
<1>9. Code(lit) \in Halfwords  BY LiteralIsKept
<1> HIDE DEF w
<1>4. /\ Bits(w, 0, 2) = OpCode(op) % 4 /\ Bits(w, 2, 1) = OpCode(op) \div 4
      /\ Bits(w, 3, 3) = u /\ Bits(w, 6, 4) = dst /\ Bits(w, 10, 16) = Code(lit)
  BY <1>2, <1>8, <1>9, Fields2
<1>5. DecodeClass2(w, op) = [Blank EXCEPT !.sub = SubtypeNamed(op, u), !.reg = dst, !.lit = lit]
  <2>1. Decode(Code(lit)) = lit  BY LiteralIsKept
  <2> QED BY <1>4, <2>1, Positions DEF DecodeClass2
<1>6. Decoded(w) = [DecodeClass2(w, op) EXCEPT !.op = op]
  BY <1>1, <1>4, Names, Widths DEF DecodeClass, DecodeType
<1>7. SubtypeAt(w, kOpcodeNumBits(2)) = u  BY <1>4, Positions
<1> QED BY <1>5, <1>6, <1>7 DEF w, Blank, WithLiteral

LEMMA Word3 ==
  ASSUME NEW op \in OfClass(3), NEW u \in Below(8),
         NEW src1 \in Registers, NEW src2 \in Registers, NEW dst \in Registers
  PROVE  Decoded(CodeClass3(src1, src2, dst, OpCode(op), u))
           = OnRegisters(op, SubtypeNamed(op, u), src1, src2, dst)
<1> DEFINE w == CodeClass3(src1, src2, dst, OpCode(op), u)
<1>1. op \in Ops /\ ClassOf(op) = 3  BY Classes
<1>2. w = Sum3(OpCode(op), u, src1, src2, dst)  BY Places DEF CodeClass3, Sum3
<1>8. OpCode(op) \in Below(16)  BY <1>1, OpCodes DEF Below
<1> HIDE DEF w
<1>4. /\ Bits(w, 0, 2) = OpCode(op) % 4 /\ Bits(w, 2, 2) = OpCode(op) \div 4
      /\ Bits(w, 4, 3) = u /\ Bits(w, 7, 4) = src1 /\ Bits(w, 11, 4) = src2 /\ Bits(w, 15, 4) = dst
  BY <1>2, <1>8, Fields3
<1>5. DecodeClass3(w, op) = [Blank EXCEPT !.sub = SubtypeNamed(op, u), !.reg = src1, !.reg2 = src2, !.dst = dst]
  <2> QED BY <1>4, Positions DEF DecodeClass3
<1>6. Decoded(w) = [DecodeClass3(w, op) EXCEPT !.op = op]
  BY <1>1, <1>4, Names, Widths DEF DecodeClass, DecodeType
<1> QED BY <1>5, <1>6 DEF w, Blank, OnRegisters

-----------------------------------------------------------------------------
(* The machine executes what was emitted: whatever its fields, an           *)
(* instruction that IRBuilder packs into a word is what ExecProcess makes   *)
(* of the word.                                                             *)
THEOREM WordsKeepInstructions == \A i : IsInstruction(i) => Decoded(Encoded(i)) = i
<1>1. ASSUME NEW op \in OfClass(0), NEW lit \in Literals
      PROVE  LET i == Jumping(op, lit) IN Decoded(Encoded(i)) = i
  <2>1. /\ ClassOf(op) = 0
        /\ Jumping(op, lit).op = op /\ Jumping(op, lit).lit = lit
    BY Classes DEF Jumping, Blank
  <2>2. Encoded(Jumping(op, lit)) = CodeClass0(lit, OpCode(op))  BY <2>1 DEF Encoded
  <2> QED BY <2>2, Word0
<1>2. ASSUME NEW op \in OfClass(1), NEW reg \in Registers, NEW reg2 \in Registers, NEW lit \in Literals
      PROVE  LET i == Addressing(op, reg, reg2, lit) IN Decoded(Encoded(i)) = i
  <2> DEFINE i == Addressing(op, reg, reg2, lit)
  <2>1. i.op = op /\ i.reg = reg /\ i.reg2 = reg2 /\ i.lit = lit /\ ClassOf(op) = 1
    BY Classes DEF Addressing, Blank
  <2> HIDE DEF i
  <2>2. Encoded(i) = CodeClass1(reg, reg2, lit, OpCode(op))  BY <2>1 DEF Encoded
  <2>3. Decoded(CodeClass1(reg, reg2, lit, OpCode(op))) = i  BY Word1 DEF i
  <2> QED BY <2>2, <2>3 DEF i
<1>3. ASSUME NEW op \in OfClass(2), NEW sub \in SubtypesOf(op), NEW reg \in Registers, NEW lit \in Literals
      PROVE  LET i == WithLiteral(op, sub, reg, lit) IN Decoded(Encoded(i)) = i
  <2> DEFINE i == WithLiteral(op, sub, reg, lit)
             u == SubtypeCode(op, sub)
  <2>1. i.op = op /\ i.sub = sub /\ i.reg = reg /\ i.lit = lit /\ ClassOf(op) = 2
    BY Classes DEF WithLiteral, Blank
  <2>3. u \in Below(8) /\ SubtypeNamed(op, u) = sub  BY Classes, SubtypesAreKept DEF Below
  <2> HIDE DEF i, u
  <2>2. Encoded(i) = CodeClass2(reg, lit, OpCode(op), u)  BY <2>1 DEF Encoded, u
  <2>4. Decoded(CodeClass2(reg, lit, OpCode(op), u)) = WithLiteral(op, SubtypeNamed(op, u), reg, lit)
    BY <2>3, Word2
  <2> QED BY <2>2, <2>3, <2>4 DEF i
<1>4. ASSUME NEW op \in OfClass(3), NEW sub \in SubtypesOf(op),
             NEW reg \in Registers, NEW reg2 \in Registers, NEW dst \in Registers
      PROVE  LET i == OnRegisters(op, sub, reg, reg2, dst) IN Decoded(Encoded(i)) = i
  <2> DEFINE i == OnRegisters(op, sub, reg, reg2, dst)
             u == SubtypeCode(op, sub)
  <2>1. i.op = op /\ i.sub = sub /\ i.reg = reg /\ i.reg2 = reg2 /\ i.dst = dst /\ ClassOf(op) = 3
    BY Classes DEF OnRegisters, Blank
  <2>3. u \in Below(8) /\ SubtypeNamed(op, u) = sub  BY Classes, SubtypesAreKept DEF Below
  <2> HIDE DEF i, u
  <2>2. Encoded(i) = CodeClass3(reg, reg2, dst, OpCode(op), u)  BY <2>1 DEF Encoded, u
  <2>4. Decoded(CodeClass3(reg, reg2, dst, OpCode(op), u)) = OnRegisters(op, SubtypeNamed(op, u), reg, reg2, dst)
    BY <2>3, Word3
  <2> QED BY <2>2, <2>3, <2>4 DEF i
<1> QED BY <1>1, <1>2, <1>3, <1>4 DEF IsInstruction

(* Whatever its fields, a packed instruction is a word of 32 bits.          *)
THEOREM InstructionsFitWords ==
  \A i : IsInstruction(i) => Encoded(i) \in Nat /\ Encoded(i) < 2^32
<1> DEFINE Fits(w) == w \in Nat /\ w < 2^32
<1>0. 2^32 = 4294967296  OBVIOUS
<1>1. ASSUME NEW op \in OfClass(0), NEW lit \in Literals
      PROVE  Fits(Encoded(Jumping(op, lit)))
  <2>1. /\ op \in Ops /\ ClassOf(op) = 0
        /\ Jumping(op, lit).op = op /\ Jumping(op, lit).lit = lit
    BY Classes DEF Jumping, Blank
  <2>2. Encoded(Jumping(op, lit)) = Sum0(OpCode(op), Code(lit))
    BY <2>1, Places DEF Encoded, CodeClass0, Sum0
  <2>3. /\ OpCode(op) \in Nat /\ OpCode(op) < 32
        /\ Code(lit) \in Nat /\ Code(lit) < 65536
    BY <2>1, OpCodes, LiteralIsKept DEF Halfwords
  <2> QED BY <1>0, <2>2, <2>3 DEF Sum0
<1>2. ASSUME NEW op \in OfClass(1), NEW reg \in Registers, NEW reg2 \in Registers, NEW lit \in Literals
      PROVE  Fits(Encoded(Addressing(op, reg, reg2, lit)))
  <2> DEFINE i == Addressing(op, reg, reg2, lit)
  <2>1. op \in Ops /\ i.op = op /\ i.reg = reg /\ i.reg2 = reg2 /\ i.lit = lit /\ ClassOf(op) = 1
    BY Classes DEF Addressing, Blank
  <2> HIDE DEF i
  <2>2. Encoded(i) = Sum1(OpCode(op), reg, reg2, Code(lit))
    BY <2>1, Places DEF Encoded, CodeClass1, Sum1
  <2>3. /\ OpCode(op) \in Nat /\ OpCode(op) < 32
        /\ Code(lit) \in Nat /\ Code(lit) < 65536
        /\ reg \in Nat /\ reg < 16 /\ reg2 \in Nat /\ reg2 < 16
    BY <2>1, OpCodes, LiteralIsKept, RegisterRange DEF Halfwords
  <2> QED BY <1>0, <2>2, <2>3 DEF Sum1, i
<1>3. ASSUME NEW op \in OfClass(2), NEW sub \in SubtypesOf(op), NEW reg \in Registers, NEW lit \in Literals
      PROVE  Fits(Encoded(WithLiteral(op, sub, reg, lit)))
  <2> DEFINE i == WithLiteral(op, sub, reg, lit)
             u == SubtypeCode(op, sub)
  <2>1. op \in Ops /\ i.op = op /\ i.sub = sub /\ i.reg = reg /\ i.lit = lit /\ ClassOf(op) = 2
    BY Classes DEF WithLiteral, Blank
  <2>4. u \in Nat /\ u < 8  BY Classes, SubtypesAreKept
  <2> HIDE DEF i, u
  <2>2. Encoded(i) = Sum2(OpCode(op), u, reg, Code(lit))
    BY <2>1, Places DEF Encoded, CodeClass2, Sum2, u
  <2>3. /\ OpCode(op) \in Nat /\ OpCode(op) < 8
        /\ Code(lit) \in Nat /\ Code(lit) < 65536
        /\ reg \in Nat /\ reg < 16
    BY <2>1, OpCodes, LiteralIsKept, RegisterRange DEF Halfwords
  <2> QED BY <1>0, <2>2, <2>3, <2>4 DEF Sum2, i
<1>4. ASSUME NEW op \in OfClass(3), NEW sub \in SubtypesOf(op),
             NEW reg \in Registers, NEW reg2 \in Registers, NEW dst \in Registers
      PROVE  Fits(Encoded(OnRegisters(op, sub, reg, reg2, dst)))
  <2> DEFINE i == OnRegisters(op, sub, reg, reg2, dst)
             u == SubtypeCode(op, sub)
  <2>1. /\ op \in Ops /\ i.op = op /\ i.sub = sub /\ ClassOf(op) = 3
        /\ i.reg = reg /\ i.reg2 = reg2 /\ i.dst = dst
    BY Classes DEF OnRegisters, Blank
  <2>4. u \in Nat /\ u < 8  BY Classes, SubtypesAreKept
  <2> HIDE DEF i, u
  <2>2. Encoded(i) = Sum3(OpCode(op), u, reg, reg2, dst)
    BY <2>1, Places DEF Encoded, CodeClass3, Sum3, u
  <2>3. /\ OpCode(op) \in Nat /\ OpCode(op) < 16
        /\ reg \in Nat /\ reg < 16 /\ reg2 \in Nat /\ reg2 < 16 /\ dst \in Nat /\ dst < 16
    BY <2>1, OpCodes, RegisterRange
  <2> QED BY <1>0, <2>2, <2>3, <2>4 DEF Sum3, i
<1> HIDE DEF Fits
<1>5. \A i : IsInstruction(i) => Fits(Encoded(i))  BY <1>1, <1>2, <1>3, <1>4 DEF IsInstruction
<1> QED BY <1>5 DEF Fits

LEMMA JumpCodes ==
  /\ "JMP" \in OfClass(0) /\ "CALL" \in OfClass(0) /\ "JMPC" \in OfClass(2)
  /\ OpCode("JMP") = 12 /\ OpCode("JMPC") = 2 /\ OpCode("CALL") = 16
  /\ ClassOf("JMP") = 0 /\ ClassOf("CALL") = 0
  /\ kOpcodeNumBits(0) = 5
<1>1. 2^kClassNumBits = 4  BY DEF kClassNumBits
<1> QED BY <1>1, Widths DEF OfClass, OpCode, ClassOf, IRCodf

(* Patching the target of a jump changes its target and nothing else: not   *)
(* the condition, nor the register it is about.  Patching a call leaves a   *)
(* call of the new target.                                                  *)
THEOREM PatchesChangeTargets ==
  \A target \in Literals :
    /\ \A i : IsInstruction(i) /\ i.op \in {"JMP", "JMPC"}
               => Decoded(PatchJump(Encoded(i), target)) = [i EXCEPT !.lit = target]
    /\ \A lit \in Literals :
         Decoded(PatchCall(Encoded(Jumping("CALL", lit)), target)) = Jumping("CALL", target)
<1> SUFFICES ASSUME NEW target \in Literals
             PROVE  /\ \A i : IsInstruction(i) /\ i.op \in {"JMP", "JMPC"}
                              => Decoded(PatchJump(Encoded(i), target)) = [i EXCEPT !.lit = target]
                    /\ \A lit \in Literals :
                         Decoded(PatchCall(Encoded(Jumping("CALL", lit)), target)) = Jumping("CALL", target)
  OBVIOUS
<1>1. ASSUME NEW lit \in Literals
      PROVE  LET i == Jumping("JMP", lit)
             IN  Decoded(PatchJump(Encoded(i), target)) = [i EXCEPT !.lit = target]
  <2> DEFINE w == CodeClass0(lit, OpCode("JMP"))
  <2>1. Jumping("JMP", lit).op = "JMP" /\ Jumping("JMP", lit).lit = lit  BY DEF Jumping, Blank
  <2>2. Encoded(Jumping("JMP", lit)) = w  BY <2>1, JumpCodes DEF Encoded
  <2>3. w = Sum0(12, Code(lit))  BY JumpCodes, Places DEF CodeClass0, Sum0
  <2>4. 12 \in Below(32) /\ Code(lit) \in Halfwords  BY LiteralIsKept DEF Below
  <2> HIDE DEF w
  <2>5. Bits(w, 0, 5) = 12  BY <2>3, <2>4, Fields0
  <2>6. PatchJump(w, target) = CodeClass0(target, OpCode("JMP"))
    BY <2>5, JumpCodes DEF PatchJump, HasOpCode
  <2>7. Decoded(PatchJump(w, target)) = Jumping("JMP", target)  BY <2>6, Word0, JumpCodes
  <2> QED BY <2>2, <2>7 DEF Jumping, Blank
<1>2. ASSUME NEW sub \in SubtypesOf("JMPC"), NEW reg \in Registers, NEW lit \in Literals
      PROVE  LET i == WithLiteral("JMPC", sub, reg, lit)
             IN  Decoded(PatchJump(Encoded(i), target)) = [i EXCEPT !.lit = target]
  <2> DEFINE i == WithLiteral("JMPC", sub, reg, lit)
             u == SubtypeCode("JMPC", sub)
             w == CodeClass2(reg, lit, OpCode("JMPC"), u)
  <2>1. /\ i.op = "JMPC" /\ i.sub = sub /\ i.reg = reg /\ i.lit = lit
        /\ ClassOf("JMPC") = 2 /\ "JMPC" \in OfClass(2)
    BY Classes, JumpCodes DEF WithLiteral, Blank
  <2>2. u \in Below(8) /\ SubtypeNamed("JMPC", u) = sub
    BY <2>1, Classes, SubtypesAreKept DEF Below
  <2> HIDE DEF i, u
  <2>3. Encoded(i) = w  BY <2>1 DEF Encoded, u
  <2>4. w = Sum2(2, u, reg, Code(lit))  BY JumpCodes, Places DEF CodeClass2, Sum2
  <2>5. Code(lit) \in Halfwords  BY LiteralIsKept
  <2>6. /\ Decoded(w) = WithLiteral("JMPC", SubtypeNamed("JMPC", u), reg, lit)
        /\ SubtypeAt(w, kOpcodeNumBits(2)) = u
    BY <2>1, <2>2, Word2
  <2>7. Decoded(w).reg = reg  BY <2>6, <2>2, <2>1 DEF i
  <2> HIDE DEF w
  <2>8. Bits(w, 0, 5) # 12
    <3>1. u \in Nat /\ reg \in Nat /\ Code(lit) \in Nat
      BY <2>2, <2>5, RegisterRange DEF Below, Halfwords
    <3>2. w = 2 + 8 * (u + reg * 8 + Code(lit) * 128)  BY <2>4, <3>1 DEF Sum2
    <3> DEFINE rest == u + reg * 8 + Code(lit) * 128
    <3>3. rest \in Nat  BY <3>1
    <3> HIDE DEF rest
    <3>4. w \in Nat /\ w % 32 # 12  BY <3>2, <3>3 DEF rest
    <3>5. w \div 1 = w  BY <3>4
    <3> QED BY <3>4, <3>5 DEF Bits
  <2>9. PatchJump(w, target) = CodeClass2(reg, target, OpCode("JMPC"), u)
    BY <2>6, <2>7, <2>8, JumpCodes DEF PatchJump, HasOpCode
  <2>10. Decoded(PatchJump(w, target)) = WithLiteral("JMPC", SubtypeNamed("JMPC", u), reg, target)
    BY <2>1, <2>2, <2>9, Word2
  <2> QED BY <2>2, <2>3, <2>10 DEF i, WithLiteral, Blank
<1>3. ASSUME NEW i, IsInstruction(i), i.op \in {"JMP", "JMPC"}
      PROVE  Decoded(PatchJump(Encoded(i), target)) = [i EXCEPT !.lit = target]
  <2>1. \A op, lit : Jumping(op, lit).op = op  BY DEF Jumping, Blank
  <2>2. \A op, sub, reg, lit : WithLiteral(op, sub, reg, lit).op = op  BY DEF WithLiteral, Blank
  <2>3. \A op, reg, reg2, lit : Addressing(op, reg, reg2, lit).op = op  BY DEF Addressing, Blank
  <2>4. \A op, sub, reg, reg2, dst : OnRegisters(op, sub, reg, reg2, dst).op = op
    BY DEF OnRegisters, Blank
  <2>5. ClassOf("JMP") = 0 /\ ClassOf("JMPC") = 2  BY JumpCodes, Classes
  <2>6. \A class : \A op \in OfClass(class) : ClassOf(op) = class  BY DEF OfClass
  <2>7. \/ \E lit \in Literals : i = Jumping("JMP", lit)
        \/ \E sub \in SubtypesOf("JMPC"), reg \in Registers, lit \in Literals :
             i = WithLiteral("JMPC", sub, reg, lit)
    BY <1>3, <2>1, <2>2, <2>3, <2>4, <2>5, <2>6 DEF IsInstruction
  <2> QED BY <1>1, <1>2, <2>7
<1>4. ASSUME NEW lit \in Literals
      PROVE  Decoded(PatchCall(Encoded(Jumping("CALL", lit)), target)) = Jumping("CALL", target)
  BY JumpCodes, Word0 DEF PatchCall
<1> QED BY <1>3, <1>4

=============================================================================
