--------------------------- MODULE ProcessMemory ----------------------------
(***************************************************************************)
(* How a process gets its memory: the constructor of Process allocates the *)
(* stack chunk and then the user chunks, and Memory::Allocate walks each   *)
(* chunk page by page.  DavmVM takes the outcome, the pages every chunk    *)
(* touches, as its MappedPages.                                            *)
(***************************************************************************)
EXTENDS Integers, Sequences

CONSTANTS
  PageSize,      (* kPageSize                                              *)
  AddrSpace,     (* 2^kWordBits                                            *)
  ChunkLists     (* the chunk sequences a bytecode may carry, stack first  *)

kMaxAddress == AddrSpace - 1
Addresses   == 0 .. kMaxAddress
MemChunk    == [low : Addresses, high : Addresses]

ASSUME PagesAssumption ==
  /\ PageSize \in Nat \ {0}
  /\ AddrSpace \in Nat \ {0}
  /\ AddrSpace % PageSize = 0

ASSUME ChunksAssumption ==
  /\ ChunkLists \subseteq Seq(MemChunk)
  /\ \A cs \in ChunkLists : \A n \in 1 .. Len(cs) : cs[n].low <= cs[n].high

PageOfAddr(addr) == addr \div PageSize

VARIABLES
  chunks,   (* every chunk of the bytecode                                 *)
  next,     (* the chunk to allocate next, or being walked                 *)
  walking,  (* inside the loop of Allocate (its flag finished, negated)    *)
  a,        (* the loop's address                                          *)
  pages     (* the keys of page_mapping_                                   *)

vars == <<chunks, next, walking, a, pages>>

Init ==
  /\ chunks \in ChunkLists
  /\ next = 1
  /\ walking = FALSE
  /\ a = 0
  /\ pages = {}

Chunk == chunks[next]

AllocateLogical(addr) == pages' = pages \cup {PageOfAddr(addr)}

StartChunk ==
  /\ next <= Len(chunks)
  /\ ~walking
  /\ walking' = TRUE
  /\ a' = Chunk.low
  /\ AllocateLogical(Chunk.low)
  /\ UNCHANGED <<chunks, next>>

InLastPageNever == FALSE  (* faulty variant: no guard against overflow *)
InLastPage == a >= kMaxAddress - PageSize + 1

(* The guard against overflow: in the last page there is nothing to add.   *)
EndOfMemory ==
  /\ walking
  /\ InLastPage
  /\ walking' = FALSE
  /\ next' = next + 1
  /\ UNCHANGED <<chunks, a, pages>>

NextAddr == (a + PageSize) % AddrSpace

(* Faulty variant: leaves the loop without the page of high.               *)
AdvanceDropsHigh ==
  /\ walking
  /\ ~InLastPage
  /\ IF NextAddr >= Chunk.high
     THEN a' = Chunk.high /\ walking' = FALSE /\ next' = next + 1 /\ pages' = pages
     ELSE a' = NextAddr /\ AllocateLogical(a') /\ UNCHANGED <<walking, next>>
  /\ UNCHANGED chunks

Advance ==
  /\ walking
  /\ ~InLastPage
  /\ IF NextAddr >= Chunk.high
     THEN a' = Chunk.high /\ walking' = FALSE /\ next' = next + 1
     ELSE a' = NextAddr /\ UNCHANGED <<walking, next>>
  /\ AllocateLogical(a')
  /\ UNCHANGED chunks

Next == StartChunk \/ EndOfMemory \/ Advance

Spec == Init /\ [][Next]_vars

(* The constructor runs to its end.                                        *)
FairSpec == Spec /\ WF_vars(Next)

-----------------------------------------------------------------------------
Pages == 0 .. kMaxAddress \div PageSize

PagesTouched(c)    == PageOfAddr(c.low) .. PageOfAddr(c.high)
PagesOfFirst(n)    == UNION {PagesTouched(chunks[k]) : k \in 1 .. n}

TypeOK ==
  /\ chunks \in ChunkLists
  /\ next \in 1 .. Len(chunks) + 1
  /\ walking \in BOOLEAN
  /\ a \in Addresses
  /\ pages \subseteq Pages

(* While a chunk is walked its pages up to the address reached are mapped, *)
(* besides those of the chunks before it, and no other page.               *)
MappedSoFar ==
  IF walking
  THEN /\ next <= Len(chunks)
       /\ Chunk.low <= a /\ a <= Chunk.high
       /\ pages = PagesOfFirst(next - 1) \cup PageOfAddr(Chunk.low) .. PageOfAddr(a)
  ELSE pages = PagesOfFirst(next - 1)

Done == next > Len(chunks)

(* When the process is constructed exactly the pages its chunks touch are  *)
(* mapped: no access inside a chunk faults, none outside finds a page the  *)
(* bytecode did not ask for.  Chunks may be unaligned, overlap, or end at  *)
(* the last address, where the loop's address could overflow.              *)
ExactlyTheChunksAreMapped == Done => pages = PagesOfFirst(Len(chunks))

(* The walk of every chunk ends, the one that reaches the last page too.   *)
ConstructionEnds == <>Done
=============================================================================
