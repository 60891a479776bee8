----------------------------- MODULE FlashPages -----------------------------
(***************************************************************************)
(* OpenThread's flash interface on the K32W0 (src/src/k32w0/platform/      *)
(* flash.c): writes of any length at any offset over a flash that is       *)
(* erased by the page.  A write goes page by page, each erased and then    *)
(* programmed; a step that fails ends it.                                  *)
(***************************************************************************)
EXTENDS Integers, Sequences

CONSTANTS
  PageSize, Pages,   \* FLASH_PAGE_SIZE; pages of the NV space
  ReadUnit,          \* BYTES_IN_ONE_READ
  FlashByte,         \* contents of a written byte
  Blank              \* an erased byte

ASSUME PagesAssumption == PageSize \in Nat \ {0} /\ Pages \in Nat /\ ReadUnit \in Nat \ {0}

VARIABLES
  fpMem,    \* the NV space
  fpAt,     \* address of what is left to write
  fpData,   \* what is left to write; empty between calls
  fpPage,   \* the page image about to be programmed, none before the erase
  fpWant,   \* history: the NV space before the last write, with its bytes
  fpEnd     \* history: where the last write ends; 0 if it failed

pagesVars == <<fpMem, fpAt, fpData, fpPage, fpWant, fpEnd>>

Addr == 0 .. Pages * PageSize - 1
NoPage == << >>

PagesInit ==
  /\ fpMem = [a \in Addr |-> Blank] /\ fpWant = fpMem
  /\ fpAt = 0 /\ fpData = << >> /\ fpPage = NoPage /\ fpEnd = 0

PageOf(a) == a - (a % PageSize)
Image(a) == [i \in 1 .. PageSize |-> fpMem[PageOf(a) + i - 1]]

\* copyFromFlash of n bytes at a: how many of them arrive.  The number of reads
\* is taken from n alone, the first read loses the bytes before a.
Arriving(a, n) ==
  LET reads == (n + ReadUnit - 1) \div ReadUnit
      got == reads * ReadUnit - (a % ReadUnit)
  IN  IF got < n THEN got ELSE n

otPlatFlashRead(a, n) == [i \in 1 .. Arriving(a, n) |-> fpMem[a + i - 1]]

\* otPlatFlashWrite, with mapToNvFlashAddress and its test of the end.
otPlatFlashWrite(a, d) ==
  /\ fpData = << >> /\ d # << >>
  /\ a + Len(d) <= Pages * PageSize
  /\ fpAt' = a /\ fpData' = d
  /\ fpWant' = [x \in Addr |-> IF x - a \in 0 .. Len(d) - 1 THEN d[x - a + 1] ELSE fpMem[x]]
  /\ fpEnd' = a + Len(d)
  /\ UNCHANGED <<fpMem, fpPage>>

\* Mutant: the bytes before an unaligned address are not read back.
PageWithoutRest ==
  LET lead == fpAt % PageSize
      n == IF PageSize - lead < Len(fpData) THEN PageSize - lead ELSE Len(fpData)
  IN  [i \in 1 .. PageSize |->
         IF i - lead \in 1 .. n THEN fpData[i - lead] ELSE Blank]

\* What the next page will hold: around an unaligned beginning the old bytes,
\* after the end of a part that begins a page nothing.
PageImage ==
  LET lead == fpAt % PageSize
      n == IF PageSize - lead < Len(fpData) THEN PageSize - lead ELSE Len(fpData)
  IN  [i \in 1 .. PageSize |->
         IF i - lead \in 1 .. n THEN fpData[i - lead]
         ELSE IF lead > 0 THEN Image(fpAt)[i] ELSE Blank]

\* blankCheckAndErase.
ErasePage ==
  /\ fpData # << >> /\ fpPage = NoPage
  /\ fpPage' = PageImage
  /\ fpMem' = [x \in Addr |-> IF PageOf(x) = PageOf(fpAt) THEN Blank ELSE fpMem[x]]
  /\ UNCHANGED <<fpAt, fpData, fpWant, fpEnd>>

\* FLASH_Program, and on to the next page.
ProgramPage ==
  LET n == PageSize - (fpAt % PageSize)
  IN  /\ fpPage # NoPage
      /\ fpMem' = [x \in Addr |->
           IF PageOf(x) = PageOf(fpAt) THEN fpPage[x - PageOf(fpAt) + 1] ELSE fpMem[x]]
      /\ fpPage' = NoPage
      /\ fpAt' = IF n < Len(fpData) THEN fpAt + n ELSE 0
      /\ fpData' = SubSeq(fpData, n + 1, Len(fpData))
      /\ UNCHANGED <<fpWant, fpEnd>>

\* OpenThread erases a page between its writes.
utilsFlashErasePage(p) ==
  LET Erased(m) == [x \in Addr |-> IF PageOf(x) = p * PageSize THEN Blank ELSE m[x]]
  IN  /\ fpData = << >>
      /\ fpMem' = Erased(fpMem) /\ fpWant' = Erased(fpWant)
      /\ UNCHANGED <<fpAt, fpData, fpPage, fpEnd>>

\* The flash reports an error, or the power fails: what is left is forgotten,
\* and the result is dropped.
FlashStops ==
  /\ fpData # << >>
  /\ fpData' = << >> /\ fpPage' = NoPage /\ fpAt' = 0
  /\ fpEnd' = 0
  /\ UNCHANGED <<fpMem, fpWant>>

PagesNext ==
  \/ \E a \in Addr, n \in 1 .. PageSize + 1, b \in FlashByte :
       otPlatFlashWrite(a, [i \in 1 .. n |-> b])
  \/ \E p \in 0 .. Pages - 1 : utilsFlashErasePage(p)
  \/ ErasePage \/ ProgramPage \/ FlashStops

-----------------------------------------------------------------------------
\* A write that came to its end reads back with its bytes in place and nothing
\* before them changed: what the first page holds before an unaligned address
\* survives the erase of that page.  (Bytes after the end are erased with the
\* last page if the write reaches that page from its beginning.)
EarlierBytesKept ==
  fpData = << >> =>
    otPlatFlashRead(0, fpEnd) = [i \in 1 .. fpEnd |-> fpWant[i - 1]]
=============================================================================
