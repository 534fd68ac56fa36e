------------------------- MODULE BufferMemoryProofs -------------------------
(***************************************************************************)
(* Theorems about the circular buffer, for every length, word size and set *)
(* of bytes, whether or not head and tail wrap around; and about the       *)
(* mappings of buffers and stacks, for every page size, every address      *)
(* space and every requested length, in a process with one thread.         *)
(***************************************************************************)
EXTENDS BufferMemory, SequenceTheorems, WellFoundedInduction, TLAPS

-----------------------------------------------------------------------------
(* Arithmetic modulo a number that is not known. *)

\* Quotient and remainder.
LEMMA DivMod ==
    ASSUME NEW m \in Nat \ {0}, NEW x \in Int
    PROVE  /\ x = m * (x \div m) + (x % m)
           /\ x % m \in 0 .. m - 1
           /\ x \div m \in Int
  OBVIOUS

\* A multiple that is not zero is not small.
LEMMA MultipleBound ==
    ASSUME NEW m \in Nat \ {0}, NEW d \in Int, d >= 1
    PROVE  m * d >= m
  OBVIOUS

\* Multiples of m differ by a multiple of m.
LEMMA MultipleDifference ==
    ASSUME NEW m \in Nat \ {0}, NEW a \in Int, NEW b \in Int
    PROVE  m * a \in Int /\ m * b \in Int /\ m * a - m * b = m * (a - b)
  OBVIOUS

\* Two decompositions of numbers that are close agree in the quotient.
LEMMA SameQuotient ==
    ASSUME NEW m \in Nat \ {0}, NEW a \in Int, NEW b \in Int, NEW d \in Int,
           m * a - m * b = d, d < m, -m < d
    PROVE  a = b
  <1>1. m * (a - b) = d /\ m * (b - a) = -d
    BY MultipleDifference
  <1>2. a - b \in Int /\ b - a \in Int
    OBVIOUS
  <1>3. ~(a - b >= 1)
    BY <1>1, <1>2, MultipleBound
  <1>4. ~(b - a >= 1)
    BY <1>1, <1>2, MultipleBound
  <1> QED
    BY <1>3, <1>4

\* The remainder is determined by any decomposition.
LEMMA ModUnique ==
    ASSUME NEW m \in Nat \ {0}, NEW q \in Int, NEW r \in 0 .. m - 1, NEW x \in Int,
           x = m * q + r
    PROVE  x % m = r
  <1> DEFINE p == x \div m
             s == x % m
  <1>1. x = m * p + s /\ s \in 0 .. m - 1 /\ p \in Int
    BY DivMod
  <1> HIDE DEF p, s
  <1>2. m * p \in Int /\ m * q \in Int
    BY <1>1, MultipleDifference
  <1>3. m * p - m * q = r - s /\ r - s < m /\ -m < r - s /\ r - s \in Int
    BY <1>1, <1>2
  <1>4. p = q
    BY <1>1, <1>3, SameQuotient
  <1>5. s = r
    BY <1>1, <1>2, <1>4
  <1> QED
    BY <1>5 DEF s

\* Numbers less than m apart that have the same remainder are equal.
LEMMA ModInjective ==
    ASSUME NEW m \in Nat \ {0}, NEW x \in Int, NEW y \in Int,
           x - y < m, y - x < m, x % m = y % m
    PROVE  x = y
  <1> DEFINE p == x \div m
             q == y \div m
             r == x % m
  <1>1. x = m * p + r /\ y = m * q + r /\ r \in 0 .. m - 1 /\ p \in Int /\ q \in Int
    BY DivMod
  <1> HIDE DEF p, q, r
  <1>2. m * p \in Int /\ m * q \in Int
    BY <1>1, MultipleDifference
  <1>3. m * p - m * q = x - y /\ x - y \in Int /\ -m < x - y
    BY <1>1, <1>2
  <1>4. p = q
    BY <1>1, <1>3, SameQuotient
  <1> QED
    BY <1>1, <1>2, <1>4

\* Reducing a summand first makes no difference.
LEMMA ModSum ==
    ASSUME NEW m \in Nat \ {0}, NEW x \in Int, NEW k \in Int
    PROVE  ((x % m) + k) % m = (x + k) % m
  <1> DEFINE p == x \div m
             r == x % m
             y == r + k
             q == y \div m
             s == y % m
  <1>1. x = m * p + r /\ r \in 0 .. m - 1 /\ p \in Int
    BY DivMod
  <1>2. y \in Int
    BY <1>1
  <1>3. y = m * q + s /\ s \in 0 .. m - 1 /\ q \in Int
    BY <1>2, DivMod
  <1> HIDE DEF p, r, q, s
  <1> DEFINE n == p + q
             z == x + k
  <1>4. n \in Int /\ z \in Int /\ z = m * n + s
    BY <1>1, <1>3
  <1> HIDE DEF n, z
  <1>5. z % m = s
    BY <1>3, <1>4, ModUnique
  <1> QED
    BY <1>5 DEF s, r, z

\* Reducing a small number changes nothing.
LEMMA SmallMod ==
    ASSUME NEW m \in Nat \ {0}, NEW x \in 0 .. m - 1
    PROVE  x % m = x
  <1>1. x = m * 0 + x
    OBVIOUS
  <1> QED
    BY <1>1, ModUnique

\* A sum and a difference of two words.
LEMMA WordSum ==
    ASSUME NEW m \in Nat \ {0}, NEW x \in 0 .. m - 1, NEW y \in 0 .. m - 1
    PROVE  /\ (x + y) % m = IF x + y < m THEN x + y ELSE x + y - m
           /\ (x - y) % m = IF y <= x THEN x - y ELSE x - y + m
  <1>1. x + y < m => (x + y) % m = x + y
    BY SmallMod
  <1>2. ~(x + y < m) => (x + y) % m = x + y - m
    <2> SUFFICES ASSUME ~(x + y < m) PROVE (x + y) % m = x + y - m
      OBVIOUS
    <2>1. x + y - m \in 0 .. m - 1 /\ x + y = m * 1 + (x + y - m) /\ x + y \in Int
      OBVIOUS
    <2> QED
      BY <2>1, ModUnique
  <1>3. y <= x => (x - y) % m = x - y
    BY SmallMod
  <1>4. ~(y <= x) => (x - y) % m = x - y + m
    <2> SUFFICES ASSUME ~(y <= x) PROVE (x - y) % m = x - y + m
      OBVIOUS
    <2>1. x - y + m \in 0 .. m - 1 /\ x - y = m * (-1) + (x - y + m) /\ x - y \in Int
      OBVIOUS
    <2> QED
      BY <2>1, ModUnique
  <1> QED
    BY <1>1, <1>2, <1>3, <1>4

\* A word more or less makes no difference to a cell.
LEMMA WordPeriod ==
    ASSUME NEW x \in Int
    PROVE  (x + Word) % Length = x % Length
  <1> DEFINE p == x \div Length
             r == x % Length
             c == Word \div Length
             y == x + Word
  <1>1. Length \in Nat \ {0} /\ Word \in Int /\ Word % Length = 0
    BY LengthAssumption, WordAssumption
  <1>2. x = Length * p + r /\ r \in 0 .. Length - 1 /\ p \in Int
    BY <1>1, DivMod
  <1>3. Word = Length * c /\ c \in Int
    <2>1. Word = Length * c + (Word % Length) /\ c \in Int
      BY <1>1, DivMod
    <2>2. Length * c \in Int
      BY <1>1, <2>1, MultipleDifference
    <2> QED
      BY <1>1, <2>1, <2>2
  <1> HIDE DEF p, r, c
  <1> DEFINE q == p + c
  <1>4. y = Length * q + r /\ y \in Int /\ q \in Int
    BY <1>1, <1>2, <1>3
  <1> HIDE DEF y, q
  <1>5. y % Length = r
    BY <1>1, <1>2, <1>4, ModUnique
  <1> QED
    BY <1>5 DEF y, r

-----------------------------------------------------------------------------
(* The inductive invariant: while nobody took too much, there is no more   *)
(* data than memory.                                                       *)

BufferInv == BufferTypeOK /\ (~overdrawn => DataLen <= Length)

\* The constants.
LEMMA Constants == Length \in Nat \ {0} /\ Word \in Nat \ {0} /\ Length < Word
  BY LengthAssumption, WordAssumption

\* The lengths that the two ends report.
LEMMA Lengths ==
    ASSUME BufferTypeOK
    PROVE  /\ head \in 0 .. Word - 1 /\ tail \in 0 .. Word - 1
           /\ DataLen = IF head <= tail THEN tail - head ELSE tail - head + Word
           /\ DataLen \in 0 .. Word - 1
           /\ DataLen <= Length => UninitLen = Length - DataLen
  <1>1. head \in 0 .. Word - 1 /\ tail \in 0 .. Word - 1
    BY DEF BufferTypeOK
  <1>2. DataLen = IF head <= tail THEN tail - head ELSE tail - head + Word
    BY <1>1, Constants, WordSum DEF DataLen
  <1>3. DataLen \in 0 .. Word - 1
    BY <1>1, <1>2, Constants
  <1>4. DataLen <= Length => UninitLen = Length - DataLen
    <2>1. SUFFICES ASSUME DataLen <= Length PROVE (Length - DataLen) % Word = Length - DataLen
      BY DEF UninitLen
    <2>2. Length - DataLen \in 0 .. Word - 1
      BY <1>3, <2>1, Constants
    <2> QED
      BY <2>2, Constants, SmallMod
  <1> QED
    BY <1>1, <1>2, <1>3, <1>4

\* The cells that the two ends show at an offset.
LEMMA Cells ==
    ASSUME BufferTypeOK, NEW k \in Int
    PROVE  /\ DataCell(k) = (head + k) % Length
           /\ UninitCell(k) = (tail + k) % Length
           /\ UninitCell(k) = (head + DataLen + k) % Length
           /\ DataCell(k) \in 0 .. Length - 1
           /\ UninitCell(k) \in 0 .. Length - 1
  <1>1. head \in Int /\ tail \in Int /\ DataLen \in Int /\ Length \in Nat \ {0} /\ Word \in Int
    BY Constants, Lengths
  <1>2. DataCell(k) = (head + k) % Length /\ UninitCell(k) = (tail + k) % Length
    BY <1>1, ModSum DEF DataCell, UninitCell, P2Modulo
  <1>3. head + k \in Int /\ tail + k \in Int
    BY <1>1
  <1>4. (head + DataLen + k) % Length = (tail + k) % Length
    <2>1. CASE head <= tail
      <3>1. head + DataLen + k = tail + k
        BY <1>1, <2>1, Lengths
      <3> QED
        BY <3>1
    <2>2. CASE ~(head <= tail)
      <3>1. head + DataLen + k = (tail + k) + Word
        BY <1>1, <2>2, Lengths
      <3> QED
        BY <1>3, <3>1, WordPeriod
    <2> QED
      BY <2>1, <2>2
  <1> QED
    BY <1>1, <1>2, <1>3, <1>4, DivMod

LengthFacts ==
    /\ head \in 0 .. Word - 1 /\ tail \in 0 .. Word - 1
    /\ DataLen = IF head <= tail THEN tail - head ELSE tail - head + Word
    /\ DataLen \in 0 .. Word - 1
    /\ DataLen <= Length => UninitLen = Length - DataLen

CellFacts ==
    \A k \in Int :
        /\ DataCell(k) = (head + k) % Length
        /\ UninitCell(k) = (tail + k) % Length
        /\ UninitCell(k) = (head + DataLen + k) % Length

\* The same after a step.
LEMMA FactsNext == BufferTypeOK' => LengthFacts' /\ CellFacts'
  <1>1. BufferTypeOK => LengthFacts /\ CellFacts
    BY Lengths, Cells DEF LengthFacts, CellFacts
  <1> QED
    BY <1>1, PTL

\* Offsets from the same index that are less than Length apart are different cells.
LEMMA CellsDiffer ==
    ASSUME NEW h \in Int, NEW k \in Int, NEW l \in Int,
           k # l, k - l < Length, l - k < Length
    PROVE  (h + k) % Length # (h + l) % Length
  <1> DEFINE x == h + k
             y == h + l
  <1>1. x \in Int /\ y \in Int /\ x - y < Length /\ y - x < Length /\ x # y /\ Length \in Nat \ {0}
    BY Constants
  <1> HIDE DEF x, y
  <1>2. x % Length # y % Length
    <2>1. SUFFICES ASSUME x % Length = y % Length PROVE x = y
      BY <1>1
    <2> QED
      BY <1>1, <2>1, ModInjective
  <1> QED
    BY <1>2 DEF x, y

\* consume: where head ends, and when it panics.
LEMMA ConsumeEffect ==
    ASSUME BufferTypeOK, NEW n \in 0 .. Word - 1, Consume(n)
    PROVE  /\ head' = IF head + n < Word THEN head + n ELSE head + n - Word
           /\ head' \in 0 .. Word - 1
           /\ (head' - head) % Word = n
           /\ n <= DataLen => DataLen' = DataLen - n
           /\ panicked' = ~(head' <= tail)
           /\ overdrawn' = (overdrawn \/ n > DataLen)
           /\ UNCHANGED <<tail, memory>>
  <1>1. UNCHANGED <<tail, memory>> /\ panicked' = ~(head' <= tail) /\ overdrawn' = (overdrawn \/ n > DataLen)
    BY DEF Consume
  <1>2. head' = IF head + n < Word THEN head + n ELSE head + n - Word
    BY Constants, Lengths, WordSum DEF Consume, OverflowingAdd
  <1>3. head' \in 0 .. Word - 1
    BY <1>2, Constants, Lengths
  <1>4. (head' - head) % Word = n
    <2>1. (head' - head) % Word = IF head <= head' THEN head' - head ELSE head' - head + Word
      BY <1>3, Constants, Lengths, WordSum
    <2> QED
      BY <1>2, <2>1, Constants, Lengths
  <1>5. n <= DataLen => DataLen' = DataLen - n
    <2>1. DataLen' = (tail - head') % Word
      BY <1>1 DEF DataLen
    <2>2. DataLen' = IF head' <= tail THEN tail - head' ELSE tail - head' + Word
      BY <1>3, <2>1, Constants, Lengths, WordSum
    <2> QED
      BY <1>2, <2>2, Constants, Lengths
  <1> QED
    BY <1>1, <1>2, <1>3, <1>4, <1>5

\* commit: where tail ends.
LEMMA CommitEffect ==
    ASSUME BufferTypeOK, DataLen <= Length, NEW n \in 0 .. Word - 1, Commit(n)
    PROVE  /\ tail' \in 0 .. Word - 1
           /\ DataLen' = DataLen + n /\ DataLen + n <= Length
           /\ UNCHANGED <<head, memory, panicked, overdrawn>>
  <1>1. UNCHANGED <<head, memory, panicked, overdrawn>> /\ n <= Length - DataLen
    BY Lengths DEF Commit
  <1>2. tail' = IF tail + n < Word THEN tail + n ELSE tail + n - Word
    BY Constants, Lengths, WordSum DEF Commit, OverflowingAdd
  <1>3. tail' \in 0 .. Word - 1
    BY <1>2, Constants, Lengths
  <1>4. DataLen' = IF head <= tail' THEN tail' - head ELSE tail' - head + Word
    <2>1. DataLen' = (tail' - head) % Word
      BY <1>1 DEF DataLen
    <2> QED
      BY <1>3, <2>1, Constants, Lengths, WordSum
  <1> QED
    BY <1>1, <1>2, <1>3, <1>4, Constants, Lengths

\* The invariant holds initially.
LEMMA BufferInvInit == BufferInit => BufferInv /\ DataLen = 0
  <1> SUFFICES ASSUME BufferInit PROVE BufferInv /\ DataLen = 0
    OBVIOUS
  <1>1. BufferTypeOK
    <2>1. 0 \in 0 .. Word - 1
      BY Constants
    <2> QED
      BY <2>1 DEF BufferInit, BufferTypeOK
  <1>2. DataLen = 0
    <2>1. head = 0 /\ tail = 0
      BY DEF BufferInit
    <2> QED
      BY <1>1, <2>1, Lengths
  <1> QED
    BY <1>1, <1>2, Constants DEF BufferInv

\* Every step of the buffer preserves the invariant.
LEMMA BufferInvNext == BufferInv /\ [BufferNext]_bufferVars => BufferInv'
  <1> SUFFICES ASSUME BufferInv, [BufferNext]_bufferVars PROVE BufferInv'
    OBVIOUS
  <1>1. BufferTypeOK
    BY DEF BufferInv
  <1>2. ASSUME NEW k \in 0 .. Length - 1, NEW b \in Byte, Write(k, b) \/ WriteData(k, b)
        PROVE  BufferInv'
    <2>1. memory' \in [0 .. Length - 1 -> Byte] /\ UNCHANGED <<head, tail, panicked, overdrawn>>
      BY <1>1, <1>2 DEF Write, WriteData, BufferTypeOK
    <2> QED
      BY <2>1 DEF BufferInv, BufferTypeOK, DataLen
  <1>3. ASSUME NEW n \in 0 .. Word - 1, Commit(n) PROVE BufferInv'
    <2>1. UNCHANGED <<head, memory, panicked, overdrawn>>
      BY <1>3 DEF Commit
    <2>2. tail' \in 0 .. Word - 1
      <3> DEFINE x == tail + n
      <3>1. x \in Int /\ tail' = x % Word
        BY <1>1, <1>3, Constants, Lengths DEF Commit, OverflowingAdd
      <3> HIDE DEF x
      <3> QED
        BY <3>1, Constants, DivMod
    <2>3. BufferTypeOK'
      BY <1>1, <2>1, <2>2 DEF BufferTypeOK
    <2>4. ~overdrawn => DataLen' <= Length
      BY <1>1, <1>3, CommitEffect DEF BufferInv
    <2> QED
      BY <2>1, <2>3, <2>4 DEF BufferInv
  <1>4. ASSUME NEW n \in 0 .. Word - 1, Consume(n) PROVE BufferInv'
    <2>1. /\ head' \in 0 .. Word - 1 /\ UNCHANGED <<tail, memory>>
          /\ n <= DataLen => DataLen' = DataLen - n
          /\ overdrawn' = (overdrawn \/ n > DataLen) /\ panicked' \in BOOLEAN
      BY <1>1, <1>4, ConsumeEffect
    <2>2. BufferTypeOK'
      BY <1>1, <2>1 DEF BufferTypeOK
    <2>3. ~overdrawn' => ~overdrawn /\ n <= DataLen
      <3>1. ~(n > DataLen) => n <= DataLen
        BY <1>1, Lengths, Constants
      <3> QED
        BY <2>1, <3>1, Zenon
    <2>4. ~overdrawn' => DataLen' <= Length
      BY <1>1, <2>1, <2>3, Lengths, Constants DEF BufferInv
    <2> QED
      BY <2>2, <2>4 DEF BufferInv
  <1>5. CASE UNCHANGED bufferVars
    BY <1>5 DEF bufferVars, BufferInv, BufferTypeOK, DataLen
  <1> QED
    BY <1>2, <1>3, <1>4, <1>5 DEF BufferNext

\* The invariant is an invariant of the buffer.
LEMMA BufferInvAlways == BufferSpec => []BufferInv
  BY BufferInvInit, BufferInvNext, PTL DEF BufferSpec

-----------------------------------------------------------------------------
(* The theorems. *)

\* consume and commit keep the indices in range, and the memory a memory.
THEOREM BufferTypeCorrect == BufferSpec => []BufferTypeOK
  <1>1. BufferInv => BufferTypeOK
    BY DEF BufferInv
  <1> QED
    BY <1>1, BufferInvAlways, PTL

\* The slices of Data and Uninit are disjoint and cover the memory: with the
\* memory mapped twice, neither end can touch a byte that belongs to the other.
LEMMA InvDisjoint == BufferInv => EndsAreDisjoint
  <1> SUFFICES ASSUME BufferInv, ~overdrawn
               PROVE  /\ DataLen <= Length
                      /\ \A k \in 0 .. DataLen - 1, l \in 0 .. UninitLen - 1 :
                             DataCell(k) # UninitCell(l)
                      /\ \A c \in 0 .. Length - 1 :
                             \/ \E k \in 0 .. DataLen - 1 : c = DataCell(k)
                             \/ \E l \in 0 .. UninitLen - 1 : c = UninitCell(l)
    BY DEF EndsAreDisjoint
  <1>1. /\ Length \in Nat \ {0} /\ head \in Int /\ BufferTypeOK
        /\ DataLen \in 0 .. Length
        /\ UninitLen = Length - DataLen
    BY Lengths, Constants DEF BufferInv
  <1>2. ASSUME NEW k \in 0 .. DataLen - 1, NEW l \in 0 .. UninitLen - 1
        PROVE  DataCell(k) # UninitCell(l)
    <2> DEFINE m == DataLen + l
    <2>1. k \in Int /\ l \in Int /\ m \in Int /\ k # m /\ k - m < Length /\ m - k < Length
      BY <1>1
    <2>2. head + DataLen + l = head + m
      BY <1>1
    <2> HIDE DEF m
    <2>3. (head + k) % Length # (head + m) % Length
      BY <1>1, <2>1, CellsDiffer
    <2> QED
      BY <1>1, <2>1, <2>2, <2>3, Cells
  <1>3. ASSUME NEW c \in 0 .. Length - 1
        PROVE  \/ \E k \in 0 .. DataLen - 1 : c = DataCell(k)
               \/ \E l \in 0 .. UninitLen - 1 : c = UninitCell(l)
    <2> DEFINE d == c - head
               k == d % Length
               l == k - DataLen
    <2>1. d \in Int /\ k \in 0 .. Length - 1
      BY <1>1, DivMod
    <2>2. (k + head) % Length = (d + head) % Length
      <3>1. d \in Int /\ head \in Int /\ Length \in Nat \ {0}
        BY <1>1, <2>1
      <3> HIDE DEF d
      <3>2. ((d % Length) + head) % Length = (d + head) % Length
        BY ONLY <3>1, ModSum
      <3> QED
        BY <3>2
    <2>3. (d + head) % Length = c
      <3>1. d + head = c
        BY <1>1
      <3> QED
        BY <1>1, <3>1, SmallMod
    <2> HIDE DEF k
    <2>4. k \in Int /\ l \in Int /\ k + head = head + k /\ head + DataLen + l = head + k
      BY <1>1, <2>1
    <2>5. c = DataCell(k) /\ c = UninitCell(l)
      BY <1>1, <2>2, <2>3, <2>4, Cells
    <2>6. CASE k < DataLen
      <3>1. k \in 0 .. DataLen - 1
        BY <1>1, <2>1, <2>6
      <3> QED
        BY <2>5, <3>1
    <2>7. CASE ~(k < DataLen)
      <3>1. l \in 0 .. UninitLen - 1
        BY <1>1, <2>1, <2>7
      <3> QED
        BY <2>5, <3>1
    <2> QED
      BY <2>6, <2>7
  <1> QED
    BY <1>1, <1>2, <1>3

\* Data and Uninit never share memory, for every length of the buffer and every
\* width of the indices, until somebody consumes more than there is.
THEOREM EndsAlwaysDisjoint == BufferSpec => []EndsAreDisjoint
  BY InvDisjoint, BufferInvAlways, PTL

\* consume panics on the requests for too much and on no other, except where it
\* compares a wrapped index with one that has not wrapped: there it refuses every
\* request that stays behind the wrap and grants every one that crosses it.
THEOREM ConsumeErrsOnlyAtTheWrap == BufferSpec => ConsumeErrsAtTheWrap
  <1>1. ASSUME BufferInv, [BufferNext]_bufferVars
        PROVE  [head' # head \/ panicked' # panicked =>
                    IF (head' - head) % Word <= DataLen
                    THEN panicked' <=> tail < head /\ head <= head'
                    ELSE ~panicked' <=> head' < head /\ head <= tail]_bufferVars
    <2>1. ASSUME NEW n \in 0 .. Word - 1, Consume(n)
          PROVE  IF (head' - head) % Word <= DataLen
                 THEN panicked' <=> tail < head /\ head <= head'
                 ELSE ~panicked' <=> head' < head /\ head <= tail
      <3>1. BufferTypeOK
        BY <1>1 DEF BufferInv
      <3>2. /\ head' = IF head + n < Word THEN head + n ELSE head + n - Word
            /\ (head' - head) % Word = n
            /\ panicked' = ~(head' <= tail)
        BY <2>1, <3>1, ConsumeEffect
      <3>3. IF n <= DataLen
            THEN ~(head' <= tail) <=> tail < head /\ head <= head'
            ELSE head' <= tail <=> head' < head /\ head <= tail
        BY <3>1, <3>2, Lengths, Constants
      <3> QED
        BY <3>2, <3>3, Zenon
    <2>2. CASE UNCHANGED <<head, panicked>>
      BY <2>2
    <2>3. CASE \E n \in 0 .. Word - 1 : Consume(n)
      BY <2>1, <2>3
    <2>4. CASE UNCHANGED bufferVars
      BY <2>4
    <2> QED
      BY <1>1, <2>2, <2>3, <2>4 DEF BufferNext, Write, WriteData, Commit
  <1> QED
    BY <1>1, BufferInvAlways, PTL DEF BufferSpec, ConsumeErrsAtTheWrap

-----------------------------------------------------------------------------
(* The refinement: every call of the two ends is one of the queue's.       *)

\* Concatenation, element by element.
LEMMA ConcatIsFunction ==
    ASSUME NEW S, NEW s \in Seq(S), NEW t \in Seq(S)
    PROVE  s \o t = [j \in 1 .. Len(s) + Len(t) |->
                         IF j <= Len(s) THEN s[j] ELSE t[j - Len(s)]]
  <1> DEFINE f == [j \in 1 .. Len(s) + Len(t) |->
                      IF j <= Len(s) THEN s[j] ELSE t[j - Len(s)]]
  <1>1. \A j \in 1 .. Len(s) + Len(t) :
            f[j] \in S /\ f[j] = IF j <= Len(s) THEN s[j] ELSE t[j - Len(s)]
    OBVIOUS
  <1>2. f \in Seq(S) /\ Len(f) = Len(s) + Len(t)
    BY <1>1
  <1> HIDE DEF f
  <1> DEFINE g == s \o t
  <1>3. /\ g \in Seq(S) /\ Len(g) = Len(s) + Len(t)
        /\ \A j \in 1 .. Len(s) + Len(t) :
               g[j] = IF j <= Len(s) THEN s[j] ELSE t[j - Len(s)]
    BY ConcatProperties, Zenon
  <1> HIDE DEF g
  <1>4. g = f
    BY <1>1, <1>2, <1>3, SeqEqual
  <1> QED
    BY <1>4 DEF f, g

\* A part of a sequence, element by element.
LEMMA PartIsFunction ==
    ASSUME NEW S, NEW s \in Seq(S), NEW a \in 1 .. Len(s) + 1, NEW b \in a - 1 .. Len(s)
    PROVE  /\ SubSeq(s, a, b) \in Seq(S) /\ Len(SubSeq(s, a, b)) = b - a + 1
           /\ \A j \in 1 .. b - a + 1 : SubSeq(s, a, b)[j] = s[j + a - 1]
  OBVIOUS

\* What the two ends dereference to are sequences of bytes.
LEMMA ViewsAreSequences ==
    ASSUME BufferInv, ~overdrawn
    PROVE  /\ View \in Seq(Byte) /\ Len(View) = DataLen
           /\ Room \in Seq(Byte) /\ Len(Room) = Length - DataLen
           /\ DataLen \in 0 .. Length /\ UninitLen = Length - DataLen
  <1>1. BufferTypeOK /\ DataLen \in 0 .. Length /\ UninitLen = Length - DataLen /\ UninitLen \in Nat /\ DataLen \in Nat
    BY Lengths, Constants DEF BufferInv
  <1>2. ASSUME NEW k \in 1 .. DataLen PROVE memory[DataCell(k - 1)] \in Byte
    <2>1. k - 1 \in Int
      BY <1>1
    <2> QED
      BY <1>1, <2>1, Cells DEF BufferTypeOK
  <1>3. ASSUME NEW k \in 1 .. UninitLen PROVE memory[UninitCell(k - 1)] \in Byte
    <2>1. k - 1 \in Int
      BY <1>1
    <2> QED
      BY <1>1, <2>1, Cells DEF BufferTypeOK
  <1>4. View \in Seq(Byte) /\ Len(View) = DataLen
    BY <1>1, <1>2 DEF View
  <1>5. Room \in Seq(Byte) /\ Len(Room) = UninitLen
    BY <1>1, <1>3 DEF Room
  <1> QED
    BY <1>1, <1>4, <1>5

ViewFacts ==
    /\ View \in Seq(Byte) /\ Len(View) = DataLen
    /\ Room \in Seq(Byte) /\ Len(Room) = Length - DataLen
    /\ DataLen \in 0 .. Length /\ UninitLen = Length - DataLen

\* The same after a step.
LEMMA ViewsNext == BufferInv' /\ ~overdrawn' => ViewFacts'
  <1>1. BufferInv /\ ~overdrawn => ViewFacts
    BY ViewsAreSequences DEF ViewFacts
  <1> QED
    BY <1>1, PTL

\* Writing into Uninit changes one byte of the room and none of the queue.
LEMMA WriteIsWrite ==
    ASSUME BufferInv, ~overdrawn, NEW k \in 0 .. Length - 1, NEW b \in Byte, Write(k, b)
    PROVE  /\ View' = View /\ k + 1 \in 1 .. Len(Room)
           /\ Room' = [Room EXCEPT ![k + 1] = b]
  <1>1. /\ BufferTypeOK /\ UNCHANGED <<head, tail>> /\ memory' = [memory EXCEPT ![UninitCell(k)] = b]
        /\ DataLen' = DataLen /\ UninitLen' = UninitLen
        /\ k \in 0 .. UninitLen - 1 /\ DataLen \in 0 .. Length /\ UninitLen = Length - DataLen
        /\ Length \in Nat /\ tail \in Int
    BY ViewsAreSequences, Lengths, Constants DEF Write, BufferInv, DataLen, UninitLen
  <1>2. \A j \in Int : DataCell(j)' = DataCell(j) /\ UninitCell(j)' = UninitCell(j)
    BY <1>1 DEF DataCell, UninitCell
  <1>3. \A c \in 0 .. Length - 1 : memory'[c] = IF c = UninitCell(k) THEN b ELSE memory[c]
    BY <1>1 DEF BufferTypeOK
  <1>4. ASSUME NEW j \in 1 .. DataLen PROVE memory'[DataCell(j - 1)'] = memory[DataCell(j - 1)]
    <2>1. j - 1 \in 0 .. DataLen - 1 /\ j - 1 \in Int
      BY <1>1
    <2>2. DataCell(j - 1) # UninitCell(k)
      BY <1>1, <2>1, InvDisjoint DEF EndsAreDisjoint
    <2> QED
      BY <1>1, <1>2, <1>3, <2>1, <2>2, Cells
  <1>5. ASSUME NEW j \in 1 .. UninitLen
        PROVE  memory'[UninitCell(j - 1)'] = IF j = k + 1 THEN b ELSE memory[UninitCell(j - 1)]
    <2>1. j - 1 \in Int /\ k \in Int /\ j - 1 - k < Length /\ k - (j - 1) < Length
      BY <1>1
    <2>2. j # k + 1 => UninitCell(j - 1) # UninitCell(k)
      <3> DEFINE i == j - 1
      <3>1. SUFFICES ASSUME j # k + 1 PROVE UninitCell(i) # UninitCell(k)
        OBVIOUS
      <3>2. i \in Int /\ k \in Int /\ i # k /\ i - k < Length /\ k - i < Length
        BY <2>1, <3>1
      <3> HIDE DEF i
      <3>3. (tail + i) % Length # (tail + k) % Length
        BY <1>1, <3>2, CellsDiffer
      <3> QED
        BY <1>1, <3>2, <3>3, Cells
    <2>3. j = k + 1 => UninitCell(j - 1) = UninitCell(k)
      BY <2>1
    <2> QED
      BY <1>1, <1>2, <1>3, <2>1, <2>2, <2>3, Cells
  <1>6. View' = View
    BY <1>1, <1>4 DEF View
  <1>7. Room' = [Room EXCEPT ![k + 1] = b]
    BY <1>1, <1>5 DEF Room
  <1> QED
    BY <1>1, <1>6, <1>7, ViewsAreSequences

\* Writing through Data changes one byte of the queue and none of the room.
LEMMA WriteDataIsWrite ==
    ASSUME BufferInv, ~overdrawn, NEW k \in 0 .. Length - 1, NEW b \in Byte, WriteData(k, b)
    PROVE  /\ Room' = Room /\ k + 1 \in 1 .. Len(View)
           /\ View' = [View EXCEPT ![k + 1] = b]
  <1>1. /\ BufferTypeOK /\ UNCHANGED <<head, tail>> /\ memory' = [memory EXCEPT ![DataCell(k)] = b]
        /\ DataLen' = DataLen /\ UninitLen' = UninitLen
        /\ k \in 0 .. DataLen - 1 /\ DataLen \in 0 .. Length /\ UninitLen = Length - DataLen
        /\ Length \in Nat /\ head \in Int
    BY ViewsAreSequences, Lengths, Constants DEF WriteData, BufferInv, DataLen, UninitLen
  <1>2. \A j \in Int : DataCell(j)' = DataCell(j) /\ UninitCell(j)' = UninitCell(j)
    BY <1>1 DEF DataCell, UninitCell
  <1>3. \A c \in 0 .. Length - 1 : memory'[c] = IF c = DataCell(k) THEN b ELSE memory[c]
    BY <1>1 DEF BufferTypeOK
  <1>4. ASSUME NEW j \in 1 .. UninitLen PROVE memory'[UninitCell(j - 1)'] = memory[UninitCell(j - 1)]
    <2>1. j - 1 \in 0 .. UninitLen - 1 /\ j - 1 \in Int
      BY <1>1
    <2>2. DataCell(k) # UninitCell(j - 1)
      BY <1>1, <2>1, InvDisjoint DEF EndsAreDisjoint
    <2> QED
      BY <1>1, <1>2, <1>3, <2>1, <2>2, Cells
  <1>5. ASSUME NEW j \in 1 .. DataLen
        PROVE  memory'[DataCell(j - 1)'] = IF j = k + 1 THEN b ELSE memory[DataCell(j - 1)]
    <2>1. j - 1 \in Int /\ k \in Int /\ j - 1 - k < Length /\ k - (j - 1) < Length
      BY <1>1
    <2>2. j # k + 1 => DataCell(j - 1) # DataCell(k)
      <3> DEFINE i == j - 1
      <3>1. SUFFICES ASSUME j # k + 1 PROVE DataCell(i) # DataCell(k)
        OBVIOUS
      <3>2. i \in Int /\ k \in Int /\ i # k /\ i - k < Length /\ k - i < Length
        BY <2>1, <3>1
      <3> HIDE DEF i
      <3>3. (head + i) % Length # (head + k) % Length
        BY <1>1, <3>2, CellsDiffer
      <3> QED
        BY <1>1, <3>2, <3>3, Cells
    <2>3. j = k + 1 => DataCell(j - 1) = DataCell(k)
      BY <2>1
    <2> QED
      BY <1>1, <1>2, <1>3, <2>1, <2>2, <2>3, Cells
  <1>6. Room' = Room
    BY <1>1, <1>4 DEF Room
  <1>7. View' = [View EXCEPT ![k + 1] = b]
    BY <1>1, <1>5 DEF View
  <1> QED
    BY <1>1, <1>6, <1>7, ViewsAreSequences

\* Committing n bytes appends the first n bytes of the room to the queue.
LEMMA CommitAppends ==
    ASSUME BufferInv, BufferInv', ~overdrawn, NEW n \in 0 .. Word - 1, Commit(n)
    PROVE  /\ ~overdrawn' /\ n \in 0 .. Length /\ n <= Len(Room)
           /\ View' = View \o SubSeq(Room, 1, n)
           /\ Room' = SubSeq(Room, n + 1, Len(Room))
  <1>1. /\ BufferTypeOK /\ BufferTypeOK' /\ ~overdrawn' /\ head' = head /\ memory' = memory
        /\ DataLen' = DataLen + n /\ DataLen + n <= Length
        /\ n \in Nat /\ Length \in Nat /\ head \in Int
    BY CommitEffect, Constants, Lengths DEF BufferInv
  <1>2. /\ View \in Seq(Byte) /\ Len(View) = DataLen /\ Room \in Seq(Byte) /\ Len(Room) = Length - DataLen
        /\ DataLen \in Nat /\ UninitLen = Length - DataLen
    BY ViewsAreSequences
  <1>3. /\ View' \in Seq(Byte) /\ Len(View') = DataLen + n
        /\ Room' \in Seq(Byte) /\ Len(Room') = Length - (DataLen + n)
        /\ UninitLen' = Length - (DataLen + n)
    BY <1>1, ViewsNext DEF ViewFacts
  <1> DEFINE s == SubSeq(Room, 1, n)
             t == SubSeq(Room, n + 1, Length - DataLen)
  <1>4. s \in Seq(Byte) /\ Len(s) = n /\ \A j \in 1 .. n : s[j] = Room[j]
    BY <1>1, <1>2, PartIsFunction
  <1>5. /\ t \in Seq(Byte) /\ Len(t) = Length - (DataLen + n)
        /\ \A j \in 1 .. Length - (DataLen + n) : t[j] = Room[j + n]
    BY <1>1, <1>2, PartIsFunction
  <1> HIDE DEF s, t
  <1>6. ASSUME NEW j \in 1 .. DataLen + n
        PROVE  View'[j] = IF j <= DataLen THEN View[j] ELSE s[j - DataLen]
    <2>1. View'[j] = memory[DataCell(j - 1)]
      BY <1>1 DEF View, DataCell
    <2>2. CASE j <= DataLen
      BY <1>1, <1>2, <2>1, <2>2 DEF View
    <2>3. CASE ~(j <= DataLen)
      <3> DEFINE i == j - DataLen
      <3>1. i \in 1 .. n /\ i \in 1 .. UninitLen /\ i - 1 \in Int /\ j - 1 \in Int
            /\ head + DataLen + (i - 1) = head + (j - 1)
        BY <1>1, <1>2, <2>3
      <3> HIDE DEF i
      <3>2. DataCell(j - 1) = UninitCell(i - 1)
        BY <1>1, <3>1, Cells
      <3>3. s[i] = memory[UninitCell(i - 1)]
        BY <1>4, <3>1 DEF Room
      <3> QED
        BY <2>1, <2>3, <3>2, <3>3 DEF i
    <2> QED
      BY <2>2, <2>3
  <1>7. ASSUME NEW j \in 1 .. Length - (DataLen + n) PROVE Room'[j] = t[j]
    <2>1. /\ j - 1 \in Int /\ j + n - 1 \in Int /\ j + n \in 1 .. UninitLen
          /\ head + (DataLen + n) + (j - 1) = head + DataLen + (j + n - 1)
      BY <1>1, <1>2
    <2>2. UninitCell(j - 1)' = (head + (DataLen + n) + (j - 1)) % Length
      <3>1. UninitCell(j - 1)' = (head' + DataLen' + (j - 1)) % Length
        BY <1>1, <2>1, FactsNext DEF CellFacts
      <3> QED
        BY <1>1, <3>1
    <2>3. UninitCell(j - 1)' = UninitCell(j + n - 1)
      BY <1>1, <2>1, <2>2, Cells
    <2>4. Room'[j] = memory'[UninitCell(j - 1)']
      BY <1>3 DEF Room
    <2>5. Room[j + n] = memory[UninitCell(j + n - 1)]
      BY <2>1 DEF Room
    <2> QED
      BY <1>1, <1>5, <2>3, <2>4, <2>5
  <1> HIDE DEF View, Room
  <1>8. View' = View \o s
    <2> DEFINE u == View \o s
    <2>1. u = [j \in 1 .. DataLen + n |-> IF j <= DataLen THEN View[j] ELSE s[j - DataLen]]
      BY <1>2, <1>4, ConcatIsFunction, ZenonT(60)
    <2>2. View' = [j \in 1 .. DataLen + n |-> View'[j]]
      BY <1>1, <1>2, <1>3
    <2>3. View' = [j \in 1 .. DataLen + n |-> IF j <= DataLen THEN View[j] ELSE s[j - DataLen]]
      BY <1>6, <2>2, ZenonT(60)
    <2> QED
      BY <2>1, <2>3, Zenon
  <1>9. Room' = t
    BY <1>3, <1>5, <1>7, SeqEqual
  <1> QED
    BY <1>1, <1>2, <1>8, <1>9 DEF s, t

\* Consuming n bytes that are there gives the first n back to the room.
LEMMA ConsumeTakes ==
    ASSUME BufferInv, BufferInv', ~overdrawn, NEW n \in 0 .. Word - 1, Consume(n), n <= DataLen
    PROVE  /\ ~overdrawn' /\ n \in 0 .. Length /\ n <= Len(View)
           /\ View' = SubSeq(View, n + 1, Len(View))
           /\ Room' = Room \o SubSeq(View, 1, n)
  <1>1. /\ BufferTypeOK /\ BufferTypeOK' /\ tail' = tail /\ memory' = memory
        /\ head' = IF head + n < Word THEN head + n ELSE head + n - Word
        /\ DataLen' = DataLen - n
        /\ overdrawn' = (overdrawn \/ n > DataLen)
        /\ n \in Nat /\ Length \in Nat \ {0} /\ head \in Int /\ tail \in Int /\ Word \in Int
        /\ head' \in 0 .. Word - 1
    BY ConsumeEffect, Constants, Lengths DEF BufferInv
  <1>2. /\ View \in Seq(Byte) /\ Len(View) = DataLen /\ Room \in Seq(Byte) /\ Len(Room) = Length - DataLen
        /\ DataLen \in 0 .. Length /\ UninitLen = Length - DataLen
    BY ViewsAreSequences
  <1>3. ~overdrawn'
    <2>1. ~(n > DataLen)
      BY <1>1, <1>2
    <2> QED
      BY <1>1, <2>1, Zenon
  <1>4. /\ View' \in Seq(Byte) /\ Len(View') = DataLen - n
        /\ Room' \in Seq(Byte) /\ Len(Room') = Length - (DataLen - n)
        /\ UninitLen' = Length - (DataLen - n)
    BY <1>1, <1>3, ViewsNext DEF ViewFacts
  <1> DEFINE s == SubSeq(View, n + 1, DataLen)
             t == SubSeq(View, 1, n)
  <1>5. t \in Seq(Byte) /\ Len(t) = n /\ \A j \in 1 .. n : t[j] = View[j]
    BY <1>1, <1>2, PartIsFunction
  <1>6. /\ s \in Seq(Byte) /\ Len(s) = DataLen - n
        /\ \A j \in 1 .. DataLen - n : s[j] = View[j + n]
    BY <1>1, <1>2, PartIsFunction
  <1> HIDE DEF s, t
  <1>7. ASSUME NEW j \in 1 .. DataLen - n PROVE View'[j] = s[j]
    <2>1. j - 1 \in Int /\ j + n - 1 \in Int /\ j + n \in 1 .. DataLen
      BY <1>1, <1>2
    <2>2. DataCell(j - 1)' = (head' + (j - 1)) % Length
      BY <1>1, <2>1, FactsNext DEF CellFacts
    <2>3. (head' + (j - 1)) % Length = (head + (j + n - 1)) % Length
      <3>1. CASE head + n < Word
        <4>1. head' + (j - 1) = head + (j + n - 1)
          BY <1>1, <3>1
        <4> QED
          BY <4>1
      <3>2. CASE ~(head + n < Word)
        <4>1. (head' + (j - 1)) + Word = head + (j + n - 1) /\ head' + (j - 1) \in Int
          BY <1>1, <3>2
        <4> QED
          BY <4>1, WordPeriod
      <3> QED
        BY <3>1, <3>2
    <2>4. DataCell(j - 1)' = DataCell(j + n - 1)
      BY <1>1, <2>1, <2>2, <2>3, Cells
    <2>5. View'[j] = memory'[DataCell(j - 1)']
      BY <1>1 DEF View
    <2>6. View[j + n] = memory[DataCell(j + n - 1)]
      BY <2>1 DEF View
    <2> QED
      BY <1>1, <1>6, <2>4, <2>5, <2>6
  <1>8. ASSUME NEW j \in 1 .. (Length - DataLen) + n
        PROVE  Room'[j] = IF j <= Length - DataLen THEN Room[j] ELSE t[j - (Length - DataLen)]
    <2>1. Room'[j] = memory[UninitCell(j - 1)]
      <3>1. UninitCell(j - 1)' = UninitCell(j - 1)
        BY <1>1 DEF UninitCell
      <3>2. j \in 1 .. UninitLen'
        BY <1>1, <1>2, <1>4
      <3>3. Room'[j] = memory'[UninitCell(j - 1)']
        BY <3>2 DEF Room
      <3> QED
        BY <1>1, <3>1, <3>3
    <2>2. CASE j <= Length - DataLen
      BY <1>1, <1>2, <2>1, <2>2 DEF Room
    <2>3. CASE ~(j <= Length - DataLen)
      <3> DEFINE i == j - (Length - DataLen)
                 x == head + (i - 1)
      <3>1. /\ i \in 1 .. n /\ i \in 1 .. DataLen /\ i - 1 \in Int /\ j - 1 \in Int /\ x \in Int
            /\ head + DataLen + (j - 1) = x + Length
        BY <1>1, <1>2, <2>3
      <3>2. (x + Length) % Length = x % Length
        <4> HIDE DEF x
        <4>1. Length % Length = 0 /\ 0 + x = x /\ Length + x = x + Length
          <5>1. Length = Length * 1 + 0 /\ 0 \in 0 .. Length - 1
            BY <1>1
          <5>2. Length % Length = 0
            BY <1>1, <5>1, ModUnique
          <5> QED
            BY <1>1, <3>1, <5>2
        <4>2. ((Length % Length) + x) % Length = (Length + x) % Length
          <5>1. Length \in Nat \ {0} /\ Length \in Int /\ x \in Int
            BY <1>1, <3>1
          <5> QED
            BY ONLY <5>1, ModSum
        <4> QED
          BY <4>1, <4>2
      <3> HIDE DEF i
      <3>3. UninitCell(j - 1) = DataCell(i - 1)
        BY <1>1, <3>1, <3>2, Cells
      <3>4. t[i] = memory[DataCell(i - 1)]
        BY <1>5, <3>1 DEF View
      <3> QED
        BY <2>1, <2>3, <3>3, <3>4 DEF i
    <2> QED
      BY <2>2, <2>3
  <1> HIDE DEF View, Room
  <1>9. Room' = Room \o t
    <2> DEFINE m == Length - DataLen
               u == Room \o t
    <2>1. u = [j \in 1 .. m + n |-> IF j <= m THEN Room[j] ELSE t[j - m]]
      <3>1. Room \in Seq(Byte) /\ t \in Seq(Byte) /\ Len(Room) = m /\ Len(t) = n
        BY <1>2, <1>5
      <3>2. u = [j \in 1 .. Len(Room) + Len(t) |->
                     IF j <= Len(Room) THEN Room[j] ELSE t[j - Len(Room)]]
        BY <3>1, ConcatIsFunction
      <3> HIDE DEF m, u
      <3> QED
        BY <3>1, <3>2, Zenon
    <2>2. Room' = [j \in 1 .. m + n |-> Room'[j]]
      <3>1. m + n = Length - (DataLen - n)
        BY <1>1, <1>2
      <3>2. Room' \in Seq(Byte) /\ Len(Room') = m + n
        BY <1>4, <3>1
      <3> HIDE DEF m, u
      <3> QED
        BY ONLY <3>2
    <2>3. Room' = [j \in 1 .. m + n |-> IF j <= m THEN Room[j] ELSE t[j - m]]
      <3>1. \A j \in 1 .. m + n : Room'[j] = IF j <= m THEN Room[j] ELSE t[j - m]
        BY <1>8
      <3> HIDE DEF m, u
      <3> QED
        BY <2>2, <3>1, Zenon
    <2> QED
      BY <2>1, <2>3, Zenon
  <1>10. View' = s
    BY <1>4, <1>6, <1>7, SeqEqual
  <1> QED
    BY <1>1, <1>2, <1>3, <1>9, <1>10, Constants DEF s, t

\* The circular buffer implements the queue of bytes: what is written into the
\* free end comes out of the other in order, each byte once, wherever head and
\* tail stand in the memory and in the word.
THEOREM BufferIsByteStream == BufferSpec => IsByteStream
  <1> DEFINE queue == IF overdrawn THEN <<>> ELSE View
             space == IF overdrawn THEN <<>> ELSE Room
  <1>1. BufferInit => Stream!StreamInit
    <2> SUFFICES ASSUME BufferInit PROVE Stream!StreamInit
      OBVIOUS
    <2>1. BufferInv /\ ~overdrawn /\ overdrawn = FALSE /\ DataLen = 0
      BY BufferInvInit DEF BufferInit
    <2>2. View = <<>> /\ Room \in Seq(Byte) /\ Len(Room) = Length /\ Length \in Nat
      BY <2>1, ViewsAreSequences, Constants
    <2>3. Room \in [1 .. Length -> Byte]
      BY <2>2
    <2> QED
      BY <2>1, <2>2, <2>3 DEF Stream!StreamInit
  <1>2. ASSUME BufferInv, BufferInv', [BufferNext]_bufferVars
        PROVE  [Stream!StreamNext]_(Stream!streamVars)
    <2>1. CASE overdrawn /\ overdrawn'
      <3>1. overdrawn' = overdrawn
        BY <1>2, <2>1 DEF BufferInv, BufferTypeOK
      <3> QED
        BY <2>1, <3>1 DEF Stream!streamVars
    <2>2. ASSUME overdrawn PROVE overdrawn'
      BY <1>2, <2>2 DEF BufferNext, bufferVars, Write, WriteData, Commit, Consume
    <2>3. ASSUME ~overdrawn, NEW k \in 0 .. Length - 1, NEW b \in Byte, Write(k, b) \/ WriteData(k, b)
          PROVE  Stream!StreamNext
      <3>1. overdrawn' = overdrawn
        BY <2>3 DEF Write, WriteData
      <3>2. k + 1 \in 1 .. Length
        BY Constants
      <3>3. CASE Write(k, b)
        <4>1. Stream!WriteRoom(k + 1, b)
          BY <1>2, <2>3, <3>1, <3>3, WriteIsWrite DEF Stream!WriteRoom
        <4> QED
          BY <3>2, <4>1 DEF Stream!StreamNext
      <3>4. CASE WriteData(k, b)
        <4>1. Stream!WriteContents(k + 1, b)
          BY <1>2, <2>3, <3>1, <3>4, WriteDataIsWrite DEF Stream!WriteContents
        <4> QED
          BY <3>2, <4>1 DEF Stream!StreamNext
      <3> QED
        BY <2>3, <3>3, <3>4
    <2>4. ASSUME ~overdrawn, NEW n \in 0 .. Word - 1, Commit(n)
          PROVE  Stream!StreamNext
      <3>1. overdrawn' = overdrawn
        BY <2>4 DEF Commit
      <3>2. n \in 0 .. Length /\ Stream!Produce(n)
        BY <1>2, <2>4, <3>1, CommitAppends DEF Stream!Produce
      <3> QED
        BY <3>2 DEF Stream!StreamNext
    <2>5. ASSUME ~overdrawn, NEW n \in 0 .. Word - 1, Consume(n)
          PROVE  Stream!StreamNext
      <3>1. CASE n <= DataLen
        <4>1. ~overdrawn'
          BY <1>2, <2>5, <3>1, ConsumeTakes
        <4>2. overdrawn' = overdrawn
          BY <1>2, <2>5, <4>1 DEF BufferInv, BufferTypeOK
        <4>3. n \in 0 .. Length /\ Stream!Take(n)
          BY <1>2, <2>5, <3>1, <4>1, <4>2, ConsumeTakes DEF Stream!Take
        <4> QED
          BY <4>3 DEF Stream!StreamNext
      <3>2. CASE ~(n <= DataLen)
        <4>1. n > DataLen
          BY <1>2, <3>2, Lengths, Constants DEF BufferInv
        <4>2. overdrawn' = TRUE
          BY <1>2, <2>5, <4>1 DEF Consume, BufferInv, BufferTypeOK
        <4> QED
          BY <2>5, <4>2 DEF Stream!Break, Stream!StreamNext
      <3> QED
        BY <3>1, <3>2
    <2>6. CASE UNCHANGED bufferVars
      BY <2>6 DEF bufferVars, Stream!streamVars, View, Room, DataLen, UninitLen, DataCell, UninitCell
    <2> QED
      BY <1>2, <2>1, <2>2, <2>3, <2>4, <2>5, <2>6 DEF BufferNext
  <1> QED
    BY <1>1, <1>2, BufferInvAlways, PTL DEF BufferSpec, IsByteStream, Stream!StreamSpec

-----------------------------------------------------------------------------
(* Arithmetic of pages. *)

\* The order of the naturals, as a relation.
LEMMA NaturalOrder ==
    \E R : IsWellFoundedOn(R, Nat) /\ \A x, y \in Nat : x < y => <<x, y>> \in R
  <1> DEFINE R == OpToRel(<, Nat)
  <1>1. IsWellFoundedOn(R, Nat)
    BY NatLessThanWellFounded
  <1>2. \A x, y \in Nat : x < y => <<x, y>> \in R
    BY DEF OpToRel
  <1> QED
    BY <1>1, <1>2, Zenon

\* A nonempty part of a well-founded set has a minimal element.
LEMMA MinimalElement ==
    ASSUME NEW R, NEW N, IsWellFoundedOn(R, N), NEW T, T \subseteq N, T # {}
    PROVE  \E x \in T : \A y \in T : ~ (<<y, x>> \in R)
  BY WFMin, Zenon

\* A set of naturals has a least element.
LEMMA LeastElement ==
    ASSUME NEW S, S \subseteq Nat, S # {}
    PROVE  \E x \in S : \A y \in S : x <= y
  <1>1. PICK R : IsWellFoundedOn(R, Nat) /\ \A x, y \in Nat : x < y => <<x, y>> \in R
    BY NaturalOrder
  <1>2. IsWellFoundedOn(R, Nat) /\ \A x, y \in Nat : ~ (<<y, x>> \in R) => ~(y < x)
    BY <1>1, Zenon
  <1>3. \E x \in S : \A y \in S : ~ (<<y, x>> \in R)
    BY <1>2, MinimalElement, Zenon
  <1>4. PICK x \in S : \A y \in S : ~(y < x)
    BY <1>2, <1>3, Zenon
  <1> QED
    BY <1>4

\* calculate_length fails or returns a power of two.
LEMMA LengthIsPower ==
    ASSUME NEW n \in Nat
    PROVE  \/ CalculateLength(n) = Word
           \/ CalculateLength(n) \in 1 .. Word - 1 /\ IsPowerOfTwo(CalculateLength(n))
  <1> DEFINE m == NextMultiple(n)
             powers == {p \in 1 .. Word - 1 : p >= m /\ IsPowerOfTwo(p)}
  <1>1. /\ CalculateLength(n) = (IF m >= Word THEN Word ELSE NextPowerOfTwo(m))
        /\ NextPowerOfTwo(m) = (IF powers = {} THEN Word ELSE CHOOSE p \in powers : \A q \in powers : p <= q)
    BY DEF CalculateLength, NextPowerOfTwo
  <1>2. powers \subseteq Nat /\ \A p \in powers : p \in 1 .. Word - 1 /\ IsPowerOfTwo(p)
    BY WordAssumption
  <1> HIDE DEF powers, m
  <1>3. ASSUME powers # {} PROVE NextPowerOfTwo(m) \in powers
    <2>1. \E p \in powers : \A q \in powers : p <= q
      BY <1>2, <1>3, LeastElement
    <2> QED
      BY <1>1, <1>3, <2>1, Zenon
  <1> QED
    BY <1>1, <1>2, <1>3

\* The quotient is determined by any decomposition.
LEMMA DivUnique ==
    ASSUME NEW m \in Nat \ {0}, NEW q \in Int, NEW r \in 0 .. m - 1, NEW x \in Int, x = m * q + r
    PROVE  x \div m = q
  <1> DEFINE p == x \div m
             s == x % m
  <1>1. x = m * p + s /\ s \in 0 .. m - 1 /\ p \in Int
    BY DivMod
  <1> HIDE DEF p, s
  <1>2. m * p \in Int /\ m * q \in Int
    BY <1>1, MultipleDifference
  <1>3. m * p - m * q = r - s /\ r - s < m /\ -m < r - s /\ r - s \in Int
    BY <1>1, <1>2
  <1>4. p = q
    BY <1>1, <1>3, SameQuotient
  <1> QED
    BY <1>4 DEF p

\* Half of the bytes take no more than all of the pages.
LEMMA HalfFits ==
    ASSUME NEW n \in Nat
    PROVE  PagesOf(n) \in Nat /\ PagesOf(2 * n) \in Nat /\ PagesOf(n) <= PagesOf(2 * n)
  <1> DEFINE a == n + PageSize - 1
             b == 2 * n + PageSize - 1
             p == a \div PageSize
             q == b \div PageSize
  <1>1. PageSize \in Nat \ {0}
    BY MemoryAssumption
  <1>2. a \in Nat /\ b \in Nat /\ a <= b
    BY <1>1
  <1> HIDE DEF a, b
  <1>3. /\ a = PageSize * p + (a % PageSize) /\ a % PageSize \in 0 .. PageSize - 1 /\ p \in Int
        /\ b = PageSize * q + (b % PageSize) /\ b % PageSize \in 0 .. PageSize - 1 /\ q \in Int
    BY <1>1, <1>2, DivMod
  <1> DEFINE r == a % PageSize
             s == b % PageSize
  <1> HIDE DEF p, q, r, s
  <1>4. /\ a = PageSize * p + r /\ r \in 0 .. PageSize - 1
        /\ b = PageSize * q + s /\ s \in 0 .. PageSize - 1
    BY <1>3 DEF r, s
  <1>5. PageSize * p \in Int /\ PageSize * q \in Int /\ PageSize * (p - q) = PageSize * p - PageSize * q
    BY <1>1, <1>3, MultipleDifference
  <1>6. p <= q
    <2>1. PageSize * (p - q) < PageSize
      BY <1>1, <1>2, <1>4, <1>5
    <2>2. ~(p - q >= 1)
      BY <1>1, <1>3, <2>1, MultipleBound
    <2> QED
      BY <1>3, <2>2
  <1>7. p >= 0 /\ q >= 0
    <2>1. PageSize * (-p) < PageSize
      BY <1>1, <1>2, <1>3, <1>4
    <2>2. ~(-p >= 1)
      BY <1>1, <1>3, <2>1, MultipleBound
    <2> QED
      BY <1>3, <1>6, <2>2
  <1> QED
    BY <1>3, <1>6, <1>7 DEF PagesOf, p, q, a, b

\* A length in whole pages: both halves take the same number.
LEMMA WholePages ==
    ASSUME NEW n \in Nat, n % PageSize = 0
    PROVE  /\ n \div PageSize \in Nat
           /\ PagesOf(n) = n \div PageSize
           /\ PagesOf(2 * n) = 2 * (n \div PageSize)
  <1> DEFINE m == n \div PageSize
  <1>1. PageSize \in Nat \ {0}
    BY MemoryAssumption
  <1>2. n = PageSize * m /\ m \in Int
    <2>1. n = PageSize * m + (n % PageSize) /\ m \in Int
      BY <1>1, DivMod
    <2> QED
      BY <1>1, <2>1
  <1> HIDE DEF m
  <1>3. m \in Nat
    <2>1. PageSize * (-m) < PageSize
      BY <1>1, <1>2
    <2>2. ~(-m >= 1)
      BY <1>1, <1>2, <2>1, MultipleBound
    <2> QED
      BY <1>2, <2>2
  <1>4. (n + PageSize - 1) \div PageSize = m
    <2> DEFINE x == n + PageSize - 1
               r == PageSize - 1
    <2>1. x \in Int /\ r \in 0 .. PageSize - 1 /\ x = PageSize * m + r
      BY <1>1, <1>2
    <2> HIDE DEF x, r
    <2>2. x \div PageSize = m
      BY <1>1, <1>2, <2>1, DivUnique
    <2> QED
      BY <2>2 DEF x
  <1>5. (2 * n + PageSize - 1) \div PageSize = 2 * m
    <2> DEFINE x == 2 * n + PageSize - 1
               r == PageSize - 1
               k == 2 * m
    <2>1. x \in Int /\ r \in 0 .. PageSize - 1 /\ x = PageSize * k + r /\ k \in Int
      BY <1>1, <1>2
    <2> HIDE DEF x, r, k
    <2>2. x \div PageSize = k
      BY <1>1, <2>1, DivUnique
    <2> QED
      BY <2>2 DEF x, k
  <1> QED
    BY <1>3, <1>4, <1>5 DEF PagesOf, m

-----------------------------------------------------------------------------
(* Who has which pages. *)

Phases == {"none", "sized", "file", "reserved", "half", "live", "drop1", "drop2", "dropped", "failed"}

\* The pages reserved for the buffer.
Mine == Block(pointer, PagesOf(2 * length))

MemoryTypes ==
    /\ phase \in Phases
    /\ length \in Nat
    /\ phase \in Phases \ {"none", "failed"} => IsPowerOfTwo(length)
    /\ pointer \in Nat
    /\ pages \in [Page -> {"free", "reserved", "buffer", "stack"}]
    /\ stack \in 0 .. MaxPages
    /\ refused \in Nat
    /\ phase \notin {"drop1", "drop2", "dropped"} => refused = 0

StackMapped ==
    stack # 0 => Block(stack, StackPages) \subseteq Page /\ \A q \in Block(stack, StackPages) : pages[q] = "stack"

\* From the reservation to the last unmapping no page of the buffer is a stack's;
\* outside of it nothing but stacks is mapped.
Apart ==
    /\ phase \in {"reserved", "half", "live", "drop1", "drop2"} =>
          /\ Mine \subseteq Page
          /\ \A q \in Mine : pages[q] # "stack"
          /\ \A q \in Page \ Mine : pages[q] \in {"free", "stack"}
    /\ phase \in {"none", "sized", "file"} \/ (phase = "dropped" /\ refused < 2) =>
          \A q \in Page : pages[q] \in {"free", "stack"}

\* What the steps between have done: every page is unmapped twice, so that one
\* refusal makes no difference in the end.
Progress ==
    /\ phase = "half" => \A q \in Block(pointer, PagesOf(length)) : pages[q] = "buffer"
    /\ phase = "live" => \A q \in Mine : pages[q] = "buffer"
    /\ phase \in {"drop1", "drop2"} /\ refused = 0 => \A q \in Mine : pages[q] = "free"
    /\ phase = "drop2" /\ refused < 2 => \A q \in Block(pointer, PagesOf(length)) : pages[q] = "free"
    /\ phase \in {"live", "drop1", "drop2"} => length % PageSize = 0

MemoryInv == MemoryTypes /\ StackMapped /\ Apart /\ Progress

\* Marking a block changes its pages and no other.
LEMMA MarkedPages ==
    ASSUME MemoryTypes, NEW p, NEW n, NEW what \in {"free", "reserved", "buffer", "stack"},
           pages' = Marked(p, n, what)
    PROVE  /\ pages' \in [Page -> {"free", "reserved", "buffer", "stack"}]
           /\ \A q \in Page : pages'[q] = IF q \in Block(p, n) THEN what ELSE pages[q]
  BY DEF Marked, MemoryTypes

\* The steps before anything is mapped.
LEMMA SizingKeeps ==
    ASSUME MemoryInv, (\E n \in Requests : Create(n)) \/ AnonymousFile
    PROVE  MemoryInv'
  <1>1. /\ UNCHANGED <<pointer, pages, stack, refused>>
        /\ phase \in {"none", "sized"} /\ phase' \in {"sized", "file", "failed"}
    BY DEF Create, AnonymousFile
  <1>2. length' \in Nat /\ (phase' # "failed" => IsPowerOfTwo(length'))
    <2>1. ASSUME NEW n \in Requests, Create(n)
          PROVE  length' \in Nat /\ (phase' # "failed" => IsPowerOfTwo(length'))
      <3>0. Word \in Nat /\ n \in Nat /\ length \in Nat
        BY WordAssumption, MemoryAssumption DEF MemoryInv, MemoryTypes
      <3>1. CASE CalculateLength(n) >= Word
        BY <2>1, <3>0, <3>1 DEF Create
      <3>2. CASE ~(CalculateLength(n) >= Word)
        <4>1. CalculateLength(n) \in 1 .. Word - 1 /\ IsPowerOfTwo(CalculateLength(n))
          BY <3>0, <3>2, LengthIsPower
        <4> QED
          BY <2>1, <3>0, <3>2, <4>1 DEF Create
      <3> QED
        BY <3>1, <3>2
    <2>2. CASE AnonymousFile
      BY <2>2 DEF AnonymousFile, MemoryInv, MemoryTypes, Phases
    <2> QED
      BY <2>1, <2>2
  <1>3. MemoryTypes'
    BY <1>1, <1>2 DEF MemoryInv, MemoryTypes, Phases, IsPowerOfTwo
  <1>4. StackMapped'
    BY <1>1 DEF MemoryInv, StackMapped
  <1>5. Apart' /\ Progress'
    BY <1>1 DEF MemoryInv, Apart, Progress
  <1> QED
    BY <1>3, <1>4, <1>5 DEF MemoryInv

\* The reservation of both halves.
LEMMA ReservingKeeps ==
    ASSUME MemoryInv, AnonymousMapping
    PROVE  MemoryInv'
  <1> DEFINE n == PagesOf(2 * length)
  <1>1. UNCHANGED <<length, stack, refused>> /\ phase = "file" /\ length \in Nat /\ IsPowerOfTwo(length)
    BY DEF AnonymousMapping, MemoryInv, MemoryTypes, Phases
  <1>2. n \in Nat /\ MaxPages \in Nat
    BY <1>1, HalfFits, MemoryAssumption
  <1> HIDE DEF n
  <1>3. CASE phase' = "failed" /\ UNCHANGED <<pages, pointer>>
    BY <1>1, <1>3 DEF MemoryInv, MemoryTypes, Phases, StackMapped, Apart, Progress
  <1>4. ASSUME NEW p \in 1 .. MaxPages - n + 1, \A q \in Block(p, n) : pages[q] = "free",
               pages' = Marked(p, n, "reserved"), pointer' = p, phase' = "reserved"
        PROVE  MemoryInv'
    <2>1. p \in Nat /\ Block(p, n) \subseteq Page /\ Mine' = Block(p, n)
      BY <1>1, <1>2, <1>4 DEF Block, Page, Mine, n
    <2>2. /\ pages' \in [Page -> {"free", "reserved", "buffer", "stack"}]
          /\ \A q \in Page : pages'[q] = IF q \in Block(p, n) THEN "reserved" ELSE pages[q]
      BY <1>4, MarkedPages DEF MemoryInv
    <2>3. MemoryTypes'
      BY <1>1, <1>4, <2>1, <2>2 DEF MemoryInv, MemoryTypes, Phases, IsPowerOfTwo
    <2>4. StackMapped'
      BY <1>1, <1>4, <2>2 DEF MemoryInv, StackMapped
    <2>5. Apart'
      <3>1. \A q \in Page : pages[q] \in {"free", "stack"}
        BY <1>1 DEF MemoryInv, Apart
      <3>2. \A q \in Mine' : q \in Page /\ pages'[q] = "reserved"
        BY <2>1, <2>2
      <3>3. \A q \in Page \ Mine' : pages'[q] \in {"free", "stack"}
        BY <2>1, <2>2, <3>1
      <3> QED
        BY <1>4, <3>2, <3>3 DEF Apart
    <2>6. Progress'
      BY <1>4 DEF Progress
    <2> QED
      BY <2>3, <2>4, <2>5, <2>6 DEF MemoryInv
  <1> QED
    BY <1>3, <1>4 DEF AnonymousMapping, n

\* Marking a block inside the buffer's leaves the other pages alone.
LEMMA MarkedInside ==
    ASSUME MemoryInv, Mine \subseteq Page, \A q \in Mine : pages[q] # "stack",
           NEW p, NEW n, Block(p, n) \subseteq Mine, NEW what \in {"free", "buffer"},
           pages' = Marked(p, n, what)
    PROVE  /\ pages' \in [Page -> {"free", "reserved", "buffer", "stack"}]
           /\ \A q \in Page \ Mine : pages'[q] = pages[q]
           /\ \A q \in Mine : pages'[q] = IF q \in Block(p, n) THEN what ELSE pages[q]
           /\ \A q \in Mine : pages'[q] # "stack"
  <1>1. /\ pages' \in [Page -> {"free", "reserved", "buffer", "stack"}]
        /\ \A q \in Page : pages'[q] = IF q \in Block(p, n) THEN what ELSE pages[q]
    BY MarkedPages DEF MemoryInv
  <1> QED
    BY <1>1

\* A step of the buffer that has pages changes no page but its own.
LEMMA MineOnly ==
    ASSUME MemoryInv, phase \in {"reserved", "half", "live", "drop1", "drop2"},
           UNCHANGED <<length, pointer, stack>>, refused' \in Nat,
           phase' \in {"half", "live", "drop1", "drop2", "dropped"},
           phase' \in {"half", "live"} => refused' = 0,
           pages' \in [Page -> {"free", "reserved", "buffer", "stack"}],
           \A q \in Page \ Mine : pages'[q] = pages[q],
           \A q \in Mine : pages'[q] # "stack",
           phase' = "dropped" /\ refused' < 2 => \A q \in Mine : pages'[q] = "free"
    PROVE  MemoryTypes' /\ StackMapped' /\ Apart'
  <1>1. Mine' = Mine /\ Mine \subseteq Page /\ (\A q \in Mine : pages[q] # "stack")
        /\ \A q \in Page \ Mine : pages[q] \in {"free", "stack"}
    BY DEF Mine, MemoryInv, Apart
  <1>2. MemoryTypes'
    BY DEF MemoryInv, MemoryTypes, Phases, IsPowerOfTwo
  <1>3. StackMapped'
    <2>1. ASSUME stack # 0, NEW q \in Block(stack, StackPages) PROVE q \in Page /\ pages'[q] = "stack"
      <3>1. q \in Page /\ pages[q] = "stack"
        BY <2>1 DEF MemoryInv, StackMapped
      <3> QED
        BY <1>1, <3>1
    <2> QED
      BY <2>1 DEF StackMapped
  <1>4. Apart'
    BY <1>1 DEF Apart
  <1> QED
    BY <1>2, <1>3, <1>4

\* The pages of the halves of a buffer.
LEMMA Halves ==
    ASSUME MemoryInv
    PROVE  /\ length \in Nat /\ pointer \in Nat
           /\ Block(pointer, PagesOf(length)) \subseteq Mine
           /\ pointer + 0 \div PageSize = pointer
           /\ length % PageSize = 0 =>
                LET second == Block(pointer + length \div PageSize, PagesOf(length))
                IN  second \subseteq Mine /\ Mine \subseteq Block(pointer, PagesOf(length)) \cup second
  <1>1. length \in Nat /\ pointer \in Nat /\ PageSize \in Nat \ {0}
    BY MemoryAssumption DEF MemoryInv, MemoryTypes
  <1>2. PagesOf(length) \in Nat /\ PagesOf(2 * length) \in Nat /\ PagesOf(length) <= PagesOf(2 * length)
    BY <1>1, HalfFits
  <1>3. 0 \div PageSize = 0
    BY <1>1, DivUnique
  <1>4. Block(pointer, PagesOf(length)) \subseteq Mine
    BY <1>1, <1>2 DEF Mine, Block
  <1>5. ASSUME length % PageSize = 0
        PROVE  LET second == Block(pointer + length \div PageSize, PagesOf(length))
               IN  second \subseteq Mine /\ Mine \subseteq Block(pointer, PagesOf(length)) \cup second
    <2> DEFINE m == length \div PageSize
    <2>1. m \in Nat /\ PagesOf(length) = m /\ PagesOf(2 * length) = 2 * m
      BY <1>1, <1>5, WholePages
    <2> HIDE DEF m
    <2>2. /\ Block(pointer + m, m) \subseteq Block(pointer, 2 * m)
          /\ Block(pointer, 2 * m) \subseteq Block(pointer, m) \cup Block(pointer + m, m)
      BY <1>1, <2>1 DEF Block
    <2> QED
      BY <2>1, <2>2 DEF Mine, m
  <1> QED
    BY <1>1, <1>3, <1>4, <1>5

\* The mapping of a half.
LEMMA MappingKeeps ==
    ASSUME MemoryInv, FileMapping("reserved", "half", 0) \/ FileMapping("half", "live", length)
    PROVE  MemoryInv'
  <1>1. /\ UNCHANGED <<length, pointer, stack, refused>> /\ phase \in {"reserved", "half"} /\ Mine' = Mine
        /\ refused = 0 /\ Mine \subseteq Page /\ \A q \in Mine : pages[q] # "stack"
    BY DEF FileMapping, Mine, MemoryInv, MemoryTypes, Apart
  <1>2. CASE phase' = "failed" /\ UNCHANGED pages
    BY <1>1, <1>2 DEF MemoryInv, MemoryTypes, Phases, StackMapped, Apart, Progress
  <1>3. ASSUME phase = "reserved", phase' = "half",
               pages' = Marked(pointer + 0 \div PageSize, PagesOf(length), "buffer")
        PROVE  MemoryInv'
    <2>1. pages' = Marked(pointer, PagesOf(length), "buffer") /\ Block(pointer, PagesOf(length)) \subseteq Mine
      BY <1>3, Halves
    <2>2. /\ pages' \in [Page -> {"free", "reserved", "buffer", "stack"}]
          /\ \A q \in Page \ Mine : pages'[q] = pages[q]
          /\ \A q \in Mine : pages'[q] = IF q \in Block(pointer, PagesOf(length)) THEN "buffer" ELSE pages[q]
          /\ \A q \in Mine : pages'[q] # "stack"
      BY <1>1, <2>1, MarkedInside
    <2>3. MemoryTypes' /\ StackMapped' /\ Apart'
      BY <1>1, <1>3, <2>2, MineOnly
    <2>5. Progress'
      BY <1>1, <1>3, <2>1, <2>2 DEF Progress
    <2> QED
      BY <2>3, <2>5 DEF MemoryInv
  <1>4. ASSUME phase = "half", phase' = "live", length % PageSize = 0,
               pages' = Marked(pointer + length \div PageSize, PagesOf(length), "buffer")
        PROVE  MemoryInv'
    <2> DEFINE p == pointer + length \div PageSize
               second == Block(p, PagesOf(length))
    <2>1. second \subseteq Mine /\ Mine \subseteq Block(pointer, PagesOf(length)) \cup second
      BY <1>4, Halves
    <2>2. pages' = Marked(p, PagesOf(length), "buffer")
      BY <1>4
    <2> HIDE DEF p
    <2>4. /\ pages' \in [Page -> {"free", "reserved", "buffer", "stack"}]
          /\ \A q \in Page \ Mine : pages'[q] = pages[q]
          /\ \A q \in Mine : pages'[q] = IF q \in second THEN "buffer" ELSE pages[q]
          /\ \A q \in Mine : pages'[q] # "stack"
      BY <1>1, <2>1, <2>2, MarkedInside
    <2>3. MemoryTypes' /\ StackMapped' /\ Apart'
      BY <1>1, <1>4, <2>4, MineOnly
    <2>5. \A q \in Block(pointer, PagesOf(length)) : pages[q] = "buffer"
      BY <1>4 DEF MemoryInv, Progress
    <2> HIDE DEF second
    <2>6. Progress'
      BY <1>1, <1>4, <2>1, <2>4, <2>5 DEF Progress
    <2> QED
      BY <2>3, <2>6 DEF MemoryInv
  <1> QED
    BY <1>2, <1>3, <1>4 DEF FileMapping

\* The three unmappings.
LEMMA UnmappingKeeps ==
    ASSUME MemoryInv,
           \/ DropState("live", "drop1", 0, 2 * length)
           \/ DropState("drop1", "drop2", 0, length)
           \/ DropState("drop2", "dropped", length, length)
    PROVE  MemoryInv'
  <1> DEFINE first == Block(pointer, PagesOf(length))
             second == Block(pointer + length \div PageSize, PagesOf(length))
  <1>1. /\ UNCHANGED <<length, pointer, stack>> /\ Mine' = Mine /\ first' = first
        /\ phase \in {"live", "drop1", "drop2"}
    BY DEF DropState, Mine
  <1>2. /\ length % PageSize = 0 /\ Mine \subseteq Page /\ refused \in Nat
        /\ phase = "live" => refused = 0
        /\ \A q \in Mine : pages[q] # "stack"
        /\ phase \in {"drop1", "drop2"} /\ refused = 0 => \A q \in Mine : pages[q] = "free"
        /\ phase = "drop2" /\ refused < 2 => \A q \in first : pages[q] = "free"
    BY <1>1 DEF MemoryInv, MemoryTypes, Apart, Progress
  <1>3. first \subseteq Mine /\ second \subseteq Mine /\ Mine \subseteq first \cup second
    BY <1>2, Halves
  <1>4. PICK p, n : /\ \/ pages' = Marked(p, n, "free") /\ refused' = refused
                       \/ pages' = pages /\ refused' = refused + 1
                    /\ \/ phase = "live" /\ phase' = "drop1" /\ Block(p, n) = Mine
                       \/ phase = "drop1" /\ phase' = "drop2" /\ Block(p, n) = first
                       \/ phase = "drop2" /\ phase' = "dropped" /\ Block(p, n) = second
    <2>1. pointer + 0 \div PageSize = pointer
      BY Halves
    <2>2. CASE DropState("live", "drop1", 0, 2 * length)
      BY <2>1, <2>2 DEF DropState, RemoveMapping, Mine
    <2>3. CASE DropState("drop1", "drop2", 0, length)
      BY <2>1, <2>3 DEF DropState, RemoveMapping
    <2>4. CASE DropState("drop2", "dropped", length, length)
      BY <2>4 DEF DropState, RemoveMapping
    <2> QED
      BY <2>2, <2>3, <2>4
  <1> HIDE DEF first, second
  <1>5. /\ pages' \in [Page -> {"free", "reserved", "buffer", "stack"}]
        /\ \A q \in Page \ Mine : pages'[q] = pages[q]
        /\ \A q \in Mine : pages'[q] # "stack"
        /\ \A q \in Mine : pages[q] = "free" => pages'[q] = "free"
        /\ refused' = refused => \A q \in Block(p, n) : pages'[q] = "free"
        /\ refused' \in Nat /\ refused <= refused' /\ (refused' # refused => refused' = refused + 1)
    <2>1. CASE pages' = Marked(p, n, "free") /\ refused' = refused
      <3>1. Block(p, n) \subseteq Mine
        BY <1>3, <1>4
      <3> QED
        BY <1>2, <2>1, <3>1, MarkedInside
    <2>2. CASE pages' = pages /\ refused' = refused + 1
      BY <1>2, <2>2 DEF MemoryInv, MemoryTypes
    <2> QED
      BY <1>4, <2>1, <2>2
  <1>6. phase' = "dropped" /\ refused' < 2 => \A q \in Mine : pages'[q] = "free"
    <2> SUFFICES ASSUME phase' = "dropped", refused' < 2, NEW q \in Mine PROVE pages'[q] = "free"
      OBVIOUS
    <2>1. phase = "drop2" /\ Block(p, n) = second
      BY <1>4
    <2>2. CASE refused' = refused
      BY <1>2, <1>3, <1>5, <2>1, <2>2
    <2>3. CASE refused' # refused
      <3>1. refused = 0
        BY <1>2, <1>5, <2>3
      <3> QED
        BY <1>2, <1>5, <2>1, <3>1
    <2> QED
      BY <2>2, <2>3
  <1>7. MemoryTypes' /\ StackMapped' /\ Apart'
    BY <1>1, <1>4, <1>5, <1>6, MineOnly
  <1>8. phase' \in {"drop1", "drop2"} /\ refused' = 0 => \A q \in Mine : pages'[q] = "free"
    <2> SUFFICES ASSUME phase' \in {"drop1", "drop2"}, refused' = 0, NEW q \in Mine PROVE pages'[q] = "free"
      OBVIOUS
    <2>1. refused' = refused /\ refused = 0
      BY <1>2, <1>5
    <2> QED
      BY <1>2, <1>4, <1>5, <2>1
  <1>9. phase' = "drop2" /\ refused' < 2 => \A q \in first : pages'[q] = "free"
    <2> SUFFICES ASSUME phase' = "drop2", refused' < 2, NEW q \in first PROVE pages'[q] = "free"
      OBVIOUS
    <2>1. phase = "drop1" /\ Block(p, n) = first /\ q \in Mine
      BY <1>3, <1>4
    <2>2. CASE refused' = refused
      BY <1>5, <2>1, <2>2
    <2>3. CASE refused' # refused
      <3>1. refused = 0
        BY <1>2, <1>5, <2>3
      <3> QED
        BY <1>2, <1>5, <2>1, <3>1
    <2> QED
      BY <2>2, <2>3
  <1>10. Progress'
    BY <1>1, <1>2, <1>4, <1>8, <1>9 DEF Progress, first
  <1> QED
    BY <1>7, <1>10 DEF MemoryInv

\* A stack comes and goes, between the steps of nobody.
LEMMA StackKeeps ==
    ASSUME ~OtherThreads, MemoryInv, NewStack \/ DropStack
    PROVE  MemoryInv'
  <1>1. /\ UNCHANGED <<phase, length, pointer, refused>> /\ Mine' = Mine
        /\ phase \in {"none", "live", "dropped", "failed"} /\ MaxPages \in Nat
    BY MemoryAssumption DEF NewStack, DropStack, StackRuns, Mine
  <1>2. CASE UNCHANGED <<stack, pages>>
    BY <1>1, <1>2 DEF MemoryInv, MemoryTypes, IsPowerOfTwo, StackMapped, Apart, Progress
  <1>3. ASSUME NEW p \in 1 .. MaxPages - StackPages + 1, \A q \in Block(p, StackPages) : pages[q] = "free",
               stack' = p, pages' = Marked(p, StackPages, "stack")
        PROVE  MemoryInv'
    <2>1. Block(p, StackPages) \subseteq Page /\ p \in 0 .. MaxPages
      BY <1>1 DEF Block, Page, StackPages
    <2>2. /\ pages' \in [Page -> {"free", "reserved", "buffer", "stack"}]
          /\ \A q \in Page : pages'[q] = IF q \in Block(p, StackPages) THEN "stack" ELSE pages[q]
      BY <1>3, MarkedPages DEF MemoryInv
    <2>3. MemoryTypes'
      BY <1>1, <1>3, <2>1, <2>2 DEF MemoryInv, MemoryTypes, IsPowerOfTwo
    <2>4. StackMapped'
      BY <1>3, <2>1, <2>2 DEF StackMapped
    <2>5. Apart'
      BY <1>1, <1>3, <2>2 DEF MemoryInv, Apart, Progress
    <2>6. Progress'
      BY <1>1, <1>3, <2>2 DEF MemoryInv, Apart, Progress
    <2> QED
      BY <2>3, <2>4, <2>5, <2>6 DEF MemoryInv
  <1>4. ASSUME stack # 0, pages' = Marked(stack, StackPages, "free"), stack' = 0
        PROVE  MemoryInv'
    <2>1. \A q \in Block(stack, StackPages) : pages[q] = "stack"
      BY <1>4 DEF MemoryInv, StackMapped
    <2>2. /\ pages' \in [Page -> {"free", "reserved", "buffer", "stack"}]
          /\ \A q \in Page : pages'[q] = IF q \in Block(stack, StackPages) THEN "free" ELSE pages[q]
      BY <1>4, MarkedPages DEF MemoryInv
    <2>3. MemoryTypes' /\ StackMapped'
      BY <1>1, <1>4, <2>2 DEF MemoryInv, MemoryTypes, IsPowerOfTwo, StackMapped
    <2>4. Apart'
      BY <1>1, <2>1, <2>2 DEF MemoryInv, Apart
    <2>5. Progress'
      BY <1>1, <2>1, <2>2 DEF MemoryInv, Apart, Progress
    <2> QED
      BY <2>3, <2>4, <2>5 DEF MemoryInv
  <1> QED
    BY <1>2, <1>3, <1>4 DEF NewStack, DropStack

\* The invariant, always.
LEMMA MemoryInvariant == ASSUME ~OtherThreads PROVE MemorySpec => []MemoryInv
  <1>1. MemoryInit => MemoryInv
    BY MemoryAssumption
       DEF MemoryInit, MemoryInv, MemoryTypes, Phases, StackMapped, Apart, Progress
  <1>2. ASSUME MemoryInv, UNCHANGED mappingVars PROVE MemoryInv'
    <2>1. UNCHANGED <<phase, length, pointer, pages, stack, refused>> /\ Mine' = Mine
      BY <1>2 DEF mappingVars, Mine
    <2> QED
      BY <1>2, <2>1 DEF MemoryInv, MemoryTypes, IsPowerOfTwo, StackMapped, Apart, Progress
  <1>3. ASSUME MemoryInv, MemoryNext PROVE MemoryInv'
    BY <1>2, <1>3, SizingKeeps, ReservingKeeps, MappingKeeps, UnmappingKeeps, StackKeeps
       DEF MemoryNext, Use
  <1>4. ASSUME MemoryInv, UNCHANGED vars PROVE MemoryInv'
    BY <1>2, <1>4 DEF vars
  <1> QED
    BY <1>1, <1>3, <1>4, PTL DEF MemorySpec

\* In a process with one thread every mapping belongs to one owner from its mmap
\* to its munmap, whatever lengths are asked for and whichever step fails: the
\* second round of unmappings in State::drop never meets a stack, and a buffer in
\* use is mapped twice in full with a length that is a power of two.
THEOREM MappingsStayOwn == ASSUME ~OtherThreads PROVE MemorySpec => []MappingsAreOwn
  <1>1. MemoryInv => MappingsAreOwn
    BY DEF MemoryInv, MemoryTypes, Phases, StackMapped, Progress, Mine, MappingsAreOwn
  <1> QED
    BY <1>1, MemoryInvariant, PTL

\* Pages are lost only by a constructor that fails after its first mapping, or by
\* a drop that the kernel refuses two unmappings, whichever two: with one refusal
\* the other two calls still unmap everything.
THEOREM LeaksComeFromFailures == ASSUME ~OtherThreads PROVE MemorySpec => []LeakOnlyAfterFailure
  <1>1. MemoryInv => LeakOnlyAfterFailure
    BY DEF MemoryInv, Apart, LeakOnlyAfterFailure
  <1> QED
    BY <1>1, MemoryInvariant, PTL

\* What is proved above of CircularBuffer holds of a buffer that is constructed,
\* used and dropped: no step of its mapping touches its indices or its contents.
THEOREM MemoryImplementsBuffer == MemorySpec => BufferSpec
  <1>1. MemoryInit => BufferInit
    BY DEF MemoryInit
  <1>2. [MemoryNext]_vars => [BufferNext]_bufferVars
    BY DEF MemoryNext, vars, Use, Create, AnonymousFile, AnonymousMapping, FileMapping, DropState,
           NewStack, DropStack
  <1> QED
    BY <1>1, <1>2, PTL DEF MemorySpec, BufferSpec

=============================================================================
