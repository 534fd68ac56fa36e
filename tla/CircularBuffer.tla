--------------------------- MODULE CircularBuffer ---------------------------
(***************************************************************************)
(* The circular buffer for byte streams (src/circular_buffer.rs): one      *)
(* State shared by its two ends, Data (read and consume) and Uninit (write *)
(* and commit), which belong to different fibers.                          *)
(*                                                                         *)
(* The physical memory has Length cells and is mapped twice in a row, so   *)
(* that the virtual address a is the cell a % Length for a < 2 * Length.   *)
(* head and tail count bytes since the beginning of the stream and wrap    *)
(* around with the machine word.                                           *)
(***************************************************************************)
EXTENDS Integers, Sequences

CONSTANTS
    Byte,    \* the values of a byte
    Length,  \* State::length, a power of two
    Word     \* number of values of a usize, a larger power of two

ASSUME LengthAssumption == Length \in Nat \ {0}
ASSUME WordAssumption == Word \in Nat /\ Length < Word /\ Word % Length = 0

VARIABLES
    head,
    tail,
    memory,    \* the physical memory
    panicked,  \* the assertion of the latest consume failed
    overdrawn  \* history: some consume asked for more than there was

bufferVars == <<head, tail, memory, panicked, overdrawn>>

BufferTypeOK ==
    /\ head \in 0 .. Word - 1
    /\ tail \in 0 .. Word - 1
    /\ memory \in [0 .. Length - 1 -> Byte]
    /\ panicked \in BOOLEAN
    /\ overdrawn \in BOOLEAN

\* circular_buffer: the memory of the new file
BufferInit ==
    /\ head = 0
    /\ tail = 0
    /\ memory \in [0 .. Length - 1 -> Byte]
    /\ panicked = FALSE
    /\ overdrawn = FALSE

-----------------------------------------------------------------------------

\* usize::overflowing_add
OverflowingAdd(a, b) == (a + b) % Word

\* State::data_len and State::uninit_len, whose subtractions wrap in a build
\* without overflow checks (one with checks panics where they would).
DataLen == (tail - head) % Word
UninitLen == (Length - DataLen) % Word

\* (mutant) a mask of m in place of m - 1.
MutP2Modulo(n, m) == n % (m + 1)

\* p2_modulo
P2Modulo(n, m) == n % m

\* The cell at offset k of the slices that Data and Uninit dereference to.
DataCell(k) == (P2Modulo(head, Length) + k) % Length
UninitCell(k) == (P2Modulo(tail, Length) + k) % Length

\* Uninit::deref_mut: a byte is written somewhere into the free part.  (A slice
\* that is longer than the memory, which takes a consume of too much, reaches
\* every cell and whatever lies behind the mappings.)
Write(k, b) ==
    /\ k < UninitLen
    /\ memory' = [memory EXCEPT ![UninitCell(k)] = b]
    /\ UNCHANGED <<head, tail, panicked, overdrawn>>

\* Data::deref_mut: a byte that is there is overwritten.
WriteData(k, b) ==
    /\ k < DataLen
    /\ memory' = [memory EXCEPT ![DataCell(k)] = b]
    /\ UNCHANGED <<head, tail, panicked, overdrawn>>

\* (mutant) the assertion of commit compares with the whole length.
MutCommit(capacity) ==
    /\ capacity <= Length
    /\ tail' = OverflowingAdd(tail, capacity)
    /\ UNCHANGED <<head, memory, panicked, overdrawn>>

\* Uninit::commit, which asserts before it changes anything.
Commit(capacity) ==
    /\ capacity <= UninitLen
    /\ tail' = OverflowingAdd(tail, capacity)
    /\ UNCHANGED <<head, memory, panicked, overdrawn>>

\* (mutant) the assertion of consume asks for data to be left.
MutConsume(capacity) ==
    /\ head' = OverflowingAdd(head, capacity)
    /\ panicked' = ~(head' < tail)
    /\ overdrawn' = (overdrawn \/ capacity > DataLen)
    /\ UNCHANGED <<tail, memory>>

\* (mutant) consume moves head the wrong way.
MutConsumeBack(capacity) ==
    /\ head' = head - capacity
    /\ panicked' = ~(head' <= tail)
    /\ overdrawn' = (overdrawn \/ capacity > DataLen)
    /\ UNCHANGED <<tail, memory>>

\* Data::consume, which moves head before it looks: after a panic, which ends
\* the closure that owns Data, the other end goes on with the moved head.
Consume(capacity) ==
    /\ head' = OverflowingAdd(head, capacity)
    /\ panicked' = ~(head' <= tail)
    /\ overdrawn' = (overdrawn \/ capacity > DataLen)
    /\ UNCHANGED <<tail, memory>>

BufferNext ==
    \/ \E k \in 0 .. Length - 1, b \in Byte : Write(k, b) \/ WriteData(k, b)
    \/ \E capacity \in 0 .. Word - 1 : Commit(capacity) \/ Consume(capacity)

BufferSpec == BufferInit /\ [][BufferNext]_bufferVars

-----------------------------------------------------------------------------

\* The bytes that Data and Uninit dereference to.
View == [k \in 1 .. DataLen |-> memory[DataCell(k - 1)]]
Room == [k \in 1 .. UninitLen |-> memory[UninitCell(k - 1)]]

\* The two ends never see the same memory: while Data is read, Uninit may be
\* written (by the kernel, or by the fiber that owns the other end), so the
\* slices must not share a cell, and together they are the whole memory.  It
\* takes a consume of too much to change that; head and tail may wrap.
EndsAreDisjoint ==
    ~overdrawn =>
        /\ DataLen <= Length
        /\ \A k \in 0 .. DataLen - 1, l \in 0 .. UninitLen - 1 : DataCell(k) # UninitCell(l)
        /\ \A c \in 0 .. Length - 1 :
               \/ \E k \in 0 .. DataLen - 1 : c = DataCell(k)
               \/ \E l \in 0 .. UninitLen - 1 : c = UninitCell(l)

\* When consume is wrong.  It compares head and tail as if they did not wrap
\* ("safe to overflow"), so it panics on a request that there are bytes for
\* if and only if tail has wrapped and head stays behind, and it grants one that
\* there are no bytes for if and only if the request wraps head and tail has not
\* wrapped.  Anywhere else it panics exactly on the requests for too much.
ConsumeErrsAtTheWrap ==
    [][head' # head \/ panicked' # panicked =>
           IF (head' - head) % Word <= DataLen
           THEN panicked' <=> tail < head /\ head <= head'
           ELSE ~panicked' <=> head' < head /\ head <= tail]_bufferVars

\* The buffer is a queue of bytes in a bounded memory, until somebody takes more
\* than there is.
Stream == INSTANCE ByteStream
            WITH Capacity <- Length,
                 contents <- IF overdrawn THEN <<>> ELSE View,
                 room <- IF overdrawn THEN <<>> ELSE Room,
                 broken <- overdrawn

IsByteStream == Stream!StreamSpec

=============================================================================
