---------------------------- MODULE BufferMemory ----------------------------
(***************************************************************************)
(* The life of a circular buffer (src/circular_buffer.rs) and of a fiber's *)
(* stack (src/runtime/stack.rs) in the address space of the process: the   *)
(* steps of the constructor, each of which may fail, the buffer in use     *)
(* (module CircularBuffer), and the three unmappings of its drop.          *)
(*                                                                         *)
(* The address space is a row of pages.  mmap and munmap belong to the     *)
(* kernel; another thread may call them between any two steps.             *)
(***************************************************************************)
EXTENDS CircularBuffer

CONSTANTS
    PageSize,      \* bytes in a page
    MaxPages,      \* pages of the address space
    Requests,      \* lengths passed to circular_buffer
    OtherThreads   \* whether the stack belongs to another thread's runtime

ASSUME MemoryAssumption ==
    /\ PageSize \in Nat \ {0} /\ MaxPages \in Nat /\ Requests \subseteq 0 .. Word - 1
    /\ OtherThreads \in BOOLEAN

VARIABLES
    phase,    \* how far the constructor or the drop is
    length,   \* the length that was calculated
    pointer,  \* the first page of the buffer's mapping
    pages,    \* what each page is mapped to
    stack,    \* the first page of the stack, 0 if there is none
    refused   \* history: unmappings of the drop that the kernel refused

mappingVars == <<phase, length, pointer, pages, stack, refused>>
vars == <<bufferVars, mappingVars>>

Page == 1 .. MaxPages
PagesOf(bytes) == (bytes + PageSize - 1) \div PageSize
Block(p, n) == p .. p + n - 1
Marked(p, n, what) == [q \in Page |-> IF q \in Block(p, n) THEN what ELSE pages[q]]

\* The pages of a stack: guard pages below usable ones, one of each.
StackPages == 2

MemoryInit ==
    /\ BufferInit
    /\ phase = "none" /\ length = 0 /\ pointer = 0 /\ stack = 0 /\ refused = 0
    /\ pages = [p \in Page |-> "free"]

-----------------------------------------------------------------------------
\* The constructor

\* usize::is_power_of_two
IsPowerOfTwo(n) == \E k \in 0 .. Word : n = 2 ^ k

\* usize::checked_next_multiple_of and checked_next_power_of_two: Word is None
NextMultiple(n) == PageSize * PagesOf(n)
NextPowerOfTwo(n) ==
    LET powers == {p \in 1 .. Word - 1 : p >= n /\ IsPowerOfTwo(p)} IN
    IF powers = {} THEN Word ELSE CHOOSE p \in powers : \A q \in powers : p <= q

\* calculate_length
CalculateLength(n) ==
    IF NextMultiple(n) >= Word THEN Word ELSE NextPowerOfTwo(NextMultiple(n))

\* circular_buffer: the length
Create(n) ==
    /\ phase = "none"
    /\ IF CalculateLength(n) >= Word
       THEN phase' = "failed" /\ UNCHANGED length
       ELSE phase' = "sized" /\ length' = CalculateLength(n)
    /\ UNCHANGED <<bufferVars, pointer, pages, stack, refused>>

\* anonymous_file and set_len, which takes a signed number
AnonymousFile ==
    /\ phase = "sized"
    /\ phase' \in IF 2 * length < Word THEN {"file", "failed"} ELSE {"failed"}
    /\ UNCHANGED <<bufferVars, length, pointer, pages, stack, refused>>

\* anonymous_mapping of both halves, wherever the kernel finds room
AnonymousMapping ==
    /\ phase = "file"
    /\ LET n == PagesOf(2 * length) IN
       \/ \E p \in 1 .. MaxPages - n + 1 :
             /\ \A q \in Block(p, n) : pages[q] = "free"
             /\ pages' = Marked(p, n, "reserved")
             /\ pointer' = p
             /\ phase' = "reserved"
       \/ phase' = "failed" /\ UNCHANGED <<pages, pointer>>
    /\ UNCHANGED <<bufferVars, length, stack, refused>>

\* file_mapping, at the pointer and at one length behind it, where a length
\* that is not a multiple of the page is not an address of a page.  The question
\* mark drops the file and leaves the mapping.
FileMapping(from, to, offset) ==
    /\ phase = from
    /\ \/ /\ offset % PageSize = 0
          /\ pages' = Marked(pointer + offset \div PageSize, PagesOf(length), "buffer")
          /\ phase' = to
       \/ phase' = "failed" /\ UNCHANGED pages
    /\ UNCHANGED <<bufferVars, length, pointer, stack, refused>>

\* The buffer in use, when it is as long as the instance of CircularBuffer.
Use == phase = "live" /\ length = Length /\ BufferNext /\ UNCHANGED mappingVars

-----------------------------------------------------------------------------
\* Drop

\* (mutant) pages for bytes.
MutRemoveMapping(p, n) ==
    \/ pages' = Marked(p, PagesOf(n) \div 2, "free") /\ UNCHANGED refused
    \/ refused' = refused + 1 /\ UNCHANGED pages

\* remove_mapping: whatever is mapped there goes, or the kernel refuses, which
\* the drop ignores.
RemoveMapping(p, n) ==
    \/ pages' = Marked(p, PagesOf(n), "free") /\ UNCHANGED refused
    \/ refused' = refused + 1 /\ UNCHANGED pages

\* (mutant) one length too far.
MutDropState(from, to, offset, n) ==
    /\ phase = from
    /\ RemoveMapping(pointer + (offset + n) \div PageSize, n)
    /\ phase' = to
    /\ UNCHANGED <<bufferVars, length, pointer, stack>>

\* The three calls in State::drop
DropState(from, to, offset, n) ==
    /\ phase = from
    /\ RemoveMapping(pointer + offset \div PageSize, n)
    /\ phase' = to
    /\ UNCHANGED <<bufferVars, length, pointer, stack>>

-----------------------------------------------------------------------------
\* A stack

\* Whether the owner of the stack may run: the constructor and the drop do not
\* park, so that only another thread gets in between.
StackRuns == OtherThreads \/ phase \in {"none", "live", "dropped", "failed"}

\* Stack::new: if the guard cannot be set the value is dropped and unmapped.
NewStack ==
    /\ StackRuns
    /\ stack = 0
    /\ \E p \in 1 .. MaxPages - StackPages + 1 :
          /\ \A q \in Block(p, StackPages) : pages[q] = "free"
          /\ \/ stack' = p /\ pages' = Marked(p, StackPages, "stack")
             \/ UNCHANGED <<stack, pages>>
    /\ UNCHANGED <<bufferVars, phase, length, pointer, refused>>

\* Stack::drop, which asserts that the kernel does not refuse.
DropStack ==
    /\ StackRuns
    /\ stack # 0
    /\ pages' = Marked(stack, StackPages, "free")
    /\ stack' = 0
    /\ UNCHANGED <<bufferVars, phase, length, pointer, refused>>

MemoryNext ==
    \/ \E n \in Requests : Create(n)
    \/ AnonymousFile
    \/ AnonymousMapping
    \/ FileMapping("reserved", "half", 0)
    \/ FileMapping("half", "live", length)
    \/ Use
    \/ DropState("live", "drop1", 0, 2 * length)
    \/ DropState("drop1", "drop2", 0, length)
    \/ DropState("drop2", "dropped", length, length)
    \/ NewStack
    \/ DropStack

MemorySpec == MemoryInit /\ [][MemoryNext]_vars

-----------------------------------------------------------------------------
\* Properties

\* Every mapping belongs to one owner from its mmap to its munmap: a stack in
\* use is mapped, and so are both halves of a buffer in use, whose length is a
\* power of two, as the assertion of p2_modulo needs it.  The drop of a buffer
\* unmaps its pages twice and must not meet somebody else's the second time.
MappingsAreOwn ==
    /\ stack # 0 => \A q \in Block(stack, StackPages) : pages[q] = "stack"
    /\ phase = "live" =>
          /\ \A q \in Block(pointer, PagesOf(2 * length)) : pages[q] = "buffer"
          /\ IsPowerOfTwo(length) /\ length % PageSize = 0

\* Pages are lost only by a constructor that failed after its first mapping, or
\* by a drop of which the kernel refused two unmappings: unmapping all of it and
\* then each half makes up for one refusal, wherever it falls.
LeakOnlyAfterFailure ==
    phase \in {"none", "sized", "file"} \/ (phase = "dropped" /\ refused < 2) =>
        \A q \in Page : pages[q] \in {"free", "stack"}

=============================================================================
