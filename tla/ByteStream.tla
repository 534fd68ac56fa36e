----------------------------- MODULE ByteStream -----------------------------
(***************************************************************************)
(* What a circular buffer promises: a queue of bytes in a bounded memory.  *)
(* Whoever holds the free end writes into the room and appends from its    *)
(* beginning; whoever holds the other end may change the bytes that are    *)
(* queued and gives the first of them back to the end of the room.  Bytes  *)
(* come out as they were written and in that order, each of them once.     *)
(* Taking more bytes than there are breaks the queue for good.             *)
(***************************************************************************)
EXTENDS Integers, Sequences

CONSTANTS
    Byte,     \* the values of a byte
    Capacity  \* how many bytes fit

VARIABLES
    contents,  \* the bytes that were produced and not yet taken
    room,      \* the rest of the memory, as its owner sees it
    broken     \* somebody took too much

streamVars == <<contents, room, broken>>

StreamInit ==
    /\ contents = <<>>
    /\ room \in [1 .. Capacity -> Byte]
    /\ broken = FALSE

\* A byte of the room is written.
WriteRoom(k, b) ==
    /\ ~broken
    /\ k \in 1 .. Len(room)
    /\ room' = [room EXCEPT ![k] = b]
    /\ UNCHANGED <<contents, broken>>

\* A byte of the queue is overwritten.
WriteContents(k, b) ==
    /\ ~broken
    /\ k \in 1 .. Len(contents)
    /\ contents' = [contents EXCEPT ![k] = b]
    /\ UNCHANGED <<room, broken>>

\* The first n bytes of the room join the queue.
Produce(n) ==
    /\ ~broken
    /\ n <= Len(room)
    /\ contents' = contents \o SubSeq(room, 1, n)
    /\ room' = SubSeq(room, n + 1, Len(room))
    /\ UNCHANGED broken

\* The first n bytes of the queue become room.
Take(n) ==
    /\ ~broken
    /\ n <= Len(contents)
    /\ contents' = SubSeq(contents, n + 1, Len(contents))
    /\ room' = room \o SubSeq(contents, 1, n)
    /\ UNCHANGED broken

Break ==
    /\ ~broken
    /\ broken' = TRUE
    /\ contents' = <<>> /\ room' = <<>>

StreamNext ==
    \/ \E k \in 1 .. Capacity, b \in Byte : WriteRoom(k, b) \/ WriteContents(k, b)
    \/ \E n \in 0 .. Capacity : Produce(n) \/ Take(n)
    \/ Break

StreamSpec == StreamInit /\ [][StreamNext]_streamVars

=============================================================================
