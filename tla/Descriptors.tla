---------------------------- MODULE Descriptors ----------------------------
(***************************************************************************)
(* Files (src/fs.rs), sockets (src/net/tcp.rs), the timer (src/time.rs)    *)
(* and the errors they report (src/lib.rs), seen as the life of file       *)
(* descriptors: who holds which entry of the process's table, which system *)
(* calls a function makes in which order, and what a cancellation or an    *)
(* error in the middle leaves behind.                                      *)
(*                                                                         *)
(* A function is a sequence of operations.  The operations in Ring go      *)
(* through runtime::syscall, whose two parks (module Interface) appear     *)
(* here as Issue and Complete; the others block the thread.  The contents  *)
(* of files are not modelled, only the number of bytes left to write.      *)
(***************************************************************************)
EXTENDS Integers, FiniteSets, Sequences, TLC

CONSTANTS
    Fiber,
    MaxDescriptors,  \* size of the process's table
    MaxHandles,      \* bound on the handles one fiber holds
    U32,             \* number of values of a u32
    Lengths,         \* lengths of the slices passed to fs::write
    StdResults       \* whether std calls on a borrowed descriptor succeed

ASSUME DescriptorsAssumption ==
    /\ MaxDescriptors \in Nat \ {0} /\ MaxHandles \in Nat \ {0}
    /\ U32 \in Nat \ {0} /\ Lengths \subseteq Nat
    /\ StdResults \subseteq BOOLEAN

VARIABLES
    table,      \* table[d]: Free, or as what d was opened and whose it has become
    handles,    \* handles[f]: the File, Listener and stream values of f
    frame,      \* frame[f]: the function f is in
    inflight,   \* the fibers whose system call is with the kernel
    cancelled,  \* the cancelled fibers
    outcome     \* outcome[f]: what the last function of f returned

vars == <<table, handles, frame, inflight, cancelled, outcome>>

\* The fibers are interchangeable.
Symmetry == Permutations(Fiber)

Descriptor == 1 .. MaxDescriptors
Kinds == {"file", "listener", "stream"}
Free == [owner |-> "nobody", kind |-> "none"]
NoHandle == [fd |-> 0, kind |-> "none"]
Idle == [fn |-> "none"]
NoResult == [raw |-> "ok", value |-> "Ok"]

-----------------------------------------------------------------------------
\* OpenOptions

\* The six setters and their clones.
OpenOptions == [read : BOOLEAN, write : BOOLEAN, append : BOOLEAN,
                truncate : BOOLEAN, create : BOOLEAN, create_new : BOOLEAN]

\* OpenOptions::new
Blank == [read |-> FALSE, write |-> FALSE, append |-> FALSE,
          truncate |-> FALSE, create |-> FALSE, create_new |-> FALSE]

\* File::open and File::create
ReadOnly == [Blank EXCEPT !.read = TRUE]
Create == [Blank EXCEPT !.write = TRUE, !.create = TRUE, !.truncate = TRUE]

\* OpenOptions::get_access_mode
AccessMode(o) ==
    CASE o.append           -> {"O_APPEND", IF o.read THEN "O_RDWR" ELSE "O_WRONLY"}
      [] ~o.append /\ o.read  -> {IF o.write THEN "O_RDWR" ELSE "O_RDONLY"}
      [] ~o.append /\ ~o.read -> {IF o.write THEN "O_WRONLY" ELSE "EINVAL"}

\* (mutant) O_CREAT | O_EXCL together with O_TRUNC.
MutCreationMode(o) ==
    IF \/ ~o.write /\ ~o.append /\ (o.truncate \/ o.create \/ o.create_new)
       \/ o.append /\ o.truncate
    THEN {"EINVAL"}
    ELSE {x \in {"O_CREAT", "O_EXCL", "O_TRUNC"} :
             \/ x = "O_CREAT" /\ (o.create \/ o.create_new)
             \/ x = "O_EXCL" /\ o.create_new
             \/ x = "O_TRUNC" /\ o.truncate}

\* OpenOptions::get_creation_mode
CreationMode(o) ==
    IF \/ ~o.write /\ ~o.append /\ (o.truncate \/ o.create \/ o.create_new)
       \/ o.append /\ o.truncate /\ ~o.create_new
    THEN {"EINVAL"}
    ELSE {x \in {"O_CREAT", "O_EXCL", "O_TRUNC"} :
             \/ x = "O_CREAT" /\ (o.create \/ o.create_new)
             \/ x = "O_EXCL" /\ o.create_new
             \/ x = "O_TRUNC" /\ o.truncate /\ ~o.create_new}

\* The flags OpenOptions::open passes to the kernel.
Flags(o) == AccessMode(o) \cup CreationMode(o)

-----------------------------------------------------------------------------
\* Errors.  A raw error is what stopped a step: "skipped" (the fiber was
\* cancelled before the system call), an error number, or "codeless" (an
\* io::Error made by std, without a number).

\* read_syscall_result, and the check at the beginning of syscall
SyscallError(raw) == IF raw \in {"skipped", "ECANCELED"} THEN "Cancelled" ELSE "Original"

\* (mutant) a cancellation becomes an io::Error without a number.
MutIoError(e) == IF e = "Cancelled" THEN "codeless" ELSE "EIO"

\* From<Error<io::Error>> for io::Error
IoError(e) == IF e = "Cancelled" THEN "ECANCELED" ELSE "EIO"

\* Error::from_io_error, with the unwrap of raw_os_error
FromIoError(code) ==
    CASE code = "codeless"  -> "Panic"
      [] code = "ECANCELED" -> "Cancelled"
      [] OTHER              -> "Original"

\* time::sleep
SleepResult(raw) ==
    CASE raw = "ETIME"                    -> "Ok"
      [] SyscallError(raw) = "Cancelled"  -> "Cancelled"
      [] OTHER                            -> "Panic"

\* What the operation op of the function fn makes of a raw error: the io
\* traits turn the runtime's error into an io::Error, and the functions of fs
\* turn it back; the question mark after a std call wraps any error, and the
\* iterator over connections ends whatever the error.
Converted(fn, op, raw) ==
    IF raw = "ok" THEN "Ok"
    ELSE CASE fn = "next"                       -> "None"
           [] op = "resolve"                    -> IF raw = "empty" THEN "Panic" ELSE "Original"
           [] op = "timeout"                    -> SleepResult(raw)
           [] op = "io" /\ fn = "transfer"      -> IoError(SyscallError(raw))
           [] op = "io" /\ fn # "transfer"      ->
                 FromIoError(IF raw = "codeless" THEN raw ELSE IoError(SyscallError(raw)))
           [] op \in {"utf8", "copy"}           -> FromIoError(raw)
           [] op \in {"std", "bind", "address"} -> "Original"
           [] op = "connect"                    -> "Panic"
           [] OTHER                             -> SyscallError(raw)

-----------------------------------------------------------------------------
\* Functions

Ring == {"open", "io", "fsync", "accept", "close", "timeout", "unlink"}

Programs ==
    [open           |-> <<"open">>,                         \* File::open, File::create, OpenOptions::open
     sync           |-> <<"fsync">>,                        \* File::sync_all, File::sync_data
     std            |-> <<"std">>,                          \* set_len, metadata, set_permissions; local_addr, set_ttl, ttl
     transfer       |-> <<"io">>,                           \* the io traits of File, WriteHalf and ReadHalf
     drop           |-> <<"close">>,                        \* the drop of File and Listener
     metadata       |-> <<"open", "std", "close">>,
     read           |-> <<"open", "io", "close">>,
     read_to_string |-> <<"open", "io", "utf8", "close">>,
     write          |-> <<"open", "io", "close">>,
     remove_file    |-> <<"unlink">>,
     copy           |-> <<"copy">>,
     bind           |-> <<"resolve", "bind">>,
     connect        |-> <<"resolve", "connect">>,
     accept         |-> <<"accept", "address">>,
     next           |-> <<"accept", "address">>,            \* IntoIncoming, which holds a Listener
     sleep          |-> <<"timeout">>]

Op(f) == Programs[frame[f].fn][frame[f].at]
In(f, op) == frame[f] # Idle /\ Op(f) = op

DescriptorsInit ==
    /\ table = [d \in Descriptor |-> Free]
    /\ handles = [f \in Fiber |-> {}]
    /\ frame = [f \in Fiber |-> Idle]
    /\ inflight = {}
    /\ cancelled = {}
    /\ outcome = [f \in Fiber |-> NoResult]

\* A call of a function by a fiber, on one of its handles or on none.  After a
\* panic all that is left is to drop the handles.
Call(f, fn, h, options, left) ==
    /\ frame[f] = Idle
    /\ outcome[f].value = "Panic" => fn = "drop"
    /\ frame' = [frame EXCEPT ![f] = [fn |-> fn, at |-> 1, h |-> h, options |-> options,
                                      left |-> left,
                                      result |-> IF fn = "drop" THEN outcome[f] ELSE NoResult]]
    /\ outcome' = [outcome EXCEPT ![f] = IF fn = "drop" THEN @ ELSE NoResult]
    /\ UNCHANGED <<table, handles, inflight, cancelled>>

\* A bound: what the options do does not depend on the other descriptors, so
\* all of them are tried only while nothing is open.
TriedOptions == IF \A d \in Descriptor : table[d] = Free THEN OpenOptions ELSE {ReadOnly}

Calls(f) ==
    \/ /\ Cardinality(handles[f]) < MaxHandles
       /\ \/ \E o \in TriedOptions : "EINVAL" \notin Flags(o) /\ Call(f, "open", NoHandle, o, 0)
          \/ \E fn \in {"bind", "connect"} : Call(f, fn, NoHandle, Blank, 0)
          \/ \E h \in handles[f], fn \in {"accept", "next"} :
                h.kind = "listener" /\ Call(f, fn, h, Blank, 0)
    \/ \E fn \in {"metadata", "read", "read_to_string"} : Call(f, fn, NoHandle, ReadOnly, 0)
    \/ \E n \in Lengths : Call(f, "write", NoHandle, Create, n)
    \/ \E fn \in {"remove_file", "copy", "sleep"} : Call(f, fn, NoHandle, Blank, 0)
    \/ \E h \in handles[f] :
          \/ h.kind = "file" /\ \E fn \in {"sync", "std", "transfer", "drop"} : Call(f, fn, h, Blank, 0)
          \/ h.kind = "listener" /\ \E fn \in {"std", "drop"} : Call(f, fn, h, Blank, 0)
          \/ h.kind = "stream" /\ Call(f, "transfer", h, Blank, 0)

\* The operation of fr ends with raw: the function goes on, or drops the File
\* it opened (also when it unwinds) and returns.  drop ignores its result.
Finish(f, fr, raw) ==
    LET fn == fr.fn
        program == Programs[fn]
        ownsFile == fr.h # NoHandle /\ program[Len(program)] = "close"
        at == CASE raw = "ok" \/ program[fr.at] = "close" -> fr.at + 1
                [] raw # "ok" /\ program[fr.at] # "close"  -> Len(program) + (IF ownsFile THEN 0 ELSE 1)
        result == IF program[fr.at] = "close" THEN fr.result
                  ELSE [raw |-> raw, value |-> Converted(fn, program[fr.at], raw)]
    IN  IF at > Len(program)
        THEN /\ frame' = [frame EXCEPT ![f] = Idle]
             /\ outcome' = [outcome EXCEPT ![f] = result]
        ELSE /\ frame' = [frame EXCEPT ![f] = [fr EXCEPT !.at = at, !.result = result]]
             /\ UNCHANGED outcome

\* The descriptors the kernel would give out: the lowest free one.
Fresh == {d \in Descriptor : table[d] = Free /\ \A e \in 1 .. d - 1 : table[e] # Free}

\* A new descriptor for f, in a handle of its own.
NewHandle(f, d, kind) ==
    /\ table' = [table EXCEPT ![d] = [owner |-> f, kind |-> kind]]
    /\ handles' = [handles EXCEPT ![f] = @ \cup {[fd |-> d, kind |-> kind]}]

-----------------------------------------------------------------------------
\* System calls through the runtime

\* OpenOptions::open returns before the system call if the options make no sense.
RejectOptions(f) ==
    /\ frame[f] = Idle
    /\ outcome[f].value # "Panic"
    /\ \E o \in OpenOptions : "EINVAL" \in Flags(o)
    /\ outcome' = [outcome EXCEPT ![f] = [raw |-> "EINVAL", value |-> "Original"]]
    /\ UNCHANGED <<table, handles, frame, inflight, cancelled>>

\* Whether f is about to call runtime::syscall.
AtSyscall(f) ==
    /\ frame[f] # Idle
    /\ Op(f) \in Ring
    /\ f \notin inflight
    /\ ~(frame[f].fn = "write" /\ Op(f) = "io" /\ frame[f].left = 0)

\* syscall in a cancelled fiber
Refuse(f) ==
    /\ AtSyscall(f)
    /\ f \in cancelled
    /\ Finish(f, frame[f], "skipped")
    /\ handles' = [handles EXCEPT ![f] = IF Op(f) = "close" THEN @ \ {frame[f].h} ELSE @]
    /\ UNCHANGED <<table, inflight, cancelled>>

\* syscall up to its first park; the kernel has the flags
Issue(f) ==
    /\ AtSyscall(f)
    /\ f \notin cancelled
    /\ inflight' = inflight \cup {f}
    /\ frame' = [frame EXCEPT ![f].options = Blank]
    /\ UNCHANGED <<table, handles, cancelled, outcome>>

\* The completion of the system call of f with an error; ECANCELED answers
\* the AsyncCancel of a cancelled fiber and finds the operation undone.
CompleteError(f) ==
    /\ f \in inflight
    /\ inflight' = inflight \ {f}
    /\ \E raw \in {"EIO", "ECANCELED", "ETIME"} :
          /\ raw = "ECANCELED" => f \in cancelled
          /\ raw = "ETIME" <=> Op(f) = "timeout" /\ raw # "ECANCELED"
          /\ raw = "EIO" => Op(f) # "close"
          /\ Finish(f, frame[f], raw)
    /\ handles' = [handles EXCEPT ![f] = IF Op(f) = "close" THEN @ \ {frame[f].h} ELSE @]
    /\ UNCHANGED <<table, cancelled>>

\* OpenAt and Accept give the lowest free descriptor; a function of fs keeps
\* the File to itself.
CompleteOpen(f) ==
    /\ f \in inflight
    /\ Op(f) \in {"open", "accept"}
    /\ inflight' = inflight \ {f}
    /\ \E d \in Fresh :
          LET kind == IF Op(f) = "open" THEN "file" ELSE "stream" IN
          /\ NewHandle(f, d, kind)
          /\ Finish(f, [frame[f] EXCEPT !.h = [fd |-> d, kind |-> kind]], "ok")
    /\ UNCHANGED cancelled

\* (mutant) no drop, as for streams.
MutCompleteClose(f) ==
    /\ f \in inflight
    /\ Op(f) = "close"
    /\ inflight' = inflight \ {f}
    /\ handles' = [handles EXCEPT ![f] = @ \ {frame[f].h}]
    /\ Finish(f, frame[f], "ok")
    /\ UNCHANGED <<table, cancelled>>

\* Close frees the entry, whoever it belongs to by now.
CompleteClose(f) ==
    /\ f \in inflight
    /\ Op(f) = "close"
    /\ inflight' = inflight \ {f}
    /\ table' = [table EXCEPT ![frame[f].h.fd] = Free]
    /\ handles' = [handles EXCEPT ![f] = @ \ {frame[f].h}]
    /\ Finish(f, frame[f], "ok")
    /\ UNCHANGED cancelled

\* (mutant) the result is not taken.
MutCompletePlain(f) ==
    /\ f \in inflight
    /\ Op(f) \in {"fsync", "unlink"}
    /\ Finish(f, frame[f], "ok")
    /\ UNCHANGED <<table, handles, inflight, cancelled>>

\* Fsync and UnlinkAt
CompletePlain(f) ==
    /\ f \in inflight
    /\ Op(f) \in {"fsync", "unlink"}
    /\ inflight' = inflight \ {f}
    /\ Finish(f, frame[f], "ok")
    /\ UNCHANGED <<table, handles, cancelled>>

\* The length of a Read, Write, Send or Recv: a cast to u32, then the cap
\* READ_LIMIT, which on Linux is the largest u32.
TransferLength(len) == LET cast == len % U32 IN IF cast < U32 - 1 THEN cast ELSE U32 - 1

\* Read, Write, Send and Recv, called through the io traits
CompleteTransfer(f) ==
    /\ f \in inflight
    /\ In(f, "io")
    /\ frame[f].fn = "transfer"
    /\ inflight' = inflight \ {f}
    /\ Finish(f, frame[f], "ok")
    /\ UNCHANGED <<table, handles, cancelled>>

\* Read and Write in the functions of fs: the loops of read_to_end and write_all
\* call them again until there is no more, and write_all gives up when nothing
\* was written.
CompleteIo(f) ==
    /\ f \in inflight
    /\ In(f, "io")
    /\ inflight' = inflight \ {f}
    /\ \/ /\ frame[f].fn \in {"read", "read_to_string"}
          /\ Finish(f, frame[f], "ok")
       \/ /\ frame[f].fn \in {"read", "read_to_string"}
          /\ UNCHANGED <<frame, outcome>>
       \/ /\ frame[f].fn = "write"
          /\ TransferLength(frame[f].left) = 0
          /\ Finish(f, frame[f], "codeless")
       \/ /\ frame[f].fn = "write"
          /\ \E n \in 1 .. TransferLength(frame[f].left) :
                frame' = [frame EXCEPT ![f].left = @ - n]
          /\ UNCHANGED outcome
    /\ UNCHANGED <<table, handles, cancelled>>

\* write_all is done.
WrittenAll(f) ==
    /\ In(f, "io")
    /\ frame[f].fn = "write"
    /\ frame[f].left = 0
    /\ f \notin inflight
    /\ Finish(f, frame[f], "ok")
    /\ UNCHANGED <<table, handles, inflight, cancelled>>

-----------------------------------------------------------------------------
\* Blocking operations

\* (mutant) mem::forget is missing.
MutStdCall(f) ==
    /\ In(f, "std")
    /\ \E ok \in StdResults : Finish(f, frame[f], IF ok THEN "ok" ELSE "EIO")
    /\ table' = [table EXCEPT ![frame[f].h.fd] = Free]
    /\ UNCHANGED <<handles, inflight, cancelled>>

\* A std File or TcpListener borrows the descriptor of a handle and is
\* forgotten after success; after an error it is dropped and closes it.
StdCall(f) ==
    /\ In(f, "std")
    /\ \E ok \in StdResults :
          /\ Finish(f, frame[f], IF ok THEN "ok" ELSE "EIO")
          /\ table' = IF ok THEN table ELSE [table EXCEPT ![frame[f].h.fd] = Free]
    /\ UNCHANGED <<handles, inflight, cancelled>>

\* The addresses of a name: some, none (an unwrap), or an error.
Resolve(f) ==
    /\ In(f, "resolve")
    /\ \E raw \in {"ok", "empty", "codeless", "EIO"} : Finish(f, frame[f], raw)
    /\ UNCHANGED <<table, handles, inflight, cancelled>>

\* Listener::bind and connect, which block the thread
Connect(f) ==
    /\ \E op \in {"bind", "connect"} : In(f, op)
    /\ \/ /\ \E d \in Fresh : NewHandle(f, d, IF Op(f) = "bind" THEN "listener" ELSE "stream")
          /\ Finish(f, frame[f], "ok")
       \/ /\ Finish(f, frame[f], "EIO")
          /\ UNCHANGED <<table, handles>>
    /\ UNCHANGED <<inflight, cancelled>>

\* sockaddr_to_addr in Listener::accept: the two known families, or an error
\* with which the stream is dropped.
Address(f) ==
    /\ In(f, "address")
    /\ \/ /\ Finish(f, frame[f], "ok")
          /\ UNCHANGED handles
       \/ /\ Finish(f, frame[f], "codeless")
          /\ handles' = [handles EXCEPT ![f] = @ \ {frame[f].h}]
    /\ UNCHANGED <<table, inflight, cancelled>>

\* The UTF-8 check of io::read_to_string, and std::fs::copy
StdResult(f) ==
    /\ \E op \in {"utf8", "copy"} : In(f, op)
    /\ \/ Finish(f, frame[f], "ok")
       \/ Finish(f, frame[f], "codeless")
       \/ Op(f) = "copy" /\ Finish(f, frame[f], "EIO")
    /\ UNCHANGED <<table, handles, inflight, cancelled>>

\* WriteHalf and ReadHalf have no drop of their own.
DropStream(f) ==
    /\ frame[f] = Idle
    /\ \E h \in handles[f] :
          /\ h.kind = "stream"
          /\ handles' = [handles EXCEPT ![f] = @ \ {h}]
    /\ UNCHANGED <<table, frame, inflight, cancelled, outcome>>

\* A handle moves to another fiber, in its closure or over a channel.
Move(f, g) ==
    /\ frame[f] = Idle /\ outcome[f].value # "Panic"
    /\ frame[g] = Idle /\ outcome[g].value # "Panic"
    /\ f # g /\ Cardinality(handles[g]) < MaxHandles
    /\ \E h \in handles[f] :
          /\ handles' = [handles EXCEPT ![f] = @ \ {h}, ![g] = @ \cup {h}]
          /\ table' = IF table[h.fd] = [owner |-> f, kind |-> h.kind]
                      THEN [table EXCEPT ![h.fd].owner = g]
                      ELSE table
    /\ UNCHANGED <<frame, inflight, cancelled, outcome>>

\* Another fiber cancels f.
Cancel(f) ==
    /\ f \notin cancelled
    /\ cancelled' = cancelled \cup {f}
    /\ UNCHANGED <<table, handles, frame, inflight, outcome>>

DescriptorsNext ==
    \E f \in Fiber :
        \/ Calls(f) \/ RejectOptions(f) \/ Refuse(f) \/ Issue(f)
        \/ CompleteError(f) \/ CompleteOpen(f) \/ CompleteClose(f)
        \/ CompletePlain(f) \/ CompleteTransfer(f) \/ CompleteIo(f) \/ WrittenAll(f)
        \/ StdCall(f) \/ Resolve(f) \/ Connect(f) \/ Address(f) \/ StdResult(f)
        \/ DropStream(f) \/ Cancel(f)
        \/ \E g \in Fiber : Move(f, g)

DescriptorsSpec == DescriptorsInit /\ [][DescriptorsNext]_vars

-----------------------------------------------------------------------------
\* Properties

DescriptorsTypeOK ==
    /\ table \in [Descriptor -> {Free} \cup [owner : Fiber, kind : Kinds]]
    /\ handles \in [Fiber -> SUBSET [fd : Descriptor, kind : Kinds]]
    /\ \A f \in Fiber : frame[f] # Idle => frame[f].at \in 1 .. Len(Programs[frame[f].fn])
    /\ inflight \subseteq {f \in Fiber : frame[f] # Idle}
    /\ cancelled \subseteq Fiber

\* A File is a "Handle to an open file" (fs.rs:13), and so are listeners and
\* streams: as long as a handle exists its descriptor is open, is the one that
\* was opened for it, and belongs to no other handle.  If not, the fiber reads
\* and closes what another fiber has opened.
HandleOwnsDescriptor ==
    \A f \in Fiber : \A h \in handles[f] : table[h.fd] = [owner |-> f, kind |-> h.kind]

\* A descriptor of a file or a listener without a handle is lost for the rest
\* of the process: that only happens in cancelled fibers, whose drop cannot
\* close any more.  (Streams are never closed at all.)
LostOnlyByCancellation ==
    \A d \in Descriptor :
        table[d].kind \in {"file", "listener"} =>
            \/ \E h \in handles[table[d].owner] : h.fd = d
            \/ table[d].owner \in cancelled

\* What stopped a function is what its caller sees, through the conversions
\* between the runtime's error and io::Error and back: a cancellation is
\* Cancelled (or ECANCELED from the io traits) and nothing else is, success is
\* success, and only an error without a number, a name without addresses or a
\* refused connection panics.  The iterator over connections is the exception:
\* it ends alike after a cancellation and after any other error, but not before.
\* fs::write makes an error without a number itself only of 2^32 bytes or more:
\* below, the lengths that are cast and capped reach zero together with the
\* bytes left.
ErrorsSurvive ==
    \A f \in Fiber :
        LET r == outcome[f] IN
        /\ r.raw \in {"ok", "ETIME"} <=> r.value = "Ok"
        /\ r.value # "None" =>
              /\ r.raw \in {"skipped", "ECANCELED"} <=> r.value \in {"Cancelled", "ECANCELED"}
              /\ r.value = "Panic" => r.raw \in {"codeless", "empty", "EIO"}
        /\ frame[f].fn = "write" /\ frame[f].result.raw = "codeless" => frame[f].left >= U32

\* What the comments of the setters promise of the flags in every call about
\* to be made: append implies write access, create_new makes create and
\* truncate irrelevant, and nothing is created or truncated without access.
OpensAsPromised ==
    \A f \in Fiber \ inflight :
        In(f, "open") =>
            LET o == frame[f].options IN
            /\ o.append => Flags(o) = Flags([o EXCEPT !.write = ~@])
            /\ o.create_new => \A c, t \in BOOLEAN :
                                  Flags(o) = Flags([o EXCEPT !.create = c, !.truncate = t])
            /\ Flags(o) \cap {"O_CREAT", "O_TRUNC"} # {} => "O_RDONLY" \notin Flags(o)

=============================================================================
