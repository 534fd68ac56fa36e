------------------------- MODULE DescriptorsProofs -------------------------
(***************************************************************************)
(* Theorems about files, sockets and their descriptors, for any number of  *)
(* fibers, any size of the process's table and all lengths of writes.      *)
(***************************************************************************)
EXTENDS Descriptors, TLAPS

-----------------------------------------------------------------------------
(* The functions. *)

Fns == {"open", "sync", "std", "transfer", "drop", "metadata", "read", "read_to_string", "write",
        "remove_file", "copy", "bind", "connect", "accept", "next", "sleep"}
Later == {"std", "io", "close", "utf8", "address"}

\* Operations on the handle a function was called with or has made.
OnHandle == Later \cup {"fsync", "accept"}
Sockets == {"bind", "connect"}
Ops == OnHandle \cup Sockets \cup {"open", "unlink", "copy", "resolve", "timeout"}

\* What holds of each function: what follows an operation is an operation on a
\* handle, or makes a socket for a resolved address, and a function that closes
\* or looks at an address does it last.
WellFormed(p) ==
    /\ Len(p) \in 1 .. 4
    /\ \A k \in 1 .. Len(p) :
          /\ p[k] \in Ops
          /\ k > 1 => p[k] \in Later \cup Sockets
          /\ k > 1 => (p[k] \in Sockets <=> p[k - 1] = "resolve")
          /\ k < Len(p) => p[k] \notin {"close", "address"}
          /\ p[k] \notin OnHandle \cup {"open", "resolve"} => k = Len(p)
          /\ p[k] = "address" => k > 1 /\ p[k - 1] = "accept"

\* A function of up to four operations has a first one.
LEMMA FirstPosition == ASSUME NEW n \in 1 .. 4 PROVE 1 \in 1 .. n
  OBVIOUS

\* The functions of fs, net and time are well-formed.
LEMMA ProgramFacts ==
    /\ DOMAIN Programs = Fns
    /\ \A fn \in Fns : WellFormed(Programs[fn])
  <1>1. DOMAIN Programs = Fns
    BY DEF Programs, Fns
  <1>2. ASSUME NEW x \in Ops \ {"address"} PROVE WellFormed(<<x>>)
    BY DEF WellFormed
  <1>8. ASSUME NEW x \in Sockets PROVE WellFormed(<<"resolve", x>>)
    BY DEF WellFormed, Ops, OnHandle, Later, Sockets
  <1>3. WellFormed(<<"accept", "address">>)
    BY DEF WellFormed, Ops, OnHandle, Later, Sockets
  <1>4. WellFormed(<<"open", "std", "close">>)
    BY DEF WellFormed, Ops, OnHandle, Later, Sockets
  <1>5. WellFormed(<<"open", "io", "close">>)
    BY DEF WellFormed, Ops, OnHandle, Later, Sockets
  <1>6. WellFormed(<<"open", "io", "utf8", "close">>)
    BY DEF WellFormed, Ops, OnHandle, Later, Sockets
  <1>7. ASSUME NEW fn \in Fns
        PROVE  \/ \E x \in Ops \ {"address"} : Programs[fn] = <<x>>
               \/ \E x \in Sockets : Programs[fn] = <<"resolve", x>>
               \/ Programs[fn] = <<"accept", "address">>
               \/ Programs[fn] = <<"open", "std", "close">>
               \/ Programs[fn] = <<"open", "io", "close">>
               \/ Programs[fn] = <<"open", "io", "utf8", "close">>
    BY DEF Programs, Fns, Ops, OnHandle, Later, Sockets
  <1> QED
    BY <1>1, <1>2, <1>3, <1>4, <1>5, <1>6, <1>7, <1>8

-----------------------------------------------------------------------------
(* Types, and where the handles of running functions are. *)

Handle == [fd : Descriptor, kind : Kinds]
Raws == {"ok", "skipped", "EIO", "ECANCELED", "ETIME", "EINVAL", "codeless", "empty"}
Values == {"Ok", "Cancelled", "ECANCELED", "EIO", "Original", "Panic", "None"}
Result == [raw : Raws, value : Values]
Frame == [fn : Fns, at : Nat, h : Handle \cup {NoHandle}, options : OpenOptions, left : Nat,
          result : Result]

OpOf(fr) == Programs[fr.fn][fr.at]

\* A function in the middle: an operation on a handle has one that the fiber
\* holds; before it opened anything it has none.
FrameOK(fr, hs) ==
    /\ fr \in Frame
    /\ fr.at \in 1 .. Len(Programs[fr.fn])
    /\ OpOf(fr) \in OnHandle => fr.h \in hs
    /\ OpOf(fr) = "open" => fr.h = NoHandle
    /\ OpOf(fr) = "address" => fr.h.kind = "stream"

TableTypes ==
    /\ table \in [Descriptor -> {Free} \cup [owner : Fiber, kind : Kinds]]
    /\ handles \in [Fiber -> SUBSET Handle]
    /\ cancelled \subseteq Fiber

FrameInv ==
    /\ frame \in [Fiber -> {Idle} \cup Frame]
    /\ outcome \in [Fiber -> Result]
    /\ \A f \in Fiber : frame[f] = Idle \/ FrameOK(frame[f], handles[f])
    /\ \A f \in inflight : f \in Fiber /\ frame[f] # Idle /\ OpOf(frame[f]) \in Ring

\* A frame is not the idle one.
LEMMA FrameNotIdle == \A fr \in Frame : fr # Idle /\ fr.fn \in Fns /\ fr.fn # "none"
  BY DEF Frame, Idle, Fns

\* The conversions yield one of the values.
LEMMA ConvertedType == \A fn, op : \A raw \in Raws : Converted(fn, op, raw) \in Values
  BY DEF Converted, SleepResult, IoError, FromIoError, SyscallError, Raws, Values

\* The result an operation of fr that ends with raw leaves.
ResultOf(fr, raw) ==
    IF OpOf(fr) = "close" THEN fr.result
    ELSE [raw |-> raw, value |-> Converted(fr.fn, OpOf(fr), raw)]

\* f returns from fr.
Returns(f, fr, raw) ==
    /\ frame' = [frame EXCEPT ![f] = Idle]
    /\ outcome' = [outcome EXCEPT ![f] = ResultOf(fr, raw)]

\* f goes on in fr.
GoesOn(f, fr, raw) ==
    /\ OpOf(fr) \in OnHandle \cup {"open", "resolve"}
    /\ OpOf(fr) \notin {"close", "address"}
    /\ raw # "ok" => fr.h # NoHandle
    /\ \E at \in 2 .. Len(Programs[fr.fn]) :
          /\ Programs[fr.fn][at] \in IF OpOf(fr) = "resolve" THEN Sockets ELSE Later
          /\ Programs[fr.fn][at] = "address" => OpOf(fr) = "accept" /\ raw = "ok"
          /\ raw # "ok" => Programs[fr.fn][at] = "close"
          /\ frame' = [frame EXCEPT ![f] = [fr EXCEPT !.at = at, !.result = ResultOf(fr, raw)]]
    /\ outcome' = outcome

\* The end of an operation: the function is over, or goes on with an operation on
\* a handle; after an error it goes on only to close the File it has.
LEMMA FinishFacts ==
    ASSUME NEW f \in Fiber, NEW fr \in Frame, fr.at \in 1 .. Len(Programs[fr.fn]), NEW raw,
           Finish(f, fr, raw)
    PROVE  Returns(f, fr, raw) \/ GoesOn(f, fr, raw)
  <1> DEFINE p == Programs[fr.fn]
             r == ResultOf(fr, raw)
             owns == fr.h # NoHandle /\ p[Len(p)] = "close"
             at == CASE raw = "ok" \/ p[fr.at] = "close" -> fr.at + 1
                     [] raw # "ok" /\ p[fr.at] # "close"  -> Len(p) + (IF owns THEN 0 ELSE 1)
  <1>1. WellFormed(p)
    BY ProgramFacts DEF Frame
  <1>2. /\ at > Len(p) => /\ frame' = [frame EXCEPT ![f] = Idle]
                          /\ outcome' = [outcome EXCEPT ![f] = r]
        /\ ~(at > Len(p)) => /\ frame' = [frame EXCEPT ![f] = [fr EXCEPT !.at = at, !.result = r]]
                             /\ outcome' = outcome
    BY DEF Finish, ResultOf, OpOf
  <1>3. /\ at \in Nat /\ (raw = "ok" \/ OpOf(fr) = "close" => at = fr.at + 1)
        /\ raw # "ok" /\ OpOf(fr) # "close" => at = Len(p) + (IF owns THEN 0 ELSE 1)
    <2>1. ASSUME raw = "ok" \/ p[fr.at] = "close" PROVE at = fr.at + 1
      BY <2>1
    <2>2. ASSUME raw # "ok", p[fr.at] # "close" PROVE at = Len(p) + (IF owns THEN 0 ELSE 1)
      BY <2>2
    <2>3. fr.at \in Nat /\ Len(p) \in Nat
      BY <1>1 DEF WellFormed
    <2>4. OpOf(fr) = p[fr.at]
      BY DEF OpOf
    <2> HIDE DEF at, p, owns
    <2>5. CASE raw = "ok" \/ OpOf(fr) = "close"
      BY <2>1, <2>3, <2>4, <2>5
    <2>6. CASE raw # "ok" /\ OpOf(fr) # "close"
      BY <2>2, <2>3, <2>4, <2>6
    <2> QED
      BY <2>5, <2>6
  <1>4. OpOf(fr) = p[fr.at] /\ fr.at \in 1 .. Len(p)
    BY DEF OpOf
  <1> HIDE DEF at, p, r
  <1>5. ASSUME ~(at > Len(p))
        PROVE  /\ at \in 2 .. Len(p)
               /\ p[at] \in IF OpOf(fr) = "resolve" THEN Sockets ELSE Later
               /\ p[at] = "address" => OpOf(fr) = "accept" /\ raw = "ok"
               /\ raw # "ok" => p[at] = "close"
               /\ OpOf(fr) \in OnHandle \cup {"open", "resolve"} /\ OpOf(fr) \notin {"close", "address"}
               /\ raw # "ok" => fr.h # NoHandle
    <2>1. CASE raw = "ok" \/ OpOf(fr) = "close"
      BY <1>1, <1>3, <1>4, <1>5, <2>1 DEF WellFormed, Later, Sockets
    <2>2. CASE raw # "ok" /\ OpOf(fr) # "close"
      <3>1. at = Len(p) /\ owns
        BY <1>1, <1>3, <1>5, <2>2 DEF WellFormed
      <3>2. fr.at < Len(p)
        BY <1>1, <1>4, <2>2, <3>1 DEF WellFormed
      <3>3. OpOf(fr) # "resolve"
        <4> SUFFICES ASSUME OpOf(fr) = "resolve" PROVE FALSE
          OBVIOUS
        <4>1. p[fr.at + 1] \in Sockets /\ fr.at + 1 \in 1 .. Len(p)
          BY <1>1, <1>4, <3>2 DEF WellFormed
        <4>2. fr.at + 1 = Len(p)
          BY <1>1, <4>1 DEF WellFormed, Sockets, OnHandle, Later
        <4> QED
          BY <3>1, <4>1, <4>2 DEF owns, Sockets
      <3> QED
        BY <1>1, <1>4, <2>2, <3>1, <3>2, <3>3 DEF WellFormed, Later, Sockets
    <2> QED
      BY <2>1, <2>2
  <1> QED
    BY <1>2, <1>5 DEF p, r, Returns, GoesOn

\* The function of f after an operation, if the handle it had or made is still
\* there.
LEMMA FinishKeeps ==
    ASSUME TableTypes', FrameInv, NEW f \in Fiber, NEW fr \in Frame,
           fr.at \in 1 .. Len(Programs[fr.fn]), NEW raw \in Raws, Finish(f, fr, raw),
           OpOf(fr) \in OnHandle \ {"close", "address"} => fr.h \in handles'[f],
           OpOf(fr) = "open" => IF raw = "ok" THEN fr.h \in handles'[f] ELSE fr.h = NoHandle,
           OpOf(fr) = "accept" /\ raw = "ok" => fr.h.kind = "stream",
           inflight' \subseteq inflight \ {f},
           \A g \in Fiber \ {f} : handles'[g] = handles[g]
    PROVE  FrameInv'
  <1>1. /\ frame \in [Fiber -> {Idle} \cup Frame] /\ outcome \in [Fiber -> Result]
        /\ \A g \in Fiber : frame[g] = Idle \/ FrameOK(frame[g], handles[g])
        /\ \A g \in inflight : g \in Fiber /\ frame[g] # Idle /\ OpOf(frame[g]) \in Ring
    BY DEF FrameInv
  <1> DEFINE r == ResultOf(fr, raw)
  <1>2. Returns(f, fr, raw) \/ GoesOn(f, fr, raw)
    BY FinishFacts
  <1>3. r \in Result
    BY ConvertedType DEF Frame, Result, ResultOf
  <1> HIDE DEF r
  <1>4. ASSUME NEW x \in {Idle} \cup Frame, x = Idle \/ FrameOK(x, handles'[f]),
               frame' = [frame EXCEPT ![f] = x], outcome' \in [Fiber -> Result]
        PROVE  FrameInv'
    <2>1. frame' \in [Fiber -> {Idle} \cup Frame] /\ frame'[f] = x
          /\ \A g \in Fiber \ {f} : frame'[g] = frame[g]
      BY <1>1, <1>4
    <2>2. \A g \in Fiber : frame'[g] = Idle \/ FrameOK(frame'[g], handles'[g])
      BY <1>1, <1>4, <2>1
    <2>3. \A g \in inflight' : g \in Fiber /\ frame'[g] # Idle /\ OpOf(frame'[g]) \in Ring
      BY <1>1, <2>1
    <2> QED
      BY <1>4, <2>1, <2>2, <2>3 DEF FrameInv, OpOf
  <1>5. CASE Returns(f, fr, raw)
    BY <1>1, <1>3, <1>4, <1>5 DEF Returns, r
  <1>6. ASSUME OpOf(fr) \in OnHandle \cup {"open", "resolve"}, OpOf(fr) \notin {"close", "address"},
               raw # "ok" => fr.h # NoHandle, outcome' = outcome,
               NEW at \in 2 .. Len(Programs[fr.fn]),
               Programs[fr.fn][at] \in IF OpOf(fr) = "resolve" THEN Sockets ELSE Later,
               Programs[fr.fn][at] = "address" => OpOf(fr) = "accept" /\ raw = "ok",
               frame' = [frame EXCEPT ![f] = [fr EXCEPT !.at = at, !.result = r]]
        PROVE  FrameInv'
    <2> DEFINE x == [fr EXCEPT !.at = at, !.result = r]
    <2>1. /\ x \in Frame /\ x.at = at /\ x.fn = fr.fn /\ x.h = fr.h
      <3>1. at \in Nat
        BY ProgramFacts DEF WellFormed, Frame
      <3> QED
        BY <1>3, <3>1 DEF Frame
    <2>2. OpOf(fr) # "resolve" => fr.h \in handles'[f]
      BY <1>6
    <2>3. FrameOK(x, handles'[f])
      <3>1. Len(Programs[fr.fn]) \in Nat
        BY ProgramFacts DEF WellFormed, Frame
      <3> QED
        BY <1>6, <2>1, <2>2, <3>1 DEF FrameOK, OpOf, Later, Sockets, OnHandle
    <2> HIDE DEF x
    <2> QED
      BY <1>1, <1>4, <1>6, <2>1, <2>3 DEF x
  <1> QED
    BY <1>2, <1>5, <1>6 DEF GoesOn, r

-----------------------------------------------------------------------------
(* What the steps of f do to the table and the handles. *)

TableStep(f) ==
    \/ UNCHANGED <<table, handles>>
    \/ \E d \in Fresh, kind \in Kinds : NewHandle(f, d, kind)
    \/ \E h \in handles[f] :
          /\ handles' = [handles EXCEPT ![f] = @ \ {h}]
          /\ \/ table' = [table EXCEPT ![h.fd] = Free]
             \/ table' = table /\ (h.kind = "stream" \/ f \in cancelled)
    \/ /\ FALSE \in StdResults
       /\ \E h \in handles[f] : table' = [table EXCEPT ![h.fd] = Free]
       /\ UNCHANGED handles

\* Such a step keeps the types, and the handles of the other fibers.
LEMMA TableStepTypes ==
    ASSUME TableTypes, NEW f \in Fiber, TableStep(f), cancelled' \subseteq Fiber
    PROVE  TableTypes' /\ \A g \in Fiber \ {f} : handles'[g] = handles[g]
  <1>1. /\ table \in [Descriptor -> {Free} \cup [owner : Fiber, kind : Kinds]]
        /\ handles \in [Fiber -> SUBSET Handle]
    BY DEF TableTypes
  <1>2. \A h \in Handle : h.fd \in Descriptor
    BY DEF Handle
  <1>3. CASE UNCHANGED <<table, handles>>
    BY <1>3 DEF TableTypes
  <1>4. ASSUME NEW d \in Fresh, NEW kind \in Kinds, NewHandle(f, d, kind)
        PROVE  TableTypes' /\ \A g \in Fiber \ {f} : handles'[g] = handles[g]
    <2>1. /\ [fd |-> d, kind |-> kind] \in Handle
          /\ [owner |-> f, kind |-> kind] \in [owner : Fiber, kind : Kinds]
      BY DEF Fresh, Handle
    <2> QED
      BY <1>1, <1>4, <2>1 DEF NewHandle, TableTypes, Fresh
  <1>5. ASSUME NEW h \in handles[f],
               table' = table \/ table' = [table EXCEPT ![h.fd] = Free],
               handles' = handles \/ handles' = [handles EXCEPT ![f] = @ \ {h}]
        PROVE  TableTypes' /\ \A g \in Fiber \ {f} : handles'[g] = handles[g]
    <2>1. handles' \in [Fiber -> SUBSET Handle] /\ \A g \in Fiber \ {f} : handles'[g] = handles[g]
      BY <1>1, <1>5
    <2>2. table' \in [Descriptor -> {Free} \cup [owner : Fiber, kind : Kinds]]
      BY <1>1, <1>2, <1>5
    <2> QED
      BY <2>1, <2>2 DEF TableTypes
  <1> QED
    BY <1>3, <1>4, <1>5 DEF TableStep

\* An operation of f in the middle of a function.
LEMMA OpFacts ==
    ASSUME TableTypes, FrameInv, NEW f \in Fiber, frame[f] # Idle
    PROVE  /\ frame[f] \in Frame /\ frame[f].at \in 1 .. Len(Programs[frame[f].fn])
           /\ Op(f) = OpOf(frame[f]) /\ Op(f) \in Ops
           /\ Op(f) \in OnHandle => frame[f].h \in handles[f]
           /\ Op(f) = "open" => frame[f].h = NoHandle
           /\ Op(f) = "address" => frame[f].h.kind = "stream"
  <1>1. FrameOK(frame[f], handles[f])
    BY DEF FrameInv
  <1>2. Op(f) \in Ops
    BY <1>1, ProgramFacts DEF FrameOK, Frame, WellFormed, Op
  <1> QED
    BY <1>1, <1>2 DEF FrameOK, OpOf, Op

\* The operation of f ends and its handles stay.
LEMMA PlainEnd ==
    ASSUME TableTypes, TableTypes', FrameInv, NEW f \in Fiber, frame[f] # Idle, NEW raw \in Raws,
           Finish(f, frame[f], raw), Op(f) \notin {"open", "accept"} \/ raw # "ok",
           inflight' = inflight \ {f} \/ (inflight' = inflight /\ f \notin inflight),
           \A g \in Fiber \ {f} : handles'[g] = handles[g],
           Op(f) \in {"close", "address"} \/ handles[f] \subseteq handles'[f]
    PROVE  FrameInv'
  <1>1. /\ frame[f] \in Frame /\ frame[f].at \in 1 .. Len(Programs[frame[f].fn])
        /\ Op(f) = OpOf(frame[f])
        /\ Op(f) \in OnHandle => frame[f].h \in handles[f]
        /\ Op(f) = "open" => frame[f].h = NoHandle
    BY OpFacts
  <1>2. inflight' \subseteq inflight \ {f}
    OBVIOUS
  <1> DEFINE fr == frame[f]
  <1>3. /\ fr \in Frame /\ fr.at \in 1 .. Len(Programs[fr.fn]) /\ Finish(f, fr, raw)
        /\ OpOf(fr) \in OnHandle \ {"close", "address"} => fr.h \in handles'[f]
        /\ OpOf(fr) = "open" => IF raw = "ok" THEN fr.h \in handles'[f] ELSE fr.h = NoHandle
        /\ OpOf(fr) = "accept" /\ raw = "ok" => fr.h.kind = "stream"
    BY <1>1
  <1> HIDE DEF fr
  <1> QED
    BY <1>2, <1>3, FinishKeeps

\* The types and the frames after a step of f.
Kept(f) == TableStep(f) /\ cancelled \subseteq cancelled' /\ TableTypes' /\ FrameInv'

\* syscall in a cancelled fiber, and completions with an error.
LEMMA ErrorsKeep ==
    ASSUME TableTypes, FrameInv, NEW f \in Fiber, Refuse(f) \/ CompleteError(f)
    PROVE  Kept(f)
  <1>1. /\ frame[f] # Idle /\ UNCHANGED <<table, cancelled>>
        /\ handles' = [handles EXCEPT ![f] = IF Op(f) = "close" THEN @ \ {frame[f].h} ELSE @]
        /\ inflight' = inflight \ {f} \/ (inflight' = inflight /\ f \notin inflight)
    BY DEF Refuse, CompleteError, AtSyscall, FrameInv
  <1>2. PICK raw \in Raws \ {"ok"} : Finish(f, frame[f], raw) /\ (Op(f) = "close" => f \in cancelled)
    <2>1. CASE Refuse(f)
      BY <2>1 DEF Refuse, Raws
    <2>2. CASE CompleteError(f)
      BY <2>2 DEF CompleteError, Raws
    <2> QED
      BY <2>1, <2>2
  <1>3. Op(f) = "close" => frame[f].h \in handles[f]
    BY <1>1, OpFacts DEF OnHandle, Later
  <1>4. handles \in [Fiber -> SUBSET Handle] /\ cancelled \subseteq Fiber
    BY DEF TableTypes
  <1>5. TableStep(f)
    <2>1. CASE Op(f) = "close"
      BY <1>1, <1>2, <1>3, <2>1 DEF TableStep
    <2>2. CASE Op(f) # "close"
      BY <1>1, <1>4, <2>2 DEF TableStep
    <2> QED
      BY <2>1, <2>2
  <1>6. TableTypes' /\ \A g \in Fiber \ {f} : handles'[g] = handles[g]
    BY <1>1, <1>4, <1>5, TableStepTypes
  <1>7. Op(f) = "close" \/ handles[f] \subseteq handles'[f]
    BY <1>1, <1>4
  <1>8. FrameInv'
    BY <1>1, <1>2, <1>6, <1>7, PlainEnd
  <1> QED
    BY <1>1, <1>5, <1>6, <1>8 DEF Kept

\* An operation of f that leaves the table and the handles alone.
LEMMA QuietEnd ==
    ASSUME TableTypes, FrameInv, NEW f \in Fiber, frame[f] # Idle, NEW raw \in Raws,
           Finish(f, frame[f], raw), Op(f) \notin {"open", "accept"} \/ raw # "ok",
           inflight' = inflight \ {f} \/ (inflight' = inflight /\ f \notin inflight),
           UNCHANGED <<table, handles, cancelled>>
    PROVE  Kept(f)
  <1>1. TableTypes' /\ TableStep(f)
    BY DEF TableTypes, TableStep
  <1>2. FrameInv'
    BY <1>1, PlainEnd
  <1> QED
    BY <1>1, <1>2 DEF Kept

\* Only operations of the runtime are with the kernel.
LEMMA NotWithKernel ==
    ASSUME FrameInv, NEW f \in Fiber, frame[f] # Idle, Op(f) \notin Ring
    PROVE  f \notin inflight
  BY DEF FrameInv, Op, OpOf

\* Plain operations: Fsync, UnlinkAt, the io traits, the end of write_all, the
\* UTF-8 check, std::fs::copy and the resolution of names.
LEMMA PlainKeeps ==
    ASSUME TableTypes, FrameInv, NEW f \in Fiber,
           CompletePlain(f) \/ CompleteTransfer(f) \/ WrittenAll(f) \/ StdResult(f) \/ Resolve(f)
    PROVE  Kept(f)
  <1>1. UNCHANGED <<table, handles, cancelled>> /\ frame[f] # Idle
    BY DEF CompletePlain, CompleteTransfer, WrittenAll, StdResult, Resolve, FrameInv, In
  <1>2. Op(f) \notin {"open", "accept"}
    BY DEF CompletePlain, CompleteTransfer, WrittenAll, StdResult, Resolve, In
  <1>3. inflight' = inflight \ {f} \/ (inflight' = inflight /\ f \notin inflight)
    <2>1. CASE StdResult(f) \/ Resolve(f)
      BY <1>1, <2>1, NotWithKernel DEF StdResult, Resolve, In, Ring
    <2> QED
      BY <2>1 DEF CompletePlain, CompleteTransfer, WrittenAll
  <1>4. PICK raw \in Raws : Finish(f, frame[f], raw)
    BY DEF CompletePlain, CompleteTransfer, WrittenAll, StdResult, Resolve, Raws
  <1> QED
    BY <1>1, <1>2, <1>3, <1>4, QuietEnd

\* A step that changes only the frame of f, and not where it is.
LEMMA FrameEdit ==
    ASSUME TableTypes, FrameInv, NEW f \in Fiber, NEW fr \in Frame,
           frame' = [frame EXCEPT ![f] = fr], outcome' \in [Fiber -> Result],
           FrameOK(fr, handles[f]),
           \A g \in inflight' : g \in inflight \/ (g = f /\ OpOf(fr) \in Ring),
           f \in inflight' => OpOf(fr) \in Ring,
           UNCHANGED <<table, handles, cancelled>>
    PROVE  Kept(f)
  <1>1. TableTypes' /\ TableStep(f)
    BY DEF TableTypes, TableStep
  <1>2. /\ frame \in [Fiber -> {Idle} \cup Frame]
        /\ \A g \in Fiber : frame[g] = Idle \/ FrameOK(frame[g], handles[g])
        /\ \A g \in inflight : g \in Fiber /\ frame[g] # Idle /\ OpOf(frame[g]) \in Ring
    BY DEF FrameInv
  <1>3. /\ frame' \in [Fiber -> {Idle} \cup Frame] /\ frame'[f] = fr
        /\ \A g \in Fiber \ {f} : frame'[g] = frame[g]
    BY <1>2
  <1>4. \A g \in Fiber : frame'[g] = Idle \/ FrameOK(frame'[g], handles'[g])
    BY <1>2, <1>3
  <1>5. \A g \in inflight' : g \in Fiber /\ frame'[g] # Idle /\ OpOf(frame'[g]) \in Ring
    BY <1>2, <1>3, FrameNotIdle
  <1>6. FrameInv'
    BY <1>3, <1>4, <1>5 DEF FrameInv, OpOf
  <1> QED
    BY <1>1, <1>6 DEF Kept

\* The first part of a system call.
LEMMA IssueKeeps ==
    ASSUME TableTypes, FrameInv, NEW f \in Fiber, Issue(f)
    PROVE  Kept(f)
  <1> DEFINE fr == [frame[f] EXCEPT !.options = Blank]
  <1>1. /\ frame[f] # Idle /\ inflight' = inflight \cup {f} /\ Op(f) \in Ring
        /\ UNCHANGED <<table, handles, cancelled, outcome>>
    BY DEF Issue, AtSyscall
  <1>2. FrameOK(frame[f], handles[f]) /\ frame[f] \in Frame /\ outcome' \in [Fiber -> Result]
    BY <1>1 DEF FrameInv, FrameOK
  <1>3. frame' = [frame EXCEPT ![f] = fr]
    BY <1>1, <1>2 DEF Issue, FrameInv
  <1>4. /\ fr \in Frame /\ fr.fn = frame[f].fn /\ fr.at = frame[f].at /\ fr.h = frame[f].h
    BY <1>2 DEF Frame, Blank, OpenOptions
  <1> HIDE DEF fr
  <1>5. FrameOK(fr, handles[f]) /\ OpOf(fr) = Op(f)
    BY <1>2, <1>4 DEF FrameOK, OpOf, Op
  <1> QED
    BY <1>1, <1>2, <1>3, <1>4, <1>5, FrameEdit

\* The length given to the kernel is at most what is left, and all of it if it
\* fits in a u32.
LEMMA TransferBound ==
    \A n \in Nat : TransferLength(n) \in 0 .. n /\ (n < U32 => TransferLength(n) = n)
  BY DescriptorsAssumption DEF TransferLength

\* Reads and writes in the functions of fs.
LEMMA IoKeeps ==
    ASSUME TableTypes, FrameInv, NEW f \in Fiber, CompleteIo(f)
    PROVE  Kept(f)
  <1>1. /\ frame[f] # Idle /\ inflight' = inflight \ {f} /\ Op(f) = "io"
        /\ UNCHANGED <<table, handles, cancelled>>
    BY DEF CompleteIo, In
  <1>2. FrameOK(frame[f], handles[f]) /\ frame[f] \in Frame /\ outcome \in [Fiber -> Result]
    BY <1>1 DEF FrameInv, FrameOK
  <1>3. ASSUME NEW raw \in Raws, Finish(f, frame[f], raw) PROVE Kept(f)
    BY <1>1, <1>3, QuietEnd
  <1>4. CASE UNCHANGED <<frame, outcome>>
    <2>1. frame' = [frame EXCEPT ![f] = frame[f]]
      BY <1>4 DEF FrameInv
    <2>2. outcome' \in [Fiber -> Result] /\ f \notin inflight'
      BY <1>1, <1>2, <1>4
    <2>3. /\ \A g \in inflight' : g \in inflight \/ (g = f /\ OpOf(frame[f]) \in Ring)
          /\ f \in inflight' => OpOf(frame[f]) \in Ring
      BY <1>1
    <2> QED
      BY <1>1, <1>2, <2>1, <2>2, <2>3, FrameEdit
  <1>5. ASSUME NEW n \in 1 .. TransferLength(frame[f].left),
               frame' = [frame EXCEPT ![f].left = @ - n], UNCHANGED outcome
        PROVE  Kept(f)
    <2> DEFINE fr == [frame[f] EXCEPT !.left = @ - n]
    <2>1. frame' = [frame EXCEPT ![f] = fr]
      BY <1>5 DEF FrameInv
    <2>2. frame[f].left \in Nat /\ frame[f].left - n \in Nat
      BY <1>2, TransferBound DEF Frame
    <2>3. /\ fr \in Frame /\ fr.fn = frame[f].fn /\ fr.at = frame[f].at /\ fr.h = frame[f].h
      BY <1>2, <2>2 DEF Frame
    <2> HIDE DEF fr
    <2>4. FrameOK(fr, handles[f])
      BY <1>2, <2>3 DEF FrameOK, OpOf
    <2>5. /\ outcome' \in [Fiber -> Result]
          /\ \A g \in inflight' : g \in inflight \/ (g = f /\ OpOf(fr) \in Ring)
          /\ f \in inflight' => OpOf(fr) \in Ring
      BY <1>1, <1>2, <1>5
    <2> QED
      BY <1>1, <2>1, <2>3, <2>4, <2>5, FrameEdit
  <1> QED
    BY <1>3, <1>4, <1>5 DEF CompleteIo, Raws

\* A new descriptor through the runtime.
LEMMA OpenKeeps ==
    ASSUME TableTypes, FrameInv, NEW f \in Fiber, CompleteOpen(f)
    PROVE  Kept(f)
  <1>1. /\ frame[f] # Idle /\ inflight' = inflight \ {f} /\ cancelled' = cancelled
        /\ Op(f) \in {"open", "accept"}
    BY DEF CompleteOpen, FrameInv
  <1> DEFINE kind == IF Op(f) = "open" THEN "file" ELSE "stream"
  <1>2. PICK d \in Fresh : /\ NewHandle(f, d, kind)
                           /\ Finish(f, [frame[f] EXCEPT !.h = [fd |-> d, kind |-> kind]], "ok")
    BY DEF CompleteOpen
  <1> DEFINE h == [fd |-> d, kind |-> kind]
             fr == [frame[f] EXCEPT !.h = h]
  <1>3. kind \in Kinds /\ (Op(f) = "accept" => kind = "stream")
    BY DEF Kinds
  <1>4. h \in Handle /\ h.kind = kind
    BY <1>3 DEF Handle, Fresh
  <1>5. TableStep(f) /\ handles'[f] = handles[f] \cup {h}
    BY <1>2, <1>3 DEF TableStep, NewHandle, TableTypes
  <1>6. TableTypes' /\ \A g \in Fiber \ {f} : handles'[g] = handles[g]
    <2>1. cancelled' \subseteq Fiber
      BY <1>1 DEF TableTypes
    <2> QED
      BY <1>5, <2>1, TableStepTypes
  <1>7. frame[f] \in Frame /\ frame[f].at \in 1 .. Len(Programs[frame[f].fn])
    BY <1>1, OpFacts
  <1>8. fr \in Frame /\ fr.fn = frame[f].fn /\ fr.at = frame[f].at /\ fr.h = h
    BY <1>4, <1>7 DEF Frame
  <1>9. OpOf(fr) = Op(f) /\ Finish(f, fr, "ok")
    BY <1>2, <1>8 DEF OpOf, Op
  <1> HIDE DEF fr, h, kind
  <1>10. FrameInv'
    <2>1. /\ fr.at \in 1 .. Len(Programs[fr.fn]) /\ "ok" \in Raws
          /\ OpOf(fr) \in OnHandle \ {"close", "address"} => fr.h \in handles'[f]
          /\ OpOf(fr) = "open" => IF "ok" = "ok" THEN fr.h \in handles'[f] ELSE fr.h = NoHandle
          /\ OpOf(fr) = "accept" /\ "ok" = "ok" => fr.h.kind = "stream"
          /\ inflight' \subseteq inflight \ {f}
      BY <1>1, <1>3, <1>4, <1>5, <1>7, <1>8, <1>9 DEF Raws
    <2> QED
      BY <1>6, <1>8, <1>9, <2>1, FinishKeeps
  <1> QED
    BY <1>1, <1>5, <1>6, <1>10 DEF Kept

\* Close, and an address of an unknown family: the handle goes.
LEMMA CloseKeeps ==
    ASSUME TableTypes, FrameInv, NEW f \in Fiber, CompleteClose(f) \/ Address(f)
    PROVE  Kept(f)
  <1>1. /\ frame[f] # Idle /\ cancelled' = cancelled /\ Op(f) \in {"close", "address"}
    BY DEF CompleteClose, Address, In, FrameInv
  <1>2. inflight' = inflight \ {f} \/ (inflight' = inflight /\ f \notin inflight)
    <2>1. CASE Address(f)
      BY <1>1, <2>1, NotWithKernel DEF Address, In, Ring
    <2> QED
      BY <2>1 DEF CompleteClose
  <1>3. PICK raw \in Raws : Finish(f, frame[f], raw)
    BY DEF CompleteClose, Address, Raws
  <1>4. frame[f].h \in handles[f] /\ (Op(f) = "address" => frame[f].h.kind = "stream")
    BY <1>1, OpFacts DEF OnHandle, Later
  <1>5. TableStep(f)
    <2>1. CASE CompleteClose(f)
      BY <1>4, <2>1 DEF CompleteClose, TableStep
    <2>2. CASE Address(f)
      BY <1>4, <2>2 DEF Address, In, TableStep
    <2> QED
      BY <2>1, <2>2
  <1>6. TableTypes' /\ \A g \in Fiber \ {f} : handles'[g] = handles[g]
    <2>1. cancelled' \subseteq Fiber
      BY <1>1 DEF TableTypes
    <2> QED
      BY <1>5, <2>1, TableStepTypes
  <1>7. FrameInv'
    BY <1>1, <1>2, <1>3, <1>6, PlainEnd
  <1> QED
    BY <1>1, <1>5, <1>6, <1>7 DEF Kept

\* The std calls on a borrowed descriptor.
LEMMA StdKeeps ==
    ASSUME TableTypes, FrameInv, NEW f \in Fiber, StdCall(f)
    PROVE  Kept(f)
  <1>1. /\ frame[f] # Idle /\ UNCHANGED <<handles, inflight, cancelled>> /\ Op(f) = "std"
    BY DEF StdCall, In
  <1>2. f \notin inflight
    BY <1>1, NotWithKernel DEF Ring
  <1>3. PICK ok \in StdResults : /\ Finish(f, frame[f], IF ok THEN "ok" ELSE "EIO")
                                 /\ table' = IF ok THEN table ELSE [table EXCEPT ![frame[f].h.fd] = Free]
    BY DEF StdCall
  <1>4. frame[f].h \in handles[f]
    BY <1>1, OpFacts DEF OnHandle, Later
  <1>5. TableStep(f)
    <2>1. ok = TRUE \/ ok = FALSE
      BY DescriptorsAssumption
    <2>2. CASE ok = TRUE
      BY <1>1, <1>3, <2>2 DEF TableStep
    <2>3. CASE ok = FALSE
      BY <1>1, <1>3, <1>4, <2>3 DEF TableStep
    <2> QED
      BY <2>1, <2>2, <2>3
  <1>6. TableTypes'
    <2>1. cancelled' \subseteq Fiber
      BY <1>1 DEF TableTypes
    <2> QED
      BY <1>5, <2>1, TableStepTypes
  <1>7. FrameInv'
    <2>1. (IF ok THEN "ok" ELSE "EIO") \in Raws
      BY DEF Raws
    <2> QED
      BY <1>1, <1>2, <1>3, <1>6, <2>1, PlainEnd
  <1> QED
    BY <1>1, <1>5, <1>6, <1>7 DEF Kept

\* bind and connect.
LEMMA ConnectKeeps ==
    ASSUME TableTypes, FrameInv, NEW f \in Fiber, Connect(f)
    PROVE  Kept(f)
  <1>1. /\ frame[f] # Idle /\ UNCHANGED <<inflight, cancelled>> /\ Op(f) \in {"bind", "connect"}
    BY DEF Connect, In
  <1>2. f \notin inflight
    BY <1>1, NotWithKernel DEF Ring
  <1>3. PICK raw \in Raws : Finish(f, frame[f], raw)
    BY DEF Connect, Raws
  <1>4. TableStep(f)
    BY <1>1 DEF Connect, TableStep, Kinds
  <1>5. TableTypes' /\ \A g \in Fiber \ {f} : handles'[g] = handles[g]
    <2>1. cancelled' \subseteq Fiber
      BY <1>1 DEF TableTypes
    <2> QED
      BY <1>4, <2>1, TableStepTypes
  <1>6. handles[f] \subseteq handles'[f]
    BY DEF Connect, NewHandle, TableTypes
  <1>7. FrameInv'
    BY <1>1, <1>2, <1>3, <1>5, <1>6, PlainEnd
  <1> QED
    BY <1>1, <1>4, <1>5, <1>7 DEF Kept

\* A call: on a handle of the fiber, or of a function that needs none.
OnOneHandle == {"sync", "std", "transfer", "drop", "accept", "next"}

\* The functions called without a handle begin with an operation that needs none.
LEMMA FirstOps ==
    /\ \A fn \in Fns : Programs[fn][1] # "address"
    /\ \A fn \in Fns \ OnOneHandle : Programs[fn][1] \notin OnHandle
    /\ \A fn \in OnOneHandle : Programs[fn][1] \notin {"open"}
    /\ \A fn \in Fns : Programs[fn][1] = "open" => fn \in {"open", "metadata", "read", "read_to_string", "write"}
  BY DEF Programs, Fns, OnOneHandle, OnHandle, Later

\* Who calls what with what.
LEMMA CallFacts ==
    ASSUME TableTypes, NEW f \in Fiber, Calls(f)
    PROVE  \E fn \in Fns, h \in handles[f] \cup {NoHandle}, o \in OpenOptions, left \in Nat :
              /\ Call(f, fn, h, o, left)
              /\ fn \in OnOneHandle <=> h # NoHandle
              /\ "EINVAL" \notin Flags(o) \/ Programs[fn][1] # "open"
  <1>1. /\ Blank \in OpenOptions /\ ReadOnly \in OpenOptions /\ Create \in OpenOptions
        /\ TriedOptions \subseteq OpenOptions /\ 0 \in Nat /\ Lengths \subseteq Nat
    BY DescriptorsAssumption DEF Blank, ReadOnly, Create, TriedOptions, OpenOptions
  <1>2. \A h \in handles[f] : h # NoHandle
    BY DEF TableTypes, Handle, NoHandle, Kinds
  <1>3. "EINVAL" \notin Flags(ReadOnly) /\ "EINVAL" \notin Flags(Create)
    BY DEF Flags, AccessMode, CreationMode, ReadOnly, Create, Blank
  <1>4. \A fn \in Fns : Programs[fn][1] = "open" => fn \in {"open", "metadata", "read", "read_to_string", "write"}
    BY FirstOps
  <1>5. /\ {"open", "bind", "connect", "metadata", "read", "read_to_string", "write", "remove_file", "copy", "sleep"}
             \subseteq Fns \ OnOneHandle
        /\ OnOneHandle \subseteq Fns
        /\ OnOneHandle = {"sync", "std", "transfer", "drop", "accept", "next"}
    BY DEF Fns, OnOneHandle
  <1> QED
    BY <1>1, <1>2, <1>3, <1>4, <1>5 DEF Calls

\* A call puts a frame where none was.
LEMMA CallKeeps ==
    ASSUME TableTypes, FrameInv, NEW f \in Fiber, Calls(f)
    PROVE  Kept(f)
  <1>1. PICK fn \in Fns, h \in handles[f] \cup {NoHandle}, o \in OpenOptions, left \in Nat :
             Call(f, fn, h, o, left) /\ (fn \in OnOneHandle <=> h # NoHandle)
    BY CallFacts
  <1> DEFINE r == IF fn = "drop" THEN outcome[f] ELSE NoResult
             fr == [fn |-> fn, at |-> 1, h |-> h, options |-> o, left |-> left, result |-> r]
  <1>2. /\ frame' = [frame EXCEPT ![f] = fr] /\ frame[f] = Idle
        /\ outcome' = [outcome EXCEPT ![f] = r]
        /\ UNCHANGED <<table, handles, inflight, cancelled>>
    BY <1>1 DEF Call
  <1>3. outcome \in [Fiber -> Result] /\ f \notin inflight
    BY <1>2 DEF FrameInv
  <1>4. r \in Result
    BY <1>3 DEF NoResult, Result, Raws, Values
  <1>5. h \in Handle \cup {NoHandle}
    BY DEF TableTypes
  <1>6. fr \in Frame /\ fr.fn = fn /\ fr.at = 1 /\ fr.h = h
    BY <1>4, <1>5 DEF Frame
  <1>7. 1 \in 1 .. Len(Programs[fn])
    <2>1. WellFormed(Programs[fn])
      BY ProgramFacts
    <2>2. Len(Programs[fn]) \in 1 .. 4
      BY <2>1, Zenon DEF WellFormed
    <2> QED
      BY <2>2, FirstPosition, Zenon
  <1>8. FrameOK(fr, handles[f])
    <2>1. Programs[fn][1] \in OnHandle => h \in handles[f]
      BY <1>1, FirstOps
    <2>2. Programs[fn][1] = "open" => h = NoHandle
      BY <1>1, FirstOps
    <2>3. Programs[fn][1] # "address"
      BY FirstOps
    <2> HIDE DEF fr
    <2> QED
      BY <1>6, <1>7, <2>1, <2>2, <2>3 DEF FrameOK, OpOf
  <1> HIDE DEF fr, r
  <1>9. outcome' \in [Fiber -> Result]
    BY <1>2, <1>3, <1>4
  <1>10. /\ \A g \in inflight' : g \in inflight \/ (g = f /\ OpOf(fr) \in Ring)
         /\ f \in inflight' => OpOf(fr) \in Ring
    BY <1>2, <1>3
  <1> QED
    BY <1>2, <1>6, <1>8, <1>9, <1>10, FrameEdit

\* Steps between functions, and cancellations.
LEMMA OutsideKeeps ==
    ASSUME TableTypes, FrameInv, NEW f \in Fiber, RejectOptions(f) \/ DropStream(f) \/ Cancel(f)
    PROVE  Kept(f)
  <1>1. /\ UNCHANGED <<frame, inflight>> /\ cancelled \subseteq cancelled'
        /\ outcome' \in [Fiber -> Result]
    BY DEF RejectOptions, DropStream, Cancel, FrameInv, Result, Raws, Values
  <1>2. TableStep(f)
    BY DEF RejectOptions, DropStream, Cancel, TableStep
  <1>3. cancelled' \subseteq Fiber
    BY DEF RejectOptions, DropStream, Cancel, TableTypes
  <1>4. TableTypes' /\ \A g \in Fiber \ {f} : handles'[g] = handles[g]
    BY <1>2, <1>3, TableStepTypes
  <1>5. handles'[f] = handles[f] \/ frame[f] = Idle
    BY DEF RejectOptions, DropStream, Cancel
  <1>6. \A g \in Fiber : frame'[g] = Idle \/ FrameOK(frame'[g], handles'[g])
    BY <1>1, <1>4, <1>5 DEF FrameInv
  <1>7. FrameInv'
    BY <1>1, <1>6 DEF FrameInv, OpOf
  <1> QED
    BY <1>1, <1>2, <1>4, <1>7 DEF Kept

\* A handle moves between two fibers that are outside of functions.
LEMMA MoveKeeps ==
    ASSUME TableTypes, FrameInv, NEW f \in Fiber, NEW g \in Fiber, Move(f, g)
    PROVE  TableTypes' /\ FrameInv'
  <1>1. /\ UNCHANGED <<frame, inflight, cancelled, outcome>>
        /\ frame[f] = Idle /\ frame[g] = Idle /\ f # g
    BY DEF Move
  <1>2. /\ table \in [Descriptor -> {Free} \cup [owner : Fiber, kind : Kinds]]
        /\ handles \in [Fiber -> SUBSET Handle]
        /\ \A h \in Handle : h.fd \in Descriptor /\ h.kind \in Kinds
    BY DEF TableTypes, Handle
  <1>3. PICK h \in handles[f] :
             /\ handles' = [handles EXCEPT ![f] = @ \ {h}, ![g] = @ \cup {h}]
             /\ table' = IF table[h.fd] = [owner |-> f, kind |-> h.kind]
                         THEN [table EXCEPT ![h.fd].owner = g]
                         ELSE table
    BY DEF Move
  <1>4. h \in Handle
    BY <1>2
  <1>5. /\ handles' \in [Fiber -> SUBSET Handle]
        /\ \A k \in Fiber \ {f, g} : handles'[k] = handles[k]
    BY <1>1, <1>2, <1>3, <1>4
  <1>6. table' \in [Descriptor -> {Free} \cup [owner : Fiber, kind : Kinds]]
    <2>1. CASE table[h.fd] = [owner |-> f, kind |-> h.kind]
      <3>1. table' = [table EXCEPT ![h.fd].owner = g]
        BY <1>3, <2>1
      <3>2. [table[h.fd] EXCEPT !.owner = g] \in [owner : Fiber, kind : Kinds]
        BY <1>2, <1>4, <2>1
      <3> QED
        BY <1>2, <1>4, <3>1, <3>2
    <2> QED
      BY <1>2, <1>3, <2>1
  <1>7. TableTypes'
    BY <1>1, <1>5, <1>6 DEF TableTypes
  <1>8. \A k \in Fiber : frame'[k] = Idle \/ FrameOK(frame'[k], handles'[k])
    BY <1>1, <1>5 DEF FrameInv
  <1>9. FrameInv'
    BY <1>1, <1>8 DEF FrameInv, OpOf
  <1> QED
    BY <1>7, <1>9

\* All steps of a fiber.
LEMMA StepKeeps ==
    ASSUME TableTypes, FrameInv, DescriptorsNext
    PROVE  \E f \in Fiber : Kept(f) \/ \E g \in Fiber : Move(f, g)
  BY CallKeeps, OutsideKeeps, ErrorsKeep, IssueKeeps, OpenKeeps, CloseKeeps, PlainKeeps, IoKeeps,
     StdKeeps, ConnectKeeps
     DEF DescriptorsNext

\* The invariant that needs no assumption.
DescriptorsInv == TableTypes /\ FrameInv

\* It holds at the beginning.
LEMMA DescriptorsInitInv == DescriptorsInit => DescriptorsInv
  <1> SUFFICES ASSUME DescriptorsInit PROVE DescriptorsInv
    OBVIOUS
  <1>1. NoResult \in Result
    BY DEF NoResult, Result, Raws, Values
  <1> QED
    BY <1>1 DEF DescriptorsInit, DescriptorsInv, TableTypes, FrameInv

\* It implies the types.
LEMMA DescriptorsInvTypes == DescriptorsInv => DescriptorsTypeOK
  <1> SUFFICES ASSUME DescriptorsInv PROVE DescriptorsTypeOK
    OBVIOUS
  <1>1. \A f \in Fiber : frame[f] # Idle => frame[f].at \in 1 .. Len(Programs[frame[f].fn])
    BY DEF DescriptorsInv, FrameInv, FrameOK
  <1> QED
    BY <1>1 DEF DescriptorsInv, FrameInv, TableTypes, DescriptorsTypeOK, Handle

\* A stuttering step keeps it.
LEMMA DescriptorsStutter == ASSUME DescriptorsInv, UNCHANGED vars PROVE DescriptorsInv'
  BY DEF DescriptorsInv, TableTypes, FrameInv, OpOf, vars

\* The invariant holds always.
LEMMA DescriptorsInvariant == DescriptorsSpec => []DescriptorsInv
  <1>1. ASSUME DescriptorsInv, DescriptorsNext PROVE DescriptorsInv'
    BY <1>1, StepKeeps, MoveKeeps DEF DescriptorsInv, Kept
  <1> QED
    BY <1>1, DescriptorsStutter, DescriptorsInitInv, PTL DEF DescriptorsSpec

\* For any number of fibers, descriptors and bytes: every function of fs, net and
\* time stays inside its sequence of operations, all handles are descriptors of
\* the table, and only fibers inside a function have a system call with the kernel.
THEOREM DescriptorsTypeCorrect == DescriptorsSpec => []DescriptorsTypeOK
  BY DescriptorsInvariant, DescriptorsInvTypes, PTL

-----------------------------------------------------------------------------
(* Who holds which descriptor, when no std call on a borrowed descriptor     *)
(* fails.                                                                    *)

\* Both parts are needed: a handle dropped without a close is that of a stream
\* because its entry is.
OwnershipInv == DescriptorsInv /\ HandleOwnsDescriptor /\ LostOnlyByCancellation

\* A step of f keeps every handle with the entry opened for it.
LEMMA OwnershipStep ==
    ASSUME FALSE \notin StdResults, OwnershipInv, NEW f \in Fiber, Kept(f)
    PROVE  OwnershipInv'
  <1>1. /\ table \in [Descriptor -> {Free} \cup [owner : Fiber, kind : Kinds]]
        /\ handles \in [Fiber -> SUBSET Handle]
        /\ \A h \in Handle : h.fd \in Descriptor /\ h.kind \in Kinds /\ h = [fd |-> h.fd, kind |-> h.kind]
    BY DEF OwnershipInv, DescriptorsInv, TableTypes, Handle
  <1>2. /\ \A g \in Fiber : \A h \in handles[g] : table[h.fd] = [owner |-> g, kind |-> h.kind]
        /\ \A d \in Descriptor : table[d].kind \in {"file", "listener"} =>
              (\E h \in handles[table[d].owner] : h.fd = d) \/ table[d].owner \in cancelled
    BY DEF OwnershipInv, HandleOwnsDescriptor, LostOnlyByCancellation
  <1>3. cancelled \subseteq cancelled' /\ DescriptorsInv'
    BY DEF Kept, DescriptorsInv
  <1>4. /\ Free.kind \notin Kinds /\ Free.kind \notin {"file", "listener"}
        /\ \A d \in Descriptor : table[d].kind \in {"file", "listener"} => table[d].owner \in Fiber
    BY <1>1 DEF Free, Kinds
  <1>5. CASE UNCHANGED <<table, handles>>
    <2>1. HandleOwnsDescriptor'
      BY <1>2, <1>5 DEF HandleOwnsDescriptor
    <2>2. LostOnlyByCancellation'
      BY <1>2, <1>3, <1>5 DEF LostOnlyByCancellation
    <2> QED
      BY <1>3, <2>1, <2>2 DEF OwnershipInv
  <1>6. ASSUME NEW d \in Fresh, NEW kind \in Kinds, NewHandle(f, d, kind)
        PROVE  OwnershipInv'
    <2> DEFINE new == [fd |-> d, kind |-> kind]
    <2>1. /\ d \in Descriptor /\ table[d] = Free
          /\ table'[d] = [owner |-> f, kind |-> kind]
          /\ \A e \in Descriptor \ {d} : table'[e] = table[e]
          /\ handles'[f] = handles[f] \cup {new}
          /\ \A g \in Fiber \ {f} : handles'[g] = handles[g]
      BY <1>1, <1>6 DEF NewHandle, Fresh
    <2>2. new.fd = d /\ new.kind = kind
      OBVIOUS
    <2> HIDE DEF new
    <2>3. \A g \in Fiber : \A h \in handles[g] : h.fd \in Descriptor \ {d}
      <3> SUFFICES ASSUME NEW g \in Fiber, NEW h \in handles[g] PROVE h.fd \in Descriptor \ {d}
        OBVIOUS
      <3>1. h \in Handle
        BY <1>1
      <3>2. table[h.fd] = [owner |-> g, kind |-> h.kind]
        BY <1>2
      <3> QED
        BY <1>1, <1>4, <2>1, <3>1, <3>2
    <2>4. HandleOwnsDescriptor'
      <3> SUFFICES ASSUME NEW g \in Fiber, NEW h \in handles'[g]
                   PROVE  table'[h.fd] = [owner |-> g, kind |-> h.kind]
        BY DEF HandleOwnsDescriptor
      <3>1. CASE h \in handles[g]
        <4>1. table[h.fd] = [owner |-> g, kind |-> h.kind]
          BY <1>2, <3>1
        <4> QED
          BY <2>1, <2>3, <3>1, <4>1
      <3>2. CASE h \notin handles[g]
        BY <2>1, <2>2, <3>2
      <3> QED
        BY <3>1, <3>2
    <2>5. LostOnlyByCancellation'
      <3> SUFFICES ASSUME NEW e \in Descriptor, table'[e].kind \in {"file", "listener"}
                   PROVE  (\E h \in handles'[table'[e].owner] : h.fd = e) \/ table'[e].owner \in cancelled'
        BY DEF LostOnlyByCancellation
      <3>1. CASE e = d
        BY <2>1, <2>2, <3>1
      <3>2. CASE e # d
        BY <1>2, <1>3, <1>4, <2>1, <3>2
      <3> QED
        BY <3>1, <3>2
    <2> QED
      BY <1>3, <2>4, <2>5 DEF OwnershipInv
  <1>7. ASSUME NEW h \in handles[f], handles' = [handles EXCEPT ![f] = @ \ {h}],
               \/ table' = [table EXCEPT ![h.fd] = Free]
               \/ table' = table /\ (h.kind = "stream" \/ f \in cancelled)
        PROVE  OwnershipInv'
    <2>1. /\ h \in Handle /\ handles'[f] = handles[f] \ {h}
          /\ \A g \in Fiber \ {f} : handles'[g] = handles[g]
          /\ \A e \in Descriptor \ {h.fd} : table'[e] = table[e]
          /\ table'[h.fd] = Free \/ (table'[h.fd] = table[h.fd] /\ (h.kind = "stream" \/ f \in cancelled))
      BY <1>1, <1>7
    <2>2. table[h.fd] = [owner |-> f, kind |-> h.kind]
      BY <1>2
    <2>3. \A g \in Fiber : \A k \in handles'[g] : k \in handles[g] /\ k.fd \in Descriptor \ {h.fd}
      <3> SUFFICES ASSUME NEW g \in Fiber, NEW k \in handles'[g]
                   PROVE  k \in handles[g] /\ k.fd \in Descriptor \ {h.fd}
        OBVIOUS
      <3>1. k \in handles[g] /\ k \in Handle /\ (g = f => k # h)
        BY <1>1, <2>1
      <3>2. table[k.fd] = [owner |-> g, kind |-> k.kind]
        BY <1>2, <3>1
      <3>3. k.fd = h.fd => g = f /\ k.kind = h.kind
        BY <2>2, <3>2
      <3> QED
        BY <1>1, <2>1, <3>1, <3>3
    <2>4. HandleOwnsDescriptor'
      <3> SUFFICES ASSUME NEW g \in Fiber, NEW k \in handles'[g]
                   PROVE  table'[k.fd] = [owner |-> g, kind |-> k.kind]
        BY DEF HandleOwnsDescriptor
      <3>1. k \in handles[g] /\ table'[k.fd] = table[k.fd]
        BY <2>1, <2>3
      <3> QED
        BY <1>2, <3>1
    <2>5. LostOnlyByCancellation'
      <3> SUFFICES ASSUME NEW e \in Descriptor, table'[e].kind \in {"file", "listener"}
                   PROVE  (\E k \in handles'[table'[e].owner] : k.fd = e) \/ table'[e].owner \in cancelled'
        BY DEF LostOnlyByCancellation
      <3>1. CASE e = h.fd
        BY <1>3, <1>4, <2>1, <2>2, <3>1
      <3>2. CASE e # h.fd
        BY <1>2, <1>3, <1>4, <2>1, <3>2
      <3> QED
        BY <3>1, <3>2
    <2> QED
      BY <1>3, <2>4, <2>5 DEF OwnershipInv
  <1> QED
    BY <1>5, <1>6, <1>7 DEF Kept, TableStep

\* A handle that moves takes its entry along.
LEMMA OwnershipMoves ==
    ASSUME OwnershipInv, NEW f \in Fiber, NEW g \in Fiber, Move(f, g)
    PROVE  OwnershipInv'
  <1>1. /\ table \in [Descriptor -> {Free} \cup [owner : Fiber, kind : Kinds]]
        /\ handles \in [Fiber -> SUBSET Handle]
        /\ \A k \in Handle : k.fd \in Descriptor /\ k.kind \in Kinds /\ k = [fd |-> k.fd, kind |-> k.kind]
    BY DEF OwnershipInv, DescriptorsInv, TableTypes, Handle
  <1>2. /\ \A e \in Fiber : \A k \in handles[e] : table[k.fd] = [owner |-> e, kind |-> k.kind]
        /\ \A d \in Descriptor : table[d].kind \in {"file", "listener"} =>
              (\E k \in handles[table[d].owner] : k.fd = d) \/ table[d].owner \in cancelled
    BY DEF OwnershipInv, HandleOwnsDescriptor, LostOnlyByCancellation
  <1>3. cancelled' = cancelled /\ f # g /\ DescriptorsInv'
    BY MoveKeeps DEF Move, OwnershipInv, DescriptorsInv
  <1>4. /\ Free.kind \notin {"file", "listener"}
        /\ \A d \in Descriptor : table[d].kind \in {"file", "listener"} => table[d].owner \in Fiber
    BY <1>1 DEF Free
  <1>5. PICK h \in handles[f] :
             /\ handles' = [handles EXCEPT ![f] = @ \ {h}, ![g] = @ \cup {h}]
             /\ table' = IF table[h.fd] = [owner |-> f, kind |-> h.kind]
                         THEN [table EXCEPT ![h.fd].owner = g]
                         ELSE table
    BY DEF Move
  <1>6. h \in Handle /\ table[h.fd] = [owner |-> f, kind |-> h.kind]
    BY <1>1, <1>2
  <1>7. /\ handles'[f] = handles[f] \ {h} /\ handles'[g] = handles[g] \cup {h}
        /\ \A e \in Fiber \ {f, g} : handles'[e] = handles[e]
        /\ table'[h.fd] = [owner |-> g, kind |-> h.kind]
        /\ \A d \in Descriptor \ {h.fd} : table'[d] = table[d]
    BY <1>1, <1>3, <1>5, <1>6
  <1>8. \A e \in Fiber : \A k \in handles[e] : k # h => k.fd \in Descriptor \ {h.fd}
    <2> SUFFICES ASSUME NEW e \in Fiber, NEW k \in handles[e], k # h PROVE k.fd \in Descriptor \ {h.fd}
      OBVIOUS
    <2>1. k \in Handle /\ table[k.fd] = [owner |-> e, kind |-> k.kind]
      BY <1>1, <1>2
    <2>2. k.fd = h.fd => k.kind = h.kind
      BY <1>6, <2>1
    <2> QED
      BY <1>1, <1>6, <2>1, <2>2
  <1>9. \A e \in Fiber \ {f} : h \notin handles[e]
    <2> SUFFICES ASSUME NEW e \in Fiber, h \in handles[e] PROVE e = f
      OBVIOUS
    <2>1. table[h.fd] = [owner |-> e, kind |-> h.kind]
      BY <1>2
    <2> QED
      BY <1>6, <2>1
  <1>10. HandleOwnsDescriptor'
    <2> SUFFICES ASSUME NEW e \in Fiber, NEW k \in handles'[e]
                 PROVE  table'[k.fd] = [owner |-> e, kind |-> k.kind]
      BY DEF HandleOwnsDescriptor
    <2>1. CASE k = h
      <3>1. e = g
        BY <1>3, <1>7, <1>9, <2>1
      <3> QED
        BY <1>7, <2>1, <3>1
    <2>2. CASE k # h
      <3>1. k \in handles[e]
        BY <1>7, <2>2
      <3> QED
        BY <1>2, <1>7, <1>8, <2>2, <3>1
    <2> QED
      BY <2>1, <2>2
  <1>11. LostOnlyByCancellation'
    <2> SUFFICES ASSUME NEW d \in Descriptor, table'[d].kind \in {"file", "listener"}
                 PROVE  (\E k \in handles'[table'[d].owner] : k.fd = d) \/ table'[d].owner \in cancelled'
      BY DEF LostOnlyByCancellation
    <2>1. CASE d = h.fd
      <3>1. table'[d].owner = g /\ h \in handles'[g]
        BY <1>7, <2>1
      <3> QED
        BY <2>1, <3>1
    <2>2. CASE d # h.fd
      <3>1. table'[d] = table[d] /\ table[d].owner \in Fiber
        BY <1>4, <1>7, <2>2
      <3>2. \A k \in handles[table[d].owner] : k.fd = d => k \in handles'[table[d].owner]
        BY <1>7, <2>2, <3>1
      <3> QED
        BY <1>2, <1>3, <3>1, <3>2
    <2> QED
      BY <2>1, <2>2
  <1> QED
    BY <1>3, <1>10, <1>11 DEF OwnershipInv

\* The ownership of descriptors, always.
LEMMA OwnershipInvariant ==
    ASSUME FALSE \notin StdResults
    PROVE  DescriptorsSpec => []OwnershipInv
  <1>1. DescriptorsInit => OwnershipInv
    BY DescriptorsInitInv
       DEF DescriptorsInit, OwnershipInv, HandleOwnsDescriptor, LostOnlyByCancellation, Free
  <1>2. ASSUME OwnershipInv, DescriptorsNext PROVE OwnershipInv'
    BY <1>2, StepKeeps, OwnershipStep, OwnershipMoves DEF OwnershipInv, DescriptorsInv
  <1>3. ASSUME OwnershipInv, UNCHANGED vars PROVE OwnershipInv'
    BY <1>3, DescriptorsStutter
       DEF OwnershipInv, HandleOwnsDescriptor, LostOnlyByCancellation, vars
  <1> QED
    BY <1>1, <1>2, <1>3, PTL DEF DescriptorsSpec

\* As long as no std call on a borrowed descriptor fails (StdErrors.cfg shows what
\* happens when one does), a File, Listener or stream always is a handle to the
\* descriptor that was opened for it: no close, cancelled drop or reuse of the
\* lowest free number gives it to another fiber.
THEOREM HandlesOwnTheirDescriptors ==
    ASSUME FALSE \notin StdResults
    PROVE  DescriptorsSpec => []HandleOwnsDescriptor
  BY OwnershipInvariant, PTL DEF OwnershipInv

\* Under the same assumption the descriptor of a file or listener stays open
\* without a handle only in a cancelled fiber: on every other path of fs and net,
\* after errors and panics too, what was opened is closed.
THEOREM DescriptorsAreLostOnlyByCancellation ==
    ASSUME FALSE \notin StdResults
    PROVE  DescriptorsSpec => []LostOnlyByCancellation
  BY OwnershipInvariant, PTL DEF OwnershipInv

-----------------------------------------------------------------------------
(* Errors and options. *)

\* The three parts of ErrorsSurvive that are about a result alone.
Good(r) ==
    /\ r.raw \in {"ok", "ETIME"} <=> r.value = "Ok"
    /\ r.value # "None" =>
          /\ r.raw \in {"skipped", "ECANCELED"} <=> r.value \in {"Cancelled", "ECANCELED"}
          /\ r.value = "Panic" => r.raw \in {"codeless", "empty", "EIO"}

\* What can stop which operation.
Stops(op, raw) ==
    \/ raw \in {"ok", "EIO"}
    \/ raw = "codeless" /\ op \in {"io", "utf8", "copy", "address", "resolve"}
    \/ raw = "empty" /\ op = "resolve"
    \/ raw \in {"skipped", "ECANCELED"} /\ op \in Ring
    \/ raw = "ETIME" /\ op = "timeout"

\* The conversions keep what stopped an operation.
LEMMA ConversionsAreGood ==
    ASSUME NEW fn, NEW op, NEW raw \in Raws, Stops(op, raw), fn = "next" => op # "timeout"
    PROVE  Good([raw |-> raw, value |-> Converted(fn, op, raw)])
  <1>1. CASE raw = "ok"
    BY <1>1 DEF Good, Converted
  <1>2. CASE raw = "EIO"
    BY <1>2 DEF Good, Converted, SleepResult, IoError, FromIoError, SyscallError
  <1>3. CASE raw = "codeless"
    BY <1>3 DEF Good, Converted, SleepResult, IoError, FromIoError, SyscallError, Stops
  <1>4. CASE raw \in {"skipped", "ECANCELED"}
    <2>1. op \in Ring
      BY <1>4 DEF Stops
    <2> QED
      BY <1>4, <2>1 DEF Good, Converted, SleepResult, IoError, FromIoError, SyscallError, Ring
  <1>5. CASE raw = "ETIME"
    <2>1. op = "timeout"
      BY <1>5 DEF Stops
    <2> QED
      BY <1>5, <2>1 DEF Good, Converted, SleepResult, SyscallError
  <1>6. CASE raw = "empty"
    BY <1>6 DEF Good, Converted, Stops
  <1> QED
    BY <1>1, <1>2, <1>3, <1>4, <1>5, <1>6 DEF Raws, Stops

\* What the function of f has got so far, and what the next call will pass on: the
\* options of an open are valid, a write is with the kernel only while bytes are
\* left, and has no error before it is about to close its File.
Fine(f, fr, out, fl) ==
    /\ Good(out)
    /\ fr # Idle =>
         /\ Good(fr.result)
         /\ OpOf(fr) = "open" /\ f \notin fl => "EINVAL" \notin Flags(fr.options)
         /\ fr.fn = "write" =>
              /\ OpOf(fr) = "io" => fr.result.raw = "ok" /\ (f \in fl => fr.left # 0)
              /\ fr.result.raw = "codeless" => fr.left >= U32

ResultsInv == \A f \in Fiber : Fine(f, frame[f], outcome[f], inflight)

\* The operations of fs::write and of the iterator over connections.
LEMMA WriteProgram ==
    /\ Programs["write"] = <<"open", "io", "close">>
    /\ Programs["next"] = <<"accept", "address">>
  BY DEF Programs

\* The end of an operation with an error that can stop it.
LEMMA EndIsFine ==
    ASSUME FrameInv, NEW f \in Fiber, NEW fr \in Frame, fr.at \in 1 .. Len(Programs[fr.fn]),
           NEW raw \in Raws, Finish(f, fr, raw), Stops(OpOf(fr), raw),
           Good(fr.result), Good(outcome[f]), f \notin inflight',
           fr.fn = "write" /\ OpOf(fr) = "io" /\ raw = "codeless" => fr.left >= U32
    PROVE  /\ Fine(f, frame'[f], outcome'[f], inflight')
           /\ \A g \in Fiber \ {f} : frame'[g] = frame[g] /\ outcome'[g] = outcome[g]
  <1>1. frame \in [Fiber -> {Idle} \cup Frame] /\ outcome \in [Fiber -> Result]
    BY DEF FrameInv
  <1> DEFINE r == ResultOf(fr, raw)
  <1>2. Returns(f, fr, raw) \/ GoesOn(f, fr, raw)
    BY FinishFacts
  <1>3. Good(r)
    <2>1. fr.fn = "next" => OpOf(fr) # "timeout"
      BY WriteProgram DEF OpOf
    <2> QED
      BY <2>1, ConversionsAreGood DEF ResultOf
  <1>4. OpOf(fr) # "close" => r.raw = raw
    BY DEF ResultOf
  <1> HIDE DEF r
  <1>5. CASE Returns(f, fr, raw)
    BY <1>1, <1>3, <1>5 DEF Returns, Fine, r
  <1>6. ASSUME OpOf(fr) \notin {"close", "address"}, outcome' = outcome,
               OpOf(fr) \in OnHandle \cup {"open", "resolve"},
               NEW at \in 2 .. Len(Programs[fr.fn]), Programs[fr.fn][at] \in Later \cup Sockets,
               raw # "ok" => Programs[fr.fn][at] = "close",
               frame' = [frame EXCEPT ![f] = [fr EXCEPT !.at = at, !.result = r]]
        PROVE  /\ Fine(f, frame'[f], outcome'[f], inflight')
               /\ \A g \in Fiber \ {f} : frame'[g] = frame[g] /\ outcome'[g] = outcome[g]
    <2> DEFINE x == [fr EXCEPT !.at = at, !.result = r]
    <2>1. x.fn = fr.fn /\ x.at = at /\ x.result = r /\ x.left = fr.left /\ x.options = fr.options
      BY DEF Frame
    <2>2. frame'[f] = x /\ \A g \in Fiber \ {f} : frame'[g] = frame[g]
      BY <1>1, <1>6
    <2> HIDE DEF x
    <2>3. OpOf(x) = Programs[fr.fn][at] /\ OpOf(x) # "open"
      BY <1>6, <2>1 DEF OpOf, Later, Sockets
    <2>4. fr.fn = "write" => OpOf(fr) \in {"open", "io"}
      BY <1>6, WriteProgram DEF OpOf
    <2>5. fr.fn = "write" /\ OpOf(x) = "io" => r.raw = "ok"
      BY <1>4, <1>6, <2>3
    <2>6. fr.fn = "write" /\ r.raw = "codeless" => fr.left >= U32
      BY <1>4, <1>6, <2>4 DEF Stops
    <2>7. Fine(f, x, outcome[f], inflight')
      BY <1>3, <2>1, <2>3, <2>5, <2>6 DEF Fine
    <2> QED
      BY <1>6, <2>2, <2>7
  <1> QED
    BY <1>2, <1>5, <1>6 DEF GoesOn, r

\* The operation of f ends, with an error that can stop it.
EndsWell(f) ==
    /\ frame[f] # Idle
    /\ f \notin inflight'
    /\ inflight' \subseteq inflight /\ inflight \subseteq inflight' \cup {f}
    /\ \E raw \in Raws :
          /\ Stops(Op(f), raw)
          /\ frame[f].fn = "write" /\ Op(f) = "io" /\ raw = "codeless" => frame[f].left >= U32
          /\ \/ Finish(f, frame[f], raw)
             \/ \E h \in Handle : Finish(f, [frame[f] EXCEPT !.h = h], raw)

\* Such a step keeps the results.
LEMMA EndsWellKeeps ==
    ASSUME TableTypes, FrameInv, ResultsInv, NEW f \in Fiber, EndsWell(f)
    PROVE  ResultsInv'
  <1>1. /\ frame[f] # Idle /\ frame[f] \in Frame /\ frame[f].at \in 1 .. Len(Programs[frame[f].fn])
        /\ Op(f) = OpOf(frame[f])
    BY OpFacts DEF EndsWell
  <1>2. Good(frame[f].result) /\ Good(outcome[f]) /\ f \notin inflight'
    BY <1>1 DEF ResultsInv, Fine, EndsWell
  <1>3. PICK raw \in Raws :
             /\ Stops(Op(f), raw)
             /\ frame[f].fn = "write" /\ Op(f) = "io" /\ raw = "codeless" => frame[f].left >= U32
             /\ \/ Finish(f, frame[f], raw)
                \/ \E h \in Handle : Finish(f, [frame[f] EXCEPT !.h = h], raw)
    BY DEF EndsWell
  <1>4. PICK fr \in Frame : /\ Finish(f, fr, raw) /\ fr.fn = frame[f].fn /\ fr.at = frame[f].at
                            /\ fr.left = frame[f].left /\ fr.result = frame[f].result
    <2>1. CASE Finish(f, frame[f], raw)
      BY <1>1, <2>1
    <2>2. ASSUME NEW h \in Handle, Finish(f, [frame[f] EXCEPT !.h = h], raw)
          PROVE  \E fr \in Frame : /\ Finish(f, fr, raw) /\ fr.fn = frame[f].fn /\ fr.at = frame[f].at
                                   /\ fr.left = frame[f].left /\ fr.result = frame[f].result
      <3> DEFINE fr == [frame[f] EXCEPT !.h = h]
      <3>1. /\ fr \in Frame /\ fr.fn = frame[f].fn /\ fr.at = frame[f].at
            /\ fr.left = frame[f].left /\ fr.result = frame[f].result
        BY <1>1 DEF Frame
      <3>2. Finish(f, fr, raw)
        BY <2>2
      <3> HIDE DEF fr
      <3> QED
        BY <3>1, <3>2
    <2> QED
      BY <1>3, <2>1, <2>2
  <1>5. OpOf(fr) = Op(f)
    BY <1>1, <1>4 DEF OpOf
  <1>6. /\ Fine(f, frame'[f], outcome'[f], inflight')
        /\ \A g \in Fiber \ {f} : frame'[g] = frame[g] /\ outcome'[g] = outcome[g]
    BY <1>1, <1>2, <1>3, <1>4, <1>5, EndIsFine
  <1>7. \A g \in Fiber \ {f} : g \in inflight' <=> g \in inflight
    BY DEF EndsWell
  <1>8. \A g \in Fiber \ {f} : Fine(g, frame'[g], outcome'[g], inflight')
    BY <1>6, <1>7 DEF ResultsInv, Fine
  <1> QED
    BY <1>6, <1>8 DEF ResultsInv

\* A step of f that edits its frame or its outcome.
LEMMA EditKeeps ==
    ASSUME ResultsInv, NEW f \in Fiber,
           Fine(f, frame'[f], outcome'[f], inflight'),
           \A g \in Fiber \ {f} : frame'[g] = frame[g] /\ outcome'[g] = outcome[g],
           inflight' \subseteq inflight \cup {f} /\ inflight \subseteq inflight' \cup {f}
    PROVE  ResultsInv'
  <1>1. \A g \in Fiber \ {f} : g \in inflight' <=> g \in inflight
    OBVIOUS
  <1>2. \A g \in Fiber \ {f} : Fine(g, frame'[g], outcome'[g], inflight')
    BY <1>1 DEF ResultsInv, Fine
  <1> QED
    BY <1>2 DEF ResultsInv

\* The steps that end an operation.
LEMMA EndSteps ==
    ASSUME TableTypes, FrameInv, ResultsInv, NEW f \in Fiber,
           \/ Refuse(f) \/ CompleteError(f) \/ CompleteOpen(f) \/ CompleteClose(f) \/ CompletePlain(f)
           \/ CompleteTransfer(f) \/ WrittenAll(f) \/ StdCall(f) \/ Resolve(f) \/ Connect(f) \/ Address(f) \/ StdResult(f)
    PROVE  ResultsInv'
  <1>0. \A g \in inflight : frame[g] # Idle /\ Op(g) \in Ring
    BY DEF FrameInv, Op, OpOf
  <1>1. CASE Refuse(f)
    BY <1>1, EndsWellKeeps DEF EndsWell, Refuse, AtSyscall, Stops, Raws
  <1>2. CASE CompleteError(f)
    BY <1>0, <1>2, EndsWellKeeps DEF EndsWell, CompleteError, Stops, Raws
  <1>3. CASE CompleteOpen(f)
    <2>1. PICK d \in Fresh, kind \in Kinds : Finish(f, [frame[f] EXCEPT !.h = [fd |-> d, kind |-> kind]], "ok")
      BY <1>3 DEF CompleteOpen, Kinds
    <2>2. [fd |-> d, kind |-> kind] \in Handle
      BY DEF Fresh, Handle
    <2>3. /\ frame[f] # Idle /\ inflight' = inflight \ {f}
      BY <1>0, <1>3 DEF CompleteOpen
    <2>4. "ok" \in Raws /\ Stops(Op(f), "ok")
      BY DEF Raws, Stops
    <2> QED
      BY <2>1, <2>2, <2>3, <2>4, EndsWellKeeps DEF EndsWell
  <1>4. CASE CompleteClose(f) \/ CompletePlain(f) \/ CompleteTransfer(f) \/ WrittenAll(f)
    <2>1. /\ frame[f] # Idle /\ Finish(f, frame[f], "ok")
          /\ inflight' = inflight \ {f}
      BY <1>0, <1>4 DEF CompleteClose, CompletePlain, CompleteTransfer, WrittenAll, In
    <2>2. "ok" \in Raws /\ Stops(Op(f), "ok")
      BY DEF Raws, Stops
    <2> QED
      BY <2>1, <2>2, EndsWellKeeps DEF EndsWell
  <1>5. CASE StdCall(f) \/ Resolve(f) \/ Connect(f) \/ Address(f) \/ StdResult(f)
    <2>1. /\ frame[f] # Idle /\ inflight' = inflight /\ Op(f) \notin Ring
          /\ Op(f) # "io"
      BY <1>5 DEF StdCall, Resolve, Connect, Address, StdResult, In, Ring
    <2>2. f \notin inflight
      BY <1>0, <2>1
    <2>3. \E raw \in Raws : Stops(Op(f), raw) /\ Finish(f, frame[f], raw)
      <3>1. CASE StdCall(f)
        BY <3>1 DEF StdCall, Stops, Raws
      <3>2. CASE Connect(f)
        BY <3>2 DEF Connect, Stops, Raws
      <3>3. CASE Address(f)
        BY <3>3 DEF Address, In, Stops, Raws
      <3>4. CASE StdResult(f)
        BY <3>4 DEF StdResult, In, Stops, Raws
      <3>5. CASE Resolve(f)
        BY <3>5 DEF Resolve, In, Stops, Raws
      <3> QED
        BY <1>5, <3>1, <3>2, <3>3, <3>4, <3>5
    <2> QED
      BY <2>1, <2>2, <2>3, EndsWellKeeps DEF EndsWell
  <1> QED
    BY <1>1, <1>2, <1>3, <1>4, <1>5

\* The steps that begin, repeat or come between operations.
LEMMA OtherSteps ==
    ASSUME TableTypes, FrameInv, ResultsInv, NEW f \in Fiber,
           Calls(f) \/ RejectOptions(f) \/ Issue(f) \/ CompleteIo(f) \/ DropStream(f) \/ Cancel(f)
           \/ \E g \in Fiber : Move(f, g)
    PROVE  ResultsInv'
  <1>1. /\ frame \in [Fiber -> {Idle} \cup Frame] /\ outcome \in [Fiber -> Result]
        /\ Fine(f, frame[f], outcome[f], inflight)
        /\ \A g \in inflight : frame[g] # Idle
    BY DEF FrameInv, ResultsInv
  <1>2. Good(NoResult) /\ Good([raw |-> "EINVAL", value |-> "Original"])
    BY DEF Good, NoResult
  <1>3. CASE Calls(f)
    <2>1. PICK fn \in Fns, h \in handles[f] \cup {NoHandle}, o \in OpenOptions, left \in Nat :
               Call(f, fn, h, o, left) /\ ("EINVAL" \notin Flags(o) \/ Programs[fn][1] # "open")
      BY <1>3, CallFacts
    <2> DEFINE r == IF fn = "drop" THEN outcome[f] ELSE NoResult
               fr == [fn |-> fn, at |-> 1, h |-> h, options |-> o, left |-> left, result |-> r]
    <2>2. /\ frame'[f] = fr /\ outcome'[f] = r /\ inflight' = inflight
          /\ \A g \in Fiber \ {f} : frame'[g] = frame[g] /\ outcome'[g] = outcome[g]
      BY <1>1, <2>1 DEF Call
    <2>3. Good(r) /\ (fn = "write" => r.raw = "ok")
      BY <1>1, <1>2 DEF Fine, NoResult
    <2>4. fr.fn = fn /\ fr.at = 1 /\ fr.options = o /\ fr.result = r
      OBVIOUS
    <2> HIDE DEF fr, r
    <2>5. OpOf(fr) = Programs[fn][1] /\ (fn = "write" => OpOf(fr) # "io")
      BY <2>4, WriteProgram DEF OpOf
    <2>6. Fine(f, fr, r, inflight)
      BY <2>1, <2>3, <2>4, <2>5 DEF Fine
    <2> QED
      BY <2>2, <2>6, EditKeeps
  <1>4. CASE RejectOptions(f)
    <2>1. /\ frame' = frame /\ inflight' = inflight /\ frame[f] = Idle
          /\ outcome'[f] = [raw |-> "EINVAL", value |-> "Original"]
          /\ \A g \in Fiber \ {f} : outcome'[g] = outcome[g]
      BY <1>1, <1>4 DEF RejectOptions
    <2>2. Fine(f, frame'[f], outcome'[f], inflight')
      BY <1>2, <2>1 DEF Fine
    <2> QED
      BY <2>1, <2>2, EditKeeps
  <1>5. CASE Issue(f)
    <2> DEFINE fr == [frame[f] EXCEPT !.options = Blank]
    <2>1. /\ frame[f] # Idle /\ frame[f] \in Frame /\ inflight' = inflight \cup {f} /\ outcome' = outcome
          /\ ~(frame[f].fn = "write" /\ Op(f) = "io" /\ frame[f].left = 0)
          /\ frame'[f] = fr /\ \A g \in Fiber \ {f} : frame'[g] = frame[g]
      BY <1>1, <1>5 DEF Issue, AtSyscall
    <2>2. /\ fr.fn = frame[f].fn /\ fr.at = frame[f].at /\ fr.left = frame[f].left
          /\ fr.result = frame[f].result
      BY <2>1 DEF Frame
    <2> HIDE DEF fr
    <2>3. OpOf(fr) = OpOf(frame[f]) /\ Op(f) = OpOf(fr)
      BY <2>2 DEF OpOf, Op
    <2>4. Fine(f, fr, outcome[f], inflight')
      BY <1>1, <2>1, <2>2, <2>3 DEF Fine
    <2> QED
      BY <2>1, <2>4, EditKeeps
  <1>6. CASE CompleteIo(f)
    <2>1. /\ frame[f] # Idle /\ frame[f] \in Frame /\ inflight' = inflight \ {f} /\ f \in inflight
          /\ Op(f) = "io" /\ OpOf(frame[f]) = "io" /\ frame[f].left \in Nat
      BY <1>1, <1>6 DEF CompleteIo, In, Op, OpOf, Frame
    <2>2. ASSUME NEW raw \in Raws, Finish(f, frame[f], raw), raw \in {"ok", "codeless"},
                 raw = "codeless" => frame[f].left >= U32
          PROVE  ResultsInv'
      BY <2>1, <2>2, EndsWellKeeps DEF EndsWell, Stops
    <2>3. CASE UNCHANGED <<frame, outcome>>
      <3>1. Fine(f, frame'[f], outcome'[f], inflight')
        BY <1>1, <2>1, <2>3 DEF Fine
      <3> QED
        BY <2>1, <2>3, <3>1, EditKeeps
    <2>4. CASE frame[f].fn = "write" /\ TransferLength(frame[f].left) = 0 /\ Finish(f, frame[f], "codeless")
      <3>1. frame[f].left # 0
        BY <1>1, <2>1, <2>4 DEF Fine
      <3>2. frame[f].left >= U32
        BY <2>1, <2>4, <3>1, TransferBound, DescriptorsAssumption
      <3> QED
        BY <2>2, <2>4, <3>2 DEF Raws
    <2>5. ASSUME frame[f].fn = "write", NEW n \in 1 .. TransferLength(frame[f].left),
                 frame' = [frame EXCEPT ![f].left = @ - n], outcome' = outcome
          PROVE  ResultsInv'
      <3> DEFINE fr == [frame[f] EXCEPT !.left = @ - n]
      <3>1. frame'[f] = fr /\ \A g \in Fiber \ {f} : frame'[g] = frame[g]
        BY <1>1, <2>5
      <3>2. /\ fr.fn = "write" /\ fr.at = frame[f].at /\ fr.result = frame[f].result
        BY <2>1, <2>5 DEF Frame
      <3> HIDE DEF fr
      <3>3. OpOf(fr) = "io"
        BY <2>1, <2>5, <3>2 DEF OpOf
      <3>4. Fine(f, fr, outcome[f], inflight')
        BY <1>1, <2>1, <2>5, <3>2, <3>3 DEF Fine
      <3> QED
        BY <2>1, <2>5, <3>1, <3>4, EditKeeps
    <2> QED
      BY <1>6, <2>2, <2>3, <2>4, <2>5 DEF CompleteIo, Raws
  <1>7. CASE DropStream(f) \/ Cancel(f) \/ \E g \in Fiber : Move(f, g)
    <2>1. UNCHANGED <<frame, inflight, outcome>>
      BY <1>7 DEF DropStream, Cancel, Move
    <2> QED
      BY <2>1 DEF ResultsInv
  <1> QED
    BY <1>3, <1>4, <1>5, <1>6, <1>7

\* The results and the options, always.
LEMMA ResultsInvariant == DescriptorsSpec => [](DescriptorsInv /\ ResultsInv)
  <1>1. DescriptorsInit => ResultsInv
    BY DEF DescriptorsInit, ResultsInv, Fine, Good, NoResult
  <1>2. ASSUME DescriptorsInv, ResultsInv, DescriptorsNext PROVE ResultsInv'
    BY <1>2, EndSteps, OtherSteps DEF DescriptorsInv, DescriptorsNext
  <1>3. ASSUME ResultsInv, UNCHANGED vars PROVE ResultsInv'
    BY <1>3 DEF ResultsInv, vars
  <1> QED
    BY <1>1, <1>2, <1>3, DescriptorsInvariant, PTL DEF DescriptorsSpec

\* What stopped a function is what its caller sees, for writes of any length and
\* whether or not std calls fail: a cancellation is never hidden or invented, and
\* fs::write makes an error without a number only of 2^32 bytes or more.
THEOREM ErrorsSurviveConversions == DescriptorsSpec => []ErrorsSurvive
  <1>1. ASSUME DescriptorsInv, ResultsInv PROVE ErrorsSurvive
    <2> SUFFICES ASSUME NEW f \in Fiber
                 PROVE  /\ Good(outcome[f])
                        /\ frame[f].fn = "write" /\ frame[f].result.raw = "codeless" => frame[f].left >= U32
      BY DEF ErrorsSurvive, Good
    <2>1. Fine(f, frame[f], outcome[f], inflight)
      BY <1>1 DEF ResultsInv
    <2>2. CASE frame[f] = Idle
      BY <2>1, <2>2 DEF Fine, Idle
    <2>3. CASE frame[f] # Idle
      BY <2>1, <2>3 DEF Fine
    <2> QED
      BY <2>2, <2>3
  <1> QED
    BY <1>1, ResultsInvariant, PTL

\* Valid options: append and create_new as the comments of the setters promise.
LEMMA ValidOptions ==
    ASSUME NEW o \in OpenOptions, "EINVAL" \notin Flags(o)
    PROVE  /\ o.append => Flags(o) = Flags([o EXCEPT !.write = ~@])
           /\ o.create_new => \A c, t \in BOOLEAN :
                                 Flags(o) = Flags([o EXCEPT !.create = c, !.truncate = t])
           /\ Flags(o) \cap {"O_CREAT", "O_TRUNC"} # {} => "O_RDONLY" \notin Flags(o)
  <1>1. /\ o.read \in BOOLEAN /\ o.write \in BOOLEAN /\ o.append \in BOOLEAN
        /\ o.truncate \in BOOLEAN /\ o.create \in BOOLEAN /\ o.create_new \in BOOLEAN
    BY DEF OpenOptions
  <1>2. o.append => Flags(o) = Flags([o EXCEPT !.write = ~@])
    <2> SUFFICES ASSUME o.append PROVE Flags(o) = Flags([o EXCEPT !.write = ~@])
      OBVIOUS
    <2> DEFINE q == [o EXCEPT !.write = ~@]
    <2>1. /\ q.read = o.read /\ q.append = o.append /\ q.truncate = o.truncate
          /\ q.create = o.create /\ q.create_new = o.create_new
      BY DEF OpenOptions
    <2> HIDE DEF q
    <2>2. AccessMode(q) = AccessMode(o)
      BY <1>1, <2>1 DEF AccessMode
    <2>3. CreationMode(q) = CreationMode(o)
      BY <1>1, <2>1 DEF CreationMode
    <2> QED
      BY <2>2, <2>3 DEF Flags, q
  <1>3. ASSUME o.create_new, NEW c \in BOOLEAN, NEW t \in BOOLEAN
        PROVE  Flags(o) = Flags([o EXCEPT !.create = c, !.truncate = t])
    <2> DEFINE q == [o EXCEPT !.create = c, !.truncate = t]
    <2>1. /\ q.read = o.read /\ q.append = o.append /\ q.write = o.write
          /\ q.create_new = o.create_new
      BY DEF OpenOptions
    <2> HIDE DEF q
    <2>2. AccessMode(q) = AccessMode(o)
      BY <1>1, <2>1 DEF AccessMode
    <2>3. CreationMode(q) = CreationMode(o)
      BY <1>1, <1>3, <2>1 DEF CreationMode
    <2> QED
      BY <2>2, <2>3 DEF Flags, q
  <1>4. Flags(o) \cap {"O_CREAT", "O_TRUNC"} # {} => "O_RDONLY" \notin Flags(o)
    <2>1. "O_RDONLY" \in Flags(o) => ~o.append /\ ~o.write
      BY <1>1 DEF Flags, AccessMode, CreationMode
    <2>2. "EINVAL" \notin CreationMode(o)
      BY DEF Flags
    <2>3. ASSUME "O_CREAT" \in Flags(o) \/ "O_TRUNC" \in Flags(o) PROVE o.write \/ o.append
      <3>1. "O_CREAT" \notin AccessMode(o) /\ "O_TRUNC" \notin AccessMode(o)
        BY <1>1 DEF AccessMode
      <3> QED
        BY <1>1, <2>2, <2>3, <3>1 DEF Flags, CreationMode
    <2> QED
      BY <2>1, <2>3
  <1> QED
    BY <1>2, <1>3, <1>4

\* Whatever the options, the flags of an open about to be made are those the
\* comments of the setters promise.
THEOREM OpensKeepTheirPromises == DescriptorsSpec => []OpensAsPromised
  <1>1. ASSUME DescriptorsInv, ResultsInv PROVE OpensAsPromised
    <2> SUFFICES ASSUME NEW f \in Fiber \ inflight, In(f, "open")
                 PROVE  LET o == frame[f].options IN
                        /\ o.append => Flags(o) = Flags([o EXCEPT !.write = ~@])
                        /\ o.create_new => \A c, t \in BOOLEAN :
                                              Flags(o) = Flags([o EXCEPT !.create = c, !.truncate = t])
                        /\ Flags(o) \cap {"O_CREAT", "O_TRUNC"} # {} => "O_RDONLY" \notin Flags(o)
      BY DEF OpensAsPromised
    <2>1. frame[f] # Idle /\ frame[f] \in Frame /\ OpOf(frame[f]) = "open"
      BY <1>1 DEF In, Op, OpOf, DescriptorsInv, FrameInv
    <2>2. frame[f].options \in OpenOptions
      BY <2>1 DEF Frame
    <2>3. "EINVAL" \notin Flags(frame[f].options)
      BY <1>1, <2>1 DEF ResultsInv, Fine
    <2> QED
      BY <2>2, <2>3, ValidOptions
  <1> QED
    BY <1>1, ResultsInvariant, PTL

=============================================================================
