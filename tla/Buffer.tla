------------------------------- MODULE Buffer -------------------------------
(***************************************************************************)
(* ucc::Buffer<CAP> (include/utils_cc/buffer.h): an array of bytes with a  *)
(* write and a read pointer, here their offsets in data.  A callback gets  *)
(* memory of the buffer and may call the buffer itself (Nested) before it  *)
(* returns, so writing and reading by callback are two steps each.  Bound: *)
(* no callback runs inside a callback.                                     *)
(***************************************************************************)
EXTENDS Naturals, Sequences

CONSTANTS CAP,
          Bytes,    \* the values of a byte
          Unset,    \* a byte of data that nobody has written
          Object,   \* the bytes of a std::function object
          Strings,  \* bound: the sequences of bytes that are written
          Nested    \* which calls a callback makes: "read", "write", "at"

ASSUME CapAssumption == CAP \in Nat
ASSUME BytesAssumption == Strings \cup {Object} \subseteq Seq(Bytes) /\ Object # <<>>

Sizes == 0 .. CAP   \* the lengths and offsets callers use
None == [fn |-> "none", from |-> 0, len |-> 0]
Smaller(x, y) == IF x <= y THEN x ELSE y
Larger(x, y) == IF x <= y THEN y ELSE x

VARIABLES
  data, w_ptr, r_ptr,
  on_buf,   \* the callback that runs, and the memory it was given
  seen,     \* history: how far the reader has got or has skipped to
  call      \* the last call: <<name, arguments, result, bytes read>>

memory == <<data, w_ptr>>
vars == <<memory, r_ptr, on_buf, seen, call>>

TypeOK ==
  /\ data \in [0 .. CAP - 1 -> Bytes \cup {Unset}]
  /\ w_ptr \in 0 .. CAP
  /\ r_ptr \in 0 .. w_ptr
  /\ on_buf \in [fn : {"none", "write", "read"}, from : 0 .. CAP, len : 0 .. CAP]

Init ==
  /\ data = [i \in 0 .. CAP - 1 |-> Unset]
  /\ w_ptr = 0 /\ r_ptr = 0
  /\ on_buf = None /\ seen = 0 /\ call = <<"new">>
-----------------------------------------------------------------------------
get_remain_data_size == w_ptr - r_ptr

\* memcpy() to and from data.
Copied(to, src) ==
  [i \in DOMAIN data |-> IF i \in to .. to + Len(src) - 1 THEN src[i - to + 1] ELSE data[i]]
Slice(from, to) == [k \in 1 .. to - from |-> data[from + k - 1]]

MayCall(kind) == on_buf = None \/ kind \in Nested
Fails(args) == call' = args /\ UNCHANGED <<memory, r_ptr, on_buf, seen>>

\* write(): from a pointer, or the bytes of a value.
Write(src) ==
  /\ MayCall("write")
  /\ \/ /\ Len(src) > CAP - w_ptr
        /\ Fails(<<"write", src, "E_BUF_OVERFLOW">>)
     \/ /\ Len(src) <= CAP - w_ptr
        /\ data' = Copied(w_ptr, src)
        /\ w_ptr' = w_ptr + Len(src)
        /\ call' = <<"write", src, "OK">>
        /\ UNCHANGED <<r_ptr, on_buf, seen>>

\* write_at(): w_ptr is moved, and moved back to restored if write() fails.
Rewrite(src, offset, restored) ==
  /\ MayCall("at")
  /\ \/ offset >= CAP /\ Fails(<<"write_at", src, offset, "E_ARG">>)
     \/ /\ offset < CAP /\ Len(src) > CAP - offset
        /\ w_ptr' = restored
        /\ call' = <<"write_at", src, offset, "E_BUF_OVERFLOW">>
        /\ UNCHANGED <<data, r_ptr, on_buf, seen>>
     \/ /\ offset < CAP /\ Len(src) <= CAP - offset
        /\ data' = Copied(offset, src)
        /\ w_ptr' = offset + Len(src)
        /\ r_ptr' = 0 /\ seen' = 0
        /\ call' = <<"write_at", src, offset, "OK">>
        /\ UNCHANGED on_buf

\* Mutant of WriteAt: w_ptr stays at the offset after a failure.
WriteAtUnrestored(src, offset) == Rewrite(src, offset, offset)

WriteAt(src, offset) == Rewrite(src, offset, w_ptr)

\* write_at() with a callback: its write(on_buf) is write<T>(T &&), so that
\* the bytes of the std::function are written and it is not called.
WriteAtOnBuf(offset) == WriteAt(Object, offset)

\* len bytes from a place that is before w_ptr, or as many as there are.
Deliver(from, len, args) ==
  LET to == Smaller(from + len, w_ptr)
  IN  /\ len > 0 /\ from < w_ptr
      /\ r_ptr' = to /\ seen' = Larger(seen, to)
      /\ call' = Append(args, Slice(from, to))
      /\ UNCHANGED <<memory, on_buf>>

\* Mutant of Read: what is left is not looked at.
ReadOn(len) ==
  /\ MayCall("read") /\ len > 0
  /\ r_ptr' = Smaller(r_ptr + len, CAP) /\ seen' = Larger(seen, r_ptr')
  /\ call' = <<"read", len, "OK", Slice(r_ptr, r_ptr')>>
  /\ UNCHANGED <<memory, on_buf>>

Read(len) ==
  /\ MayCall("read")
  /\ \/ Deliver(r_ptr, len, <<"read", len, "OK">>)
     \/ /\ len = 0 \/ get_remain_data_size = 0
        /\ Fails(<<"read", len, "E_ARG">>)

\* read(T &): all bytes of the value, or none.
ReadValue(size) ==
  /\ MayCall("read")
  /\ \/ get_remain_data_size >= size /\ Deliver(r_ptr, size, <<"read_value", size, "OK">>)
     \/ get_remain_data_size < size /\ Fails(<<"read_value", size, "E_ARG">>)

\* read_at(): r_ptr is moved, and moved back if there is nothing to read.
ReadAt(len, offset) ==
  /\ MayCall("at")
  /\ \/ Deliver(offset, len, <<"read_at", len, offset, "OK">>)
     \/ /\ len = 0 \/ offset >= w_ptr
        /\ Fails(<<"read_at", len, offset, "E_GENERAL">>)

ReadValueAt(size, offset) ==
  /\ MayCall("at")
  /\ \/ offset + size <= w_ptr /\ Deliver(offset, size, <<"read_value_at", size, offset, "OK">>)
     \/ offset + size > w_ptr /\ Fails(<<"read_value_at", size, offset, "E_GENERAL">>)

\* read_at() with a callback: its read(on_buf) is read<T>(T &), which reads
\* bytes into the std::function.  When that object is destroyed with these
\* bytes in it, the process may end; here it goes on.
ReadAtOnBuf(offset) == ReadValueAt(Len(Object), offset)
-----------------------------------------------------------------------------
\* write() with a callback: it gets all the room behind w_ptr.
WriteOnBuf ==
  /\ on_buf = None
  /\ on_buf' = [fn |-> "write", from |-> w_ptr, len |-> CAP - w_ptr]
  /\ UNCHANGED <<memory, r_ptr, seen, call>>

\* It has put src there and returns; w_ptr moves by the length it was given.
WriteOnBufReturns(src, ok) ==
  /\ on_buf.fn = "write"
  /\ Len(src) <= on_buf.len
  /\ data' = Copied(on_buf.from, src)
  /\ w_ptr' = IF ok THEN w_ptr + on_buf.len ELSE w_ptr
  /\ on_buf' = None
  /\ call' = <<"write_on_buf", IF ok THEN "OK" ELSE "failed">>
  /\ UNCHANGED <<r_ptr, seen>>

\* read() with a callback: it gets everything up to w_ptr, if there is any.
ReadOnBuf ==
  /\ on_buf = None
  /\ \/ get_remain_data_size = 0 /\ Fails(<<"read_on_buf", "E_ARG">>)
     \/ /\ get_remain_data_size > 0
        /\ on_buf' = [fn |-> "read", from |-> r_ptr, len |-> get_remain_data_size]
        /\ seen' = w_ptr
        /\ call' = <<"on_buf", Slice(r_ptr, w_ptr)>>
        /\ UNCHANGED <<memory, r_ptr>>

\* It returns; if it has succeeded, r_ptr moves to `to'.
ReadMoves(ok, to) ==
  /\ on_buf.fn = "read"
  /\ r_ptr' = IF ok THEN to ELSE r_ptr
  /\ on_buf' = None
  /\ call' = <<"read_on_buf", IF ok THEN "OK" ELSE "failed">>
  /\ UNCHANGED <<memory, seen>>

\* Mutant of ReadOnBufReturns: r_ptr moves by the length read, like in read().
ReadMovesByLength(ok) == ReadMoves(ok, r_ptr + on_buf.len)

ReadOnBufReturns(ok) == ReadMoves(ok, w_ptr)

Next ==
  \/ \E src \in Strings :
       \/ Write(src)
       \/ \E offset \in Sizes : WriteAt(src, offset)
       \/ \E ok \in BOOLEAN : WriteOnBufReturns(src, ok)
  \/ \E len \in Sizes : Read(len) \/ (len > 0 /\ ReadValue(len))
  \/ \E len, offset \in Sizes :
       ReadAt(len, offset) \/ (len > 0 /\ ReadValueAt(len, offset))
  \/ \E offset \in Sizes : WriteAtOnBuf(offset) \/ ReadAtOnBuf(offset)
  \/ WriteOnBuf \/ ReadOnBuf
  \/ \E ok \in BOOLEAN : ReadOnBufReturns(ok)

Spec == Init /\ [][Next]_vars
-----------------------------------------------------------------------------
\* The reader is given every byte: r_ptr is never beyond what was delivered
\* or what a read_at() skipped, though a callback's r_ptr moves only when it
\* returns, to where w_ptr is then, and reads inside it move r_ptr, too.
NothingSkipped == r_ptr <= seen

\* The buffer is a tape: failed calls restore both pointers, every call has
\* room or data exactly when its sizes say so, and bytes come out in order.
Abstract == INSTANCE Tape WITH content <- Slice(0, w_ptr), cursor <- r_ptr,
                               Strings <- Strings \cup {Object},
                               Sizes <- Sizes \cup {Len(Object)}

TapeSpec == Abstract!Spec
=============================================================================
