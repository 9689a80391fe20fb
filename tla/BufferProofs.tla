---------------------------- MODULE BufferProofs ----------------------------
(***************************************************************************)
(* A buffer whose callbacks only read from it is a tape, for any capacity, *)
(* any bytes and any object of std::function.                              *)
(***************************************************************************)
EXTENDS Buffer, SequenceTheorems, TLAPS

\* What is assumed of the callbacks: they do not write, and do not jump.
OnlyReading == Nested \subseteq {"read"}

Cells == Bytes \cup {Unset}

\* While a callback writes, the memory it was given is all that is behind
\* w_ptr; while one reads, all that is before w_ptr counts as seen.
IInv ==
  /\ TypeOK
  /\ seen \in Nat /\ r_ptr <= seen
  /\ on_buf.fn = "write" => on_buf.from = w_ptr /\ on_buf.len = CAP - w_ptr
  /\ on_buf.fn = "read" => w_ptr <= seen

LEMMA Lengths ==
  ASSUME NEW src \in Strings \cup {Object}
  PROVE  /\ src \in Seq(Bytes) /\ Len(src) \in Nat
         /\ \A k \in 1 .. Len(src) : src[k] \in Bytes
BY BytesAssumption, LenProperties, ElementOfSeq

\* memcpy() to data changes the bytes it is told to, and these only.
LEMMA CopiedBytes ==
  ASSUME TypeOK, NEW src \in Strings \cup {Object}, NEW to \in Nat
  PROVE  /\ Copied(to, src) \in [0 .. CAP - 1 -> Cells]
         /\ \A i \in 0 .. CAP - 1 :
              Copied(to, src)[i] = IF to <= i /\ i <= to + Len(src) - 1
                                   THEN src[i - to + 1] ELSE data[i]
<1>1. /\ src \in Seq(Bytes) /\ Len(src) \in Nat
      /\ \A k \in 1 .. Len(src) : src[k] \in Bytes
  BY Lengths
<1>2. DOMAIN data = 0 .. CAP - 1 /\ \A i \in 0 .. CAP - 1 : data[i] \in Cells
  BY DEF TypeOK, Cells
<1>3. ASSUME NEW i \in 0 .. CAP - 1
      PROVE  (IF i \in to .. to + Len(src) - 1 THEN src[i - to + 1] ELSE data[i]) \in Cells
  <2>1. CASE i \in to .. to + Len(src) - 1
    <3>1. i - to + 1 \in 1 .. Len(src)
      BY <1>1, <2>1, CapAssumption
    <3> QED
      BY <1>1, <2>1, <3>1 DEF Cells
  <2>2. CASE ~(i \in to .. to + Len(src) - 1)
    BY <1>2, <2>2
  <2> QED
    BY <2>1, <2>2
<1> QED
  BY <1>1, <1>2, <1>3, CapAssumption DEF Copied

LEMMA InitIInv == Init => IInv
BY CapAssumption DEF Init, IInv, TypeOK, None, Cells

\* The pointers stay in order through a successful read.
LEMMA DeliverIInv ==
  ASSUME IInv, NEW from \in Nat, NEW len \in Nat, NEW args, Deliver(from, len, args)
  PROVE  IInv'
<1>1. w_ptr \in Nat /\ w_ptr <= CAP /\ CAP \in Nat /\ seen \in Nat
  BY CapAssumption DEF IInv, TypeOK
<1>2. r_ptr' \in 0 .. w_ptr /\ r_ptr' <= seen' /\ seen' \in Nat /\ seen <= seen'
  BY <1>1 DEF Deliver, Smaller, Larger
<1>3. UNCHANGED <<data, w_ptr, on_buf>>
  BY DEF Deliver, memory
<1> QED
  BY <1>1, <1>2, <1>3 DEF IInv, TypeOK

LEMMA UnchangedIInv ==
  ASSUME IInv, UNCHANGED <<memory, r_ptr, on_buf, seen>>
  PROVE  IInv'
BY DEF IInv, TypeOK, memory

LEMMA RewriteIInv ==
  ASSUME IInv, OnlyReading, NEW src \in Strings \cup {Object}, NEW offset \in Nat,
         WriteAt(src, offset)
  PROVE  IInv'
<1>1. CapAssumption /\ Len(src) \in Nat /\ on_buf = None
  BY CapAssumption, Lengths DEF WriteAt, Rewrite, MayCall, OnlyReading
<1>2. CASE offset < CAP /\ Len(src) <= CAP - offset
  <2>1. /\ data' = Copied(offset, src) /\ w_ptr' = offset + Len(src)
        /\ r_ptr' = 0 /\ seen' = 0 /\ on_buf' = on_buf
    BY <1>1, <1>2 DEF WriteAt, Rewrite, Fails
  <2>2. data' \in [0 .. CAP - 1 -> Cells]
    BY <2>1, CopiedBytes DEF IInv
  <2> QED
    BY <1>1, <1>2, <2>1, <2>2 DEF IInv, TypeOK, None, Cells, CapAssumption
<1>3. CASE ~(offset < CAP /\ Len(src) <= CAP - offset)
  <2>1. UNCHANGED <<memory, r_ptr, on_buf, seen>>
    BY <1>1, <1>3 DEF WriteAt, Rewrite, Fails, memory, CapAssumption
  <2> QED
    BY <2>1, UnchangedIInv
<1> QED
  BY <1>2, <1>3

LEMMA StepIInv ==
  ASSUME OnlyReading, IInv, [Next]_vars
  PROVE  IInv'
<1>a. CAP \in Nat /\ Sizes \subseteq Nat /\ Len(Object) \in Nat
  BY CapAssumption, Lengths DEF Sizes
<1>b. /\ w_ptr \in 0 .. CAP /\ r_ptr \in 0 .. w_ptr /\ seen \in Nat /\ r_ptr <= seen
      /\ data \in [0 .. CAP - 1 -> Cells]
  BY DEF IInv, TypeOK, Cells
<1>1. ASSUME NEW src \in Strings, Write(src) PROVE IInv'
  <2>1. on_buf = None /\ Len(src) \in Nat
    BY <1>1, Lengths DEF Write, MayCall, OnlyReading
  <2>2. CASE Len(src) <= CAP - w_ptr
    <3>1. /\ data' = Copied(w_ptr, src) /\ w_ptr' = w_ptr + Len(src)
          /\ UNCHANGED <<r_ptr, on_buf, seen>>
      BY <1>1, <1>a, <1>b, <2>1, <2>2 DEF Write
    <3>2. data' \in [0 .. CAP - 1 -> Cells]
      BY <1>b, <3>1, CopiedBytes DEF IInv
    <3> QED
      BY <1>a, <1>b, <2>1, <2>2, <3>1, <3>2 DEF IInv, TypeOK, None, Cells
  <2>3. CASE ~(Len(src) <= CAP - w_ptr)
    BY <1>1, <2>3, UnchangedIInv DEF Write, Fails
  <2> QED
    BY <2>2, <2>3
<1>2. ASSUME NEW src \in Strings \cup {Object}, NEW offset \in Sizes, WriteAt(src, offset)
      PROVE  IInv'
  BY <1>2, <1>a, RewriteIInv
<1>3. ASSUME NEW src \in Strings, NEW ok \in BOOLEAN, WriteOnBufReturns(src, ok) PROVE IInv'
  <2>1. on_buf.from = w_ptr /\ on_buf.len = CAP - w_ptr
    BY <1>3 DEF WriteOnBufReturns, IInv
  <2>2. /\ data' = Copied(w_ptr, src) /\ w_ptr' \in {w_ptr, CAP} /\ on_buf' = None
        /\ UNCHANGED <<r_ptr, seen>>
    BY <1>3, <1>a, <1>b, <2>1 DEF WriteOnBufReturns
  <2>3. data' \in [0 .. CAP - 1 -> Cells]
    BY <1>b, <2>2, CopiedBytes DEF IInv
  <2> QED
    BY <1>a, <1>b, <2>2, <2>3 DEF IInv, TypeOK, None, Cells
<1>4. ASSUME NEW from \in Nat, NEW len \in Nat, NEW args, Deliver(from, len, args) PROVE IInv'
  BY <1>4, DeliverIInv
<1>5. ASSUME NEW len \in Sizes, Read(len) \/ ReadValue(len) PROVE IInv'
  BY <1>4, <1>5, <1>a, <1>b, UnchangedIInv DEF Read, ReadValue, Fails
<1>6. ASSUME NEW len \in Nat, NEW offset \in Sizes, ReadAt(len, offset) \/ ReadValueAt(len, offset)
      PROVE  IInv'
  BY <1>4, <1>6, <1>a, <1>b, UnchangedIInv DEF ReadAt, ReadValueAt, Fails
<1>7. CASE WriteOnBuf
  <2>1. on_buf' = [fn |-> "write", from |-> w_ptr, len |-> CAP - w_ptr]
    BY <1>7 DEF WriteOnBuf
  <2>2. CAP - w_ptr \in 0 .. CAP
    BY <1>a, <1>b
  <2>3. on_buf' \in [fn : {"none", "write", "read"}, from : 0 .. CAP, len : 0 .. CAP]
    BY <1>b, <2>1, <2>2
  <2> QED
    BY <1>7, <1>b, <2>1, <2>3 DEF WriteOnBuf, IInv, TypeOK, memory, Cells
<1>8. CASE ReadOnBuf
  <2>1. CASE Fails(<<"read_on_buf", "E_ARG">>)
    BY <2>1, UnchangedIInv DEF Fails
  <2>2. CASE ~Fails(<<"read_on_buf", "E_ARG">>)
    <3>1. /\ on_buf' = [fn |-> "read", from |-> r_ptr, len |-> w_ptr - r_ptr]
          /\ seen' = w_ptr /\ UNCHANGED <<data, w_ptr, r_ptr>>
      BY <1>8, <2>2 DEF ReadOnBuf, get_remain_data_size, memory
    <3>2. r_ptr \in 0 .. CAP /\ w_ptr - r_ptr \in 0 .. CAP
      BY <1>a, <1>b
    <3>3. on_buf' \in [fn : {"none", "write", "read"}, from : 0 .. CAP, len : 0 .. CAP]
      BY <3>1, <3>2
    <3> QED
      BY <1>a, <1>b, <3>1, <3>3 DEF IInv, TypeOK, Cells
  <2> QED
    BY <2>1, <2>2
<1>9. ASSUME NEW ok \in BOOLEAN, ReadOnBufReturns(ok) PROVE IInv'
  <2>1. w_ptr <= seen
    BY <1>9 DEF ReadOnBufReturns, ReadMoves, IInv
  <2>2. r_ptr' \in {r_ptr, w_ptr} /\ on_buf' = None /\ UNCHANGED <<data, w_ptr, seen>>
    BY <1>9 DEF ReadOnBufReturns, ReadMoves, memory
  <2> QED
    BY <1>a, <1>b, <2>1, <2>2 DEF IInv, TypeOK, None, Cells
<1>10. CASE UNCHANGED vars
  BY <1>10, UnchangedIInv DEF vars
<1>11. CASE Next
  BY <1>1, <1>2, <1>3, <1>5, <1>6, <1>7, <1>8, <1>9, <1>11, <1>a
     DEF Next, WriteAtOnBuf, ReadAtOnBuf
<1> QED
  BY <1>10, <1>11

LEMMA Invariance ==
  ASSUME OnlyReading
  PROVE  Spec => []IInv
<1>1. IInv /\ [Next]_vars => IInv'
  BY StepIInv
<1> QED
  BY <1>1, InitIInv, PTL DEF Spec

\* The pointers stay inside the buffer and r_ptr never passes w_ptr, whatever
\* the sizes and offsets of the calls, if callbacks only read.
THEOREM TypeCorrect ==
  ASSUME OnlyReading
  PROVE  Spec => []TypeOK
<1>1. IInv => TypeOK
  BY DEF IInv
<1> QED
  BY <1>1, Invariance, PTL

\* No byte that was written is passed over by the reader.
THEOREM NothingIsSkipped ==
  ASSUME OnlyReading
  PROVE  Spec => []NothingSkipped
<1>1. IInv => NothingSkipped
  BY DEF IInv, NothingSkipped
<1> QED
  BY <1>1, Invariance, PTL
-----------------------------------------------------------------------------
(* Parts of data as sequences.                                              *)

\* What the cells d hold between two offsets.
Part(d, from, to) == [k \in 1 .. to - from |-> d[from + k - 1]]

LEMMA Parts ==
  ASSUME NEW d \in [0 .. CAP - 1 -> Cells], NEW from \in Nat, NEW to \in Nat,
         from <= to, to <= CAP
  PROVE  /\ Part(d, from, to) \in Seq(Cells)
         /\ Len(Part(d, from, to)) = to - from
         /\ \A k \in 1 .. to - from : Part(d, from, to)[k] = d[from + k - 1]
<1>1. to - from \in Nat
  OBVIOUS
<1>2. \A k \in 1 .. to - from : d[from + k - 1] \in Cells
  BY CapAssumption
<1>3. Part(d, from, to) \in [1 .. to - from -> Cells]
  BY <1>2 DEF Part
<1>4. Part(d, from, to) \in Seq(Cells) /\ Len(Part(d, from, to)) = to - from
  BY <1>1, <1>3
<1> QED
  BY <1>4 DEF Part

LEMMA PartOfPart ==
  ASSUME NEW d \in [0 .. CAP - 1 -> Cells], NEW from \in Nat, NEW to \in Nat, NEW end \in Nat,
         from <= to, to <= end, end <= CAP
  PROVE  SubSeq(Part(d, 0, end), from + 1, to) = Part(d, from, to)
<1> DEFINE s == Part(d, 0, end)
<1>0. to <= CAP /\ 0 <= end /\ 0 \in Nat
  BY CapAssumption
<1>1. s \in Seq(Cells) /\ Len(s) = end /\ \A k \in 1 .. end : s[k] = d[k - 1] /\ s[k] \in Cells
  <2>1. s \in Seq(Cells) /\ Len(s) = end - 0 /\ \A k \in 1 .. end - 0 : s[k] = d[0 + k - 1]
    BY <1>0, Parts
  <2>2. \A k \in 1 .. Len(s) : s[k] \in Cells
    BY <2>1, ElementOfSeq
  <2> HIDE DEF s
  <2> QED
    BY <2>1, <2>2
<1> HIDE DEF s
<1>2. /\ SubSeq(s, from + 1, to) \in Seq(Cells)
      /\ Len(SubSeq(s, from + 1, to)) = to - from
      /\ \A k \in 1 .. to - from : SubSeq(s, from + 1, to)[k] = s[from + k]
  <2>1. \A k \in from + 1 .. to : s[k] \in Cells
    BY <1>1
  <2>2. /\ SubSeq(s, from + 1, to) \in Seq(Cells)
        /\ Len(SubSeq(s, from + 1, to)) = IF from + 1 <= to THEN to - (from + 1) + 1 ELSE 0
        /\ \A k \in 1 .. to - (from + 1) + 1 : SubSeq(s, from + 1, to)[k] = s[from + 1 + k - 1]
    BY <2>1, SubSeqProperties
  <2> QED
    BY <2>2
<1>3. /\ Part(d, from, to) \in Seq(Cells)
      /\ Len(Part(d, from, to)) = to - from
      /\ \A k \in 1 .. to - from : Part(d, from, to)[k] = d[from + k - 1]
  BY <1>0, Parts
<1>4. \A k \in 1 .. to - from : SubSeq(s, from + 1, to)[k] = Part(d, from, to)[k]
  <2>1. ASSUME NEW k \in 1 .. to - from
        PROVE  SubSeq(s, from + 1, to)[k] = Part(d, from, to)[k]
    <3>1. from + k \in 1 .. end /\ from + k - 1 = (from + k) - 1
      OBVIOUS
    <3> QED
      BY <1>1, <1>2, <1>3, <3>1
  <2> QED
    BY <2>1
<1>5. SubSeq(s, from + 1, to) = Part(d, from, to)
  BY <1>2, <1>3, <1>4, SeqEqual
<1> QED
  BY <1>5 DEF s

\* What memcpy() has put into data is there, as a part of it.
LEMMA PartCopied ==
  ASSUME TypeOK, NEW src \in Strings \cup {Object}, NEW to \in Nat, to + Len(src) <= CAP
  PROVE  Part(Copied(to, src), to, to + Len(src)) = src
<1>1. /\ src \in Seq(Bytes) /\ Len(src) \in Nat
  BY Lengths
<1>2. src \in Seq(Cells)
  BY <1>1, SeqMonotonic DEF Cells
<1> DEFINE d == Copied(to, src)
<1>3. /\ d \in [0 .. CAP - 1 -> Cells]
      /\ \A i \in 0 .. CAP - 1 :
           d[i] = IF to <= i /\ i <= to + Len(src) - 1 THEN src[i - to + 1] ELSE data[i]
  BY CopiedBytes
<1> HIDE DEF d
<1>4. /\ Part(d, to, to + Len(src)) \in Seq(Cells)
      /\ Len(Part(d, to, to + Len(src))) = Len(src)
      /\ \A k \in 1 .. Len(src) : Part(d, to, to + Len(src))[k] = d[to + k - 1]
  <2> DEFINE end == to + Len(src)
  <2>1. end \in Nat /\ to <= end /\ end - to = Len(src)
    BY <1>1
  <2> HIDE DEF end
  <2>2. /\ Part(d, to, end) \in Seq(Cells)
        /\ Len(Part(d, to, end)) = end - to
        /\ \A k \in 1 .. end - to : Part(d, to, end)[k] = d[to + k - 1]
    BY <1>3, <2>1, Parts DEF end
  <2> QED
    BY <2>1, <2>2 DEF end
<1>5. \A k \in 1 .. Len(src) : d[to + k - 1] = src[k]
  <2>1. ASSUME NEW k \in 1 .. Len(src) PROVE d[to + k - 1] = src[k]
    <3>1. to + k - 1 \in 0 .. CAP - 1 /\ to <= to + k - 1 /\ to + k - 1 <= to + Len(src) - 1
          /\ (to + k - 1) - to + 1 = k
      BY <1>1, CapAssumption
    <3> QED
      BY <1>3, <3>1
  <2> QED
    BY <2>1
<1>6. Part(d, to, to + Len(src)) = src
  BY <1>2, <1>4, <1>5, SeqEqual
<1> QED
  BY <1>6 DEF d
-----------------------------------------------------------------------------
(* Every call is a call of the tape.                                        *)

\* What call records: its last entries after those of args.
LEMMA Appended ==
  ASSUME NEW S, NEW args \in Seq(S), NEW last
  PROVE  /\ Len(Append(args, last)) = Len(args) + 1
         /\ \A k \in 1 .. Len(args) : Append(args, last)[k] = args[k]
         /\ Append(args, last)[Len(args) + 1] = last
<1>1. args \in Seq(S \cup {last})
  BY SeqMonotonic
<1> QED
  BY <1>1, AppendProperties

content == Slice(0, w_ptr)

\* The content of the tape is the part of data before w_ptr.
LEMMA Content ==
  ASSUME IInv
  PROVE  /\ content = Part(data, 0, w_ptr) /\ content \in Seq(Cells) /\ Len(content) = w_ptr
         /\ data \in [0 .. CAP - 1 -> Cells] /\ w_ptr \in Nat /\ w_ptr <= CAP
         /\ \A from, to \in Nat : from <= to /\ to <= w_ptr =>
              SubSeq(content, from + 1, to) = Slice(from, to)
<1>1. data \in [0 .. CAP - 1 -> Cells] /\ w_ptr \in Nat /\ w_ptr <= CAP /\ 0 <= w_ptr /\ 0 \in Nat
  BY CapAssumption DEF IInv, TypeOK, Cells
<1>2. \A from, to : Slice(from, to) = Part(data, from, to)
  BY DEF Slice, Part
<1>3. Part(data, 0, w_ptr) \in Seq(Cells) /\ Len(Part(data, 0, w_ptr)) = w_ptr - 0
  BY <1>1, Parts
<1>4. ASSUME NEW from \in Nat, NEW to \in Nat, from <= to, to <= w_ptr
      PROVE  SubSeq(content, from + 1, to) = Slice(from, to)
  BY <1>1, <1>2, <1>4, PartOfPart DEF content
<1> QED
  BY <1>1, <1>2, <1>3, <1>4 DEF content

LEMMA ContentAfter ==
  ASSUME IInv'
  PROVE  /\ content' = Part(data', 0, w_ptr') /\ content' \in Seq(Cells) /\ Len(content') = w_ptr'
         /\ data' \in [0 .. CAP - 1 -> Cells] /\ w_ptr' \in Nat /\ w_ptr' <= CAP
<1>1. /\ data' \in [0 .. CAP - 1 -> Cells]
      /\ w_ptr' \in Nat /\ w_ptr' <= CAP /\ 0 <= w_ptr' /\ 0 \in Nat
  BY CapAssumption DEF IInv, TypeOK, Cells
<1>2. content' = Part(data', 0, w_ptr')
  BY DEF Slice, Part, content
<1>3. Part(data', 0, w_ptr') \in Seq(Cells) /\ Len(Part(data', 0, w_ptr')) = w_ptr' - 0
  BY <1>1, Parts
<1> QED
  BY <1>1, <1>2, <1>3

LEMMA WriteIsAppend ==
  ASSUME IInv, IInv', NEW src \in Strings, Len(src) <= CAP - w_ptr,
         data' = Copied(w_ptr, src), w_ptr' = w_ptr + Len(src)
  PROVE  content' = content \o src
<1>a. Len(src) \in Nat /\ src \in Seq(Cells) /\ CAP \in Nat
  BY Lengths, SeqMonotonic, CapAssumption DEF Cells
<1>b. /\ content = Part(data, 0, w_ptr) /\ content \in Seq(Cells) /\ Len(content) = w_ptr
      /\ data \in [0 .. CAP - 1 -> Cells] /\ w_ptr \in Nat /\ w_ptr <= CAP
  BY Content
<1>c. /\ content' = Part(data', 0, w_ptr') /\ content' \in Seq(Cells) /\ Len(content') = w_ptr'
      /\ data' \in [0 .. CAP - 1 -> Cells] /\ w_ptr' \in Nat /\ w_ptr' <= CAP
  BY ContentAfter
<1>1. /\ content \o src \in Seq(Cells) /\ Len(content \o src) = w_ptr + Len(src)
      /\ \A k \in 1 .. w_ptr + Len(src) :
           (content \o src)[k] = IF k <= w_ptr THEN content[k] ELSE src[k - w_ptr]
  BY <1>a, <1>b, ConcatProperties
<1>2. ASSUME NEW k \in 1 .. w_ptr + Len(src) PROVE content'[k] = (content \o src)[k]
  <2>1. content'[k] = data'[k - 1]
    BY <1>a, <1>b, <1>c DEF Part
  <2>2. k - 1 \in 0 .. CAP - 1
    BY <1>a, <1>b
  <2>3. data'[k - 1] = IF w_ptr <= k - 1 /\ k - 1 <= w_ptr + Len(src) - 1
                       THEN src[k - 1 - w_ptr + 1] ELSE data[k - 1]
    BY <2>2, <1>b, CopiedBytes DEF IInv
  <2>4. CASE k <= w_ptr
    <3>1. content[k] = data[k - 1]
      BY <1>b, <2>4 DEF Part
    <3>2. ~(w_ptr <= k - 1)
      BY <1>b, <2>4
    <3> QED
      BY <1>1, <2>1, <2>3, <2>4, <3>1, <3>2
  <2>5. CASE ~(k <= w_ptr)
    <3>1. w_ptr <= k - 1 /\ k - 1 <= w_ptr + Len(src) - 1 /\ k - 1 - w_ptr + 1 = k - w_ptr
      BY <1>a, <1>b, <2>5
    <3> QED
      BY <1>1, <2>1, <2>3, <2>5, <3>1
  <2> QED
    BY <2>4, <2>5
<1> QED
  BY <1>1, <1>2, <1>c, SeqEqual

LEMMA RewriteIsPut ==
  ASSUME IInv, IInv', NEW src \in Strings \cup {Object}, NEW offset \in Nat,
         offset < CAP, Len(src) <= CAP - offset,
         data' = Copied(offset, src), w_ptr' = offset + Len(src)
  PROVE  /\ Len(content') = offset + Len(src)
         /\ \A n \in Nat : n <= offset /\ n <= Len(content) =>
              SubSeq(content', 1, n) = SubSeq(content, 1, n)
         /\ SubSeq(content', offset + 1, offset + Len(src)) = src
<1>a. Len(src) \in Nat /\ CAP \in Nat /\ 0 \in Nat
  BY Lengths, CapAssumption
<1>b. /\ content = Part(data, 0, w_ptr) /\ content \in Seq(Cells) /\ Len(content) = w_ptr
      /\ data \in [0 .. CAP - 1 -> Cells] /\ w_ptr \in Nat /\ w_ptr <= CAP
  BY Content
<1>c. /\ content' = Part(data', 0, w_ptr') /\ content' \in Seq(Cells) /\ Len(content') = w_ptr'
      /\ data' \in [0 .. CAP - 1 -> Cells] /\ w_ptr' \in Nat /\ w_ptr' <= CAP
  BY ContentAfter
<1>1. ASSUME NEW n \in Nat, n <= offset, n <= Len(content)
      PROVE  SubSeq(content', 1, n) = SubSeq(content, 1, n)
  <2>1. n <= w_ptr /\ n <= w_ptr'
    BY <1>a, <1>b, <1>1
  <2>2. ASSUME NEW i \in 0 .. n - 1 PROVE data'[i] = data[i]
    <3>1. i \in 0 .. CAP - 1 /\ ~(offset <= i)
      BY <1>a, <1>1
    <3> QED
      BY <3>1, CopiedBytes DEF IInv
  <2> DEFINE d == data'
             e == data
             m == w_ptr'
             w == w_ptr
  <2>3. /\ d \in [0 .. CAP - 1 -> Cells] /\ e \in [0 .. CAP - 1 -> Cells]
        /\ m \in Nat /\ w \in Nat /\ m <= CAP /\ w <= CAP /\ n <= m /\ n <= w
        /\ 0 <= n /\ \A i \in 0 .. n - 1 : d[i] = e[i]
    BY <1>b, <1>c, <2>1, <2>2
  <2>4. content' = Part(d, 0, m) /\ content = Part(e, 0, w)
    BY <1>b, <1>c
  <2> HIDE DEF d, e, m, w
  <2>5. SubSeq(Part(d, 0, m), 0 + 1, n) = Part(d, 0, n)
    BY <1>a, <2>3, PartOfPart
  <2>6. SubSeq(Part(e, 0, w), 0 + 1, n) = Part(e, 0, n)
    BY <1>a, <2>3, PartOfPart
  <2>7. Part(d, 0, n) = Part(e, 0, n)
    <3>1. \A k \in 1 .. n - 0 : d[0 + k - 1] = e[0 + k - 1]
      BY <2>3
    <3> QED
      BY <3>1 DEF Part
  <2> QED
    BY <2>4, <2>5, <2>6, <2>7
<1>2. SubSeq(content', offset + 1, offset + Len(src)) = src
  <2>1. offset + Len(src) \in Nat /\ offset <= offset + Len(src) /\ offset + Len(src) <= CAP
    BY <1>a
  <2>2. Part(data', offset, offset + Len(src)) = src
    BY <2>1, PartCopied DEF IInv
  <2> DEFINE end == offset + Len(src)
  <2>3. SubSeq(Part(data', 0, end), offset + 1, end) = Part(data', offset, end)
    <3> HIDE DEF end
    <3>1. end \in Nat /\ offset <= end /\ end <= end /\ end <= CAP
      BY <2>1 DEF end
    <3> QED
      BY <1>c, <3>1, PartOfPart
  <2> QED
    BY <1>c, <2>2, <2>3
<1> QED
  BY <1>1, <1>2, <1>c

LEMMA SameContent ==
  UNCHANGED memory => UNCHANGED content
BY DEF memory, content, Slice

\* A read takes what there is, of the length asked for, from the tape.
LEMMA DeliverIsTake ==
  ASSUME IInv, NEW S, NEW args \in Seq(S), Len(args) \in Nat \ {0}, args[Len(args)] = "OK",
         NEW from \in Nat, NEW len \in Nat, NEW whole \in BOOLEAN,
         whole => from + len <= w_ptr, Deliver(from, len, args)
  PROVE  /\ Abstract!Take(from, len, whole)
         /\ \A k \in 1 .. Len(args) : call'[k] = args[k]
<1> DEFINE to == Smaller(from + len, w_ptr)
           rest == w_ptr - from
<1>a. Len(content) = w_ptr /\ w_ptr \in Nat
  BY Content
<1>1. /\ len > 0 /\ from < w_ptr /\ r_ptr' = to /\ call' = Append(args, Slice(from, to))
      /\ UNCHANGED <<memory, on_buf>>
  BY DEF Deliver
<1>2. /\ to \in Nat /\ from <= to /\ to <= w_ptr
      /\ to = from + Abstract!Smaller(len, rest)
      /\ whole => len <= rest
  BY <1>a, <1>1 DEF Smaller, Abstract!Smaller
<1> HIDE DEF to
<1>3. Slice(from, to) = SubSeq(content, from + 1, to)
  BY <1>2, Content
<1>4. /\ Len(call') = Len(args) + 1 /\ call'[Len(args) + 1] = Slice(from, to)
      /\ \A k \in 1 .. Len(args) : call'[k] = args[k]
  BY <1>1, Appended
<1>5. call'[Len(call') - 1] = "OK" /\ call'[Len(call')] = SubSeq(content, from + 1, to)
  BY <1>3, <1>4
<1>6. UNCHANGED content
  BY <1>1, SameContent
<1>7. Abstract!Rest(from) = rest
  BY <1>a DEF Abstract!Rest, content
<1> QED
  BY <1>a, <1>1, <1>2, <1>4, <1>5, <1>6, <1>7 DEF Abstract!Take, content

LEMMA ThreeEntries ==
  ASSUME NEW a, NEW b, NEW c
  PROVE  LET t == <<a, b, c>>
         IN  t \in Seq({a, b, c}) /\ Len(t) = 3 /\ t[1] = a /\ t[2] = b /\ t[3] = c
OBVIOUS

LEMMA FourEntries ==
  ASSUME NEW a, NEW b, NEW c, NEW d
  PROVE  LET t == <<a, b, c, d>>
         IN  t \in Seq({a, b, c, d}) /\ Len(t) = 4 /\ t[1] = a /\ t[2] = b /\ t[3] = c /\ t[4] = d
OBVIOUS

\* The sizes and offsets of the tape's calls.
Lens == Sizes \cup {Len(Object)}

LEMMA ReadIsTake ==
  ASSUME IInv, NEW len \in Lens, NEW name, NEW whole \in BOOLEAN,
         Deliver(r_ptr, len, <<name, len, "OK">>), whole => r_ptr + len <= w_ptr
  PROVE  call'[1] = name /\ call'[2] = len /\ Abstract!Take(r_ptr, len, whole)
<1> DEFINE args == <<name, len, "OK">>
<1>1. /\ args \in Seq({name, len, "OK"}) /\ Len(args) = 3
      /\ args[1] = name /\ args[2] = len /\ args[3] = "OK"
  BY ThreeEntries
<1>2. len \in Nat /\ r_ptr \in Nat /\ Deliver(r_ptr, len, args)
  BY CapAssumption, Lengths DEF Lens, Sizes, IInv, TypeOK
<1> DEFINE entries == {name, len, "OK"}
<1>3. args \in Seq(entries) /\ Len(args) \in Nat \ {0} /\ args[Len(args)] = "OK"
  BY <1>1
<1> HIDE DEF args, entries
<1>4. /\ Abstract!Take(r_ptr, len, whole)
      /\ \A k \in 1 .. Len(args) : call'[k] = args[k]
  BY <1>2, <1>3, DeliverIsTake
<1> QED
  BY <1>1, <1>4

LEMMA ReadAtIsTake ==
  ASSUME IInv, NEW len \in Lens, NEW offset \in Lens, NEW name, NEW whole \in BOOLEAN,
         Deliver(offset, len, <<name, len, offset, "OK">>), whole => offset + len <= w_ptr
  PROVE  /\ call'[1] = name /\ call'[2] = len /\ call'[3] = offset
         /\ Abstract!Take(offset, len, whole)
<1> DEFINE args == <<name, len, offset, "OK">>
<1>1. /\ args \in Seq({name, len, offset, "OK"}) /\ Len(args) = 4
      /\ args[1] = name /\ args[2] = len /\ args[3] = offset /\ args[4] = "OK"
  BY FourEntries
<1>2. len \in Nat /\ offset \in Nat /\ Deliver(offset, len, args)
  BY CapAssumption, Lengths DEF Lens, Sizes
<1> DEFINE entries == {name, len, offset, "OK"}
<1>3. args \in Seq(entries) /\ Len(args) \in Nat \ {0} /\ args[Len(args)] = "OK"
  BY <1>1
<1> HIDE DEF args, entries
<1>4. /\ Abstract!Take(offset, len, whole)
      /\ \A k \in 1 .. Len(args) : call'[k] = args[k]
  BY <1>2, <1>3, DeliverIsTake
<1> QED
  BY <1>1, <1>4

Texts == Strings \cup {Object}

\* Calls that change nothing the tape has.
LEMMA FailsUnchanged ==
  ASSUME NEW args, Fails(args)
  PROVE  call' = args /\ UNCHANGED <<content, r_ptr>>
BY SameContent DEF Fails

LEMMA WriteIsTape ==
  ASSUME OnlyReading, IInv, IInv', NEW src \in Strings, Write(src)
  PROVE  Abstract!Next
<1>a. Len(content) = w_ptr /\ src \in Texts
  BY Content DEF Texts
<1>1. CASE Len(src) <= CAP - w_ptr /\ data' = Copied(w_ptr, src)
           /\ w_ptr' = w_ptr + Len(src) /\ call' = <<"write", src, "OK">> /\ UNCHANGED r_ptr
  <2>1. content' = content \o src
    BY <1>1, WriteIsAppend
  <2>2. Abstract!Append_(src)
    BY <1>1, <1>a, <2>1 DEF Abstract!Append_, content
  <2> QED
    BY <1>a, <2>2 DEF Abstract!Next, Texts
<1>2. CASE Len(src) > CAP - w_ptr /\ Fails(<<"write", src, "E_BUF_OVERFLOW">>)
  <2>1. Abstract!Refuse
    BY <1>2, <1>a, FailsUnchanged DEF Abstract!Refuse, content, Texts
  <2> QED
    BY <2>1 DEF Abstract!Next
<1> QED
  BY <1>1, <1>2 DEF Write

LEMMA WriteAtIsTape ==
  ASSUME OnlyReading, IInv, IInv', NEW src \in Texts, NEW offset \in Sizes,
         WriteAt(src, offset)
  PROVE  Abstract!Next
<1>a. Len(content) = w_ptr /\ offset \in Nat /\ CAP \in Nat /\ offset \in Lens /\ Len(src) \in Nat
      /\ w_ptr \in Nat
  BY Content, CapAssumption, Lengths DEF Sizes, Lens, Texts
<1>1. CASE /\ offset < CAP /\ Len(src) <= CAP - offset /\ data' = Copied(offset, src)
           /\ w_ptr' = offset + Len(src) /\ call' = <<"write_at", src, offset, "OK">>
           /\ r_ptr' = 0
  <2> DEFINE n == Abstract!Smaller(offset, Len(content))
  <2>1. /\ Len(content') = offset + Len(src)
        /\ \A m \in Nat : m <= offset /\ m <= Len(content) =>
             SubSeq(content', 1, m) = SubSeq(content, 1, m)
        /\ SubSeq(content', offset + 1, offset + Len(src)) = src
    BY <1>1, <1>a, RewriteIsPut DEF Texts
  <2>2. n \in Nat /\ n <= offset /\ n <= Len(content)
    BY <1>a DEF Abstract!Smaller
  <2>3. SubSeq(content', 1, n) = SubSeq(content, 1, n)
    BY <2>1, <2>2
  <2>4. offset + Len(src) <= CAP
    BY <1>1, <1>a
  <2>5. Abstract!Put(src, offset)
    BY <1>1, <2>1, <2>3, <2>4 DEF Abstract!Put, content
  <2> QED
    BY <1>a, <2>5 DEF Abstract!Next, Texts, Lens
<1>2. ASSUME NEW error \in {"E_ARG", "E_BUF_OVERFLOW"}, offset >= CAP \/ offset + Len(src) > CAP,
             call' = <<"write_at", src, offset, error>>, UNCHANGED <<content, r_ptr>>
      PROVE  Abstract!Next
  <2>1. Abstract!Refuse
    BY <1>2, <1>a DEF Abstract!Refuse, content, Texts, Lens
  <2> QED
    BY <2>1 DEF Abstract!Next
<1>3. CASE offset >= CAP /\ Fails(<<"write_at", src, offset, "E_ARG">>)
  BY <1>2, <1>3, FailsUnchanged
<1>4. CASE /\ offset < CAP /\ Len(src) > CAP - offset /\ w_ptr' = w_ptr
           /\ call' = <<"write_at", src, offset, "E_BUF_OVERFLOW">> /\ UNCHANGED <<data, r_ptr>>
  <2>1. UNCHANGED content /\ offset + Len(src) > CAP
    BY <1>4, <1>a, SameContent DEF memory
  <2> QED
    BY <1>2, <1>4, <2>1
<1> QED
  BY <1>1, <1>3, <1>4 DEF WriteAt, Rewrite

LEMMA ReadIsTape ==
  ASSUME IInv, NEW len \in Sizes, Read(len) \/ (len > 0 /\ ReadValue(len))
  PROVE  Abstract!Next
<1>a. /\ Len(content) = w_ptr /\ len \in Lens /\ r_ptr \in Nat /\ w_ptr \in Nat /\ len \in Nat
      /\ Abstract!Rest(r_ptr) = w_ptr - r_ptr
  BY Content, CapAssumption DEF Sizes, Lens, IInv, TypeOK, Abstract!Rest, content
<1>1. CASE Deliver(r_ptr, len, <<"read", len, "OK">>)
  <2>1. call'[1] = "read" /\ call'[2] = len /\ Abstract!Take(r_ptr, len, FALSE)
    BY <1>1, <1>a, ReadIsTake
  <2> QED
    BY <1>a, <2>1 DEF Abstract!Next, Lens
<1>2. CASE Deliver(r_ptr, len, <<"read_value", len, "OK">>) /\ w_ptr - r_ptr >= len
  <2>1. call'[1] = "read_value" /\ call'[2] = len /\ Abstract!Take(r_ptr, len, TRUE)
    <3>1. r_ptr + len <= w_ptr
      BY <1>2, <1>a
    <3> QED
      BY <1>2, <1>a, <3>1, ReadIsTake
  <2> QED
    BY <1>a, <2>1 DEF Abstract!Next, Lens
<1>3. CASE \/ (len = 0 \/ w_ptr - r_ptr = 0) /\ Fails(<<"read", len, "E_ARG">>)
           \/ w_ptr - r_ptr < len /\ Fails(<<"read_value", len, "E_ARG">>)
  <2>1. Abstract!Refuse
    BY <1>3, <1>a, FailsUnchanged DEF Abstract!Refuse, content, Lens
  <2> QED
    BY <2>1 DEF Abstract!Next
<1> QED
  BY <1>1, <1>2, <1>3 DEF Read, ReadValue, get_remain_data_size

LEMMA ReadAtIsTape ==
  ASSUME IInv, NEW len \in Lens, NEW offset \in Sizes,
         ReadAt(len, offset) \/ ReadValueAt(len, offset)
  PROVE  Abstract!Next
<1>a. /\ Len(content) = w_ptr /\ offset \in Lens /\ offset \in Nat /\ w_ptr \in Nat /\ len \in Nat
  BY Content, CapAssumption, Lengths DEF Sizes, Lens
<1>1. CASE Deliver(offset, len, <<"read_at", len, offset, "OK">>)
  <2>1. /\ call'[1] = "read_at" /\ call'[2] = len /\ call'[3] = offset
        /\ Abstract!Take(offset, len, FALSE)
    BY <1>1, <1>a, ReadAtIsTake
  <2> QED
    BY <1>a, <2>1 DEF Abstract!Next, Lens
<1>2. CASE Deliver(offset, len, <<"read_value_at", len, offset, "OK">>) /\ offset + len <= w_ptr
  <2>1. /\ call'[1] = "read_value_at" /\ call'[2] = len /\ call'[3] = offset
        /\ Abstract!Take(offset, len, TRUE)
    BY <1>2, <1>a, ReadAtIsTake
  <2> QED
    BY <1>a, <2>1 DEF Abstract!Next, Lens
<1>3. CASE \/ (len = 0 \/ offset >= w_ptr) /\ Fails(<<"read_at", len, offset, "E_GENERAL">>)
           \/ offset + len > w_ptr /\ Fails(<<"read_value_at", len, offset, "E_GENERAL">>)
  <2>1. Abstract!Refuse
    BY <1>3, <1>a, FailsUnchanged DEF Abstract!Refuse, content, Lens
  <2> QED
    BY <2>1 DEF Abstract!Next
<1> QED
  BY <1>1, <1>2, <1>3 DEF ReadAt, ReadValueAt

LEMMA CallbackIsTape ==
  ASSUME OnlyReading, IInv, IInv',
         \/ \E src \in Strings, ok \in BOOLEAN : WriteOnBufReturns(src, ok)
         \/ WriteOnBuf \/ ReadOnBuf
         \/ \E ok \in BOOLEAN : ReadOnBufReturns(ok)
  PROVE  [Abstract!Next]_(Abstract!vars)
<1>a. /\ Len(content) = w_ptr /\ r_ptr \in Nat /\ w_ptr \in Nat /\ r_ptr <= w_ptr
      /\ CAP \in Nat /\ w_ptr <= CAP /\ 0 \in Nat
  BY Content, CapAssumption DEF IInv, TypeOK
<1>1. ASSUME NEW src \in Strings, NEW ok \in BOOLEAN, WriteOnBufReturns(src, ok)
      PROVE  Abstract!Next
  <2>1. /\ on_buf.from = w_ptr /\ on_buf.len = CAP - w_ptr /\ UNCHANGED r_ptr
        /\ data' = Copied(w_ptr, src) /\ w_ptr' = IF ok THEN CAP ELSE w_ptr
        /\ call' = <<"write_on_buf", IF ok THEN "OK" ELSE "failed">>
    BY <1>1, <1>a DEF WriteOnBufReturns, IInv
  <2>2. /\ content' = Part(data', 0, w_ptr') /\ data' \in [0 .. CAP - 1 -> Cells]
        /\ w_ptr' \in Nat /\ w_ptr' <= CAP /\ w_ptr <= w_ptr' /\ Len(content') = w_ptr'
    BY <1>a, <2>1, ContentAfter
  <2>3. /\ content = Part(data, 0, w_ptr) /\ data \in [0 .. CAP - 1 -> Cells]
    BY Content
  <2>4. SubSeq(content', 1, w_ptr) = content
    <3>1. \A k \in 1 .. w_ptr - 0 : data'[0 + k - 1] = data[0 + k - 1]
      <4>1. ASSUME NEW k \in 1 .. w_ptr - 0 PROVE data'[0 + k - 1] = data[0 + k - 1]
        <5>1. 0 + k - 1 \in 0 .. CAP - 1 /\ ~(w_ptr <= 0 + k - 1)
          BY <1>a
        <5> QED
          BY <1>a, <2>1, <5>1, CopiedBytes DEF IInv
      <4> QED
        BY <4>1
    <3>2. Part(data', 0, w_ptr) = Part(data, 0, w_ptr)
      BY <3>1 DEF Part
    <3> DEFINE d == data'
               end == w_ptr'
    <3>3. d \in [0 .. CAP - 1 -> Cells] /\ end \in Nat /\ end <= CAP /\ w_ptr <= end /\ 0 <= w_ptr
      BY <1>a, <2>2
    <3>4. content' = Part(d, 0, end) /\ Part(d, 0, w_ptr) = content
      BY <2>2, <2>3, <3>2
    <3> HIDE DEF d, end
    <3>5. SubSeq(Part(d, 0, end), 0 + 1, w_ptr) = Part(d, 0, w_ptr)
      BY <1>a, <3>3, PartOfPart
    <3> QED
      BY <3>4, <3>5
  <2>5. CASE ok
    <3>1. w_ptr' = CAP /\ call' = <<"write_on_buf", "OK">>
      BY <2>1, <2>5
    <3>2. Abstract!Fill
      BY <1>a, <2>1, <2>2, <2>4, <3>1 DEF Abstract!Fill, content
    <3> QED
      BY <3>2 DEF Abstract!Next
  <2>6. CASE ~ok
    <3>1. w_ptr' = w_ptr /\ call' = <<"write_on_buf", "failed">>
      BY <2>1, <2>6
    <3>2. content' \in Seq(Cells) /\ Len(content') = w_ptr
      BY <3>1, ContentAfter
    <3>3. SubSeq(content', 1, w_ptr) = content'
      <4> DEFINE s == content'
      <4>1. s \in Seq(Cells) /\ Len(s) = w_ptr
        BY <3>2
      <4> HIDE DEF s
      <4>2. SubSeq(s, 1, Len(s)) = s
        BY <4>1, SubSeqFull
      <4> QED
        BY <4>1, <4>2 DEF s
    <3>4. UNCHANGED <<content, r_ptr>>
      BY <2>1, <2>4, <3>3
    <3>5. Abstract!Refuse
      BY <3>1, <3>4 DEF Abstract!Refuse, content
    <3> QED
      BY <3>5 DEF Abstract!Next
  <2> QED
    BY <2>5, <2>6
<1>2. CASE WriteOnBuf
  <2>1. UNCHANGED <<content, r_ptr, call>>
    BY <1>2, SameContent DEF WriteOnBuf
  <2> QED
    BY <2>1 DEF Abstract!vars, content
<1>3. CASE ReadOnBuf
  <2>1. CASE w_ptr - r_ptr = 0 /\ Fails(<<"read_on_buf", "E_ARG">>)
    <3>1. Abstract!Rest(r_ptr) = 0
      BY <1>a, <2>1 DEF Abstract!Rest, content
    <3>2. Abstract!Refuse
      BY <2>1, <3>1, FailsUnchanged DEF Abstract!Refuse, content
    <3> QED
      BY <3>2 DEF Abstract!Next
  <2>2. CASE /\ w_ptr - r_ptr > 0 /\ call' = <<"on_buf", Slice(r_ptr, w_ptr)>>
             /\ UNCHANGED <<memory, r_ptr>>
    <3>1. Slice(r_ptr, w_ptr) = SubSeq(content, r_ptr + 1, Len(content))
      BY <1>a, Content
    <3>2. UNCHANGED <<content, r_ptr>> /\ Abstract!Rest(r_ptr) > 0
      BY <1>a, <2>2, SameContent DEF Abstract!Rest, content
    <3>3. Abstract!Show
      BY <2>2, <3>1, <3>2 DEF Abstract!Show, content
    <3> QED
      BY <3>3 DEF Abstract!Next
  <2> QED
    BY <1>3, <2>1, <2>2 DEF ReadOnBuf, get_remain_data_size
<1>4. ASSUME NEW ok \in BOOLEAN, ReadOnBufReturns(ok) PROVE Abstract!Next
  <2>1. /\ r_ptr' = IF ok THEN w_ptr ELSE r_ptr
        /\ call' = <<"read_on_buf", IF ok THEN "OK" ELSE "failed">>
        /\ UNCHANGED content
    BY <1>4, SameContent DEF ReadOnBufReturns, ReadMoves
  <2>2. CASE ok
    <3>1. Abstract!Shown
      BY <1>a, <2>1, <2>2 DEF Abstract!Shown, content
    <3> QED
      BY <3>1 DEF Abstract!Next
  <2>3. CASE ~ok
    <3>1. Abstract!Refuse
      BY <2>1, <2>3 DEF Abstract!Refuse, content
    <3> QED
      BY <3>1 DEF Abstract!Next
  <2> QED
    BY <2>2, <2>3
<1> QED
  BY <1>1, <1>2, <1>3, <1>4

LEMMA StepIsTape ==
  ASSUME OnlyReading, IInv, [Next]_vars
  PROVE  [Abstract!Next]_(Abstract!vars)
<1>a. IInv'
  BY StepIInv
<1>b. Sizes \subseteq Lens /\ Strings \subseteq Texts /\ Object \in Texts /\ Len(Object) \in Lens
  BY DEF Lens, Texts
<1>1. CASE UNCHANGED vars
  <2>1. UNCHANGED <<content, r_ptr, call>>
    BY <1>1, SameContent DEF vars
  <2> QED
    BY <2>1 DEF Abstract!vars, content
<1>2. CASE \E src \in Strings : Write(src)
  BY <1>2, <1>a, WriteIsTape
<1>3. CASE \E src \in Texts, offset \in Sizes : WriteAt(src, offset)
  BY <1>3, <1>a, WriteAtIsTape
<1>4. CASE \E len \in Sizes : Read(len) \/ (len > 0 /\ ReadValue(len))
  BY <1>4, ReadIsTape
<1>5. CASE \E len \in Lens, offset \in Sizes : ReadAt(len, offset) \/ ReadValueAt(len, offset)
  BY <1>5, ReadAtIsTape
<1>6. CASE \/ \E src \in Strings, ok \in BOOLEAN : WriteOnBufReturns(src, ok)
           \/ WriteOnBuf \/ ReadOnBuf
           \/ \E ok \in BOOLEAN : ReadOnBufReturns(ok)
  BY <1>6, <1>a, CallbackIsTape
<1>7. CASE Next
  <2> HIDE DEF Abstract!Next
  <2> QED
    BY <1>2, <1>3, <1>4, <1>5, <1>6, <1>7, <1>b DEF Next, WriteAtOnBuf, ReadAtOnBuf
<1> QED
  BY <1>1, <1>7

LEMMA InitIsTape == Init => Abstract!Init
<1> SUFFICES ASSUME Init PROVE Abstract!Init
  OBVIOUS
<1>1. IInv /\ w_ptr = 0 /\ r_ptr = 0 /\ call = <<"new">>
  BY InitIInv DEF Init
<1>2. content \in Seq(Cells) /\ Len(content) = 0
  BY <1>1, Content
<1>3. content = <<>>
  BY <1>2, EmptySeq
<1> QED
  BY <1>1, <1>3 DEF Abstract!Init, content

\* The buffer implements the tape: bytes come out in the order in which they
\* went in, calls fail when their sizes do not fit and then change nothing,
\* for any capacity, bytes and objects, if callbacks only read.
THEOREM ImplementsTape ==
  ASSUME OnlyReading
  PROVE  Spec => TapeSpec
<1>1. IInv /\ [Next]_vars => [Abstract!Next]_(Abstract!vars)
  BY StepIsTape
<1> QED
  BY <1>1, InitIsTape, Invariance, PTL DEF Spec, TapeSpec, Abstract!Spec
=============================================================================
