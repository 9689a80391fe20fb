-------------------------------- MODULE Tape --------------------------------
(***************************************************************************)
(* What ucc::Buffer promises: a tape of at most CAP bytes that is extended *)
(* at its end, cut and extended from any place, and read from a cursor.    *)
(* A call that fails changes nothing.  Bytes that nobody wrote, because a  *)
(* writer skipped them or a callback did not, are anything.                *)
(***************************************************************************)
EXTENDS Naturals, Sequences

CONSTANTS CAP,      \* the capacity
          Strings,  \* what is written
          Sizes     \* the lengths and offsets of calls

VARIABLES content,   \* the bytes up to the write pointer
          cursor,    \* how many of them have been read
          call       \* the last call: <<name, arguments, result, bytes read>>

vars == <<content, cursor, call>>

Init == content = <<>> /\ cursor = 0 /\ call = <<"new">>

Rest(from) == Len(content) - from
Smaller(x, y) == IF x <= y THEN x ELSE y

Append_(s) ==
  /\ call' = <<"write", s, "OK">>
  /\ Len(s) <= CAP - Len(content)
  /\ content' = content \o s
  /\ UNCHANGED cursor

\* The tape is cut at offset, or extended to it by anything, and s follows.
Put(s, offset) ==
  /\ call' = <<"write_at", s, offset, "OK">>
  /\ offset < CAP /\ offset + Len(s) <= CAP
  /\ Len(content') = offset + Len(s)
  /\ SubSeq(content', 1, Smaller(offset, Len(content)))
       = SubSeq(content, 1, Smaller(offset, Len(content)))
  /\ SubSeq(content', offset + 1, offset + Len(s)) = s
  /\ cursor' = 0

\* At most n bytes from a place, and at least one, or all n where whole says so;
\* the cursor goes behind them.
Take(from, n, whole) ==
  /\ from < Len(content) /\ n > 0
  /\ whole => n <= Rest(from)
  /\ cursor' = from + Smaller(n, Rest(from))
  /\ call'[Len(call') - 1] = "OK" /\ call'[Len(call')] = SubSeq(content, from + 1, cursor')
  /\ UNCHANGED content

\* A callback gets the room that is left, or everything that is left to read.
Fill ==
  /\ call' = <<"write_on_buf", "OK">>
  /\ Len(content') = CAP /\ SubSeq(content', 1, Len(content)) = content
  /\ UNCHANGED cursor
Show ==
  /\ call' = <<"on_buf", SubSeq(content, cursor + 1, Len(content))>>
  /\ Rest(cursor) > 0
  /\ UNCHANGED <<content, cursor>>
Shown ==
  /\ call' = <<"read_on_buf", "OK">>
  /\ cursor' = Len(content)
  /\ UNCHANGED content

\* What cannot be done is refused, and nothing else is.
Refuse ==
  /\ \/ \E s \in Strings :
          call' = <<"write", s, "E_BUF_OVERFLOW">> /\ Len(s) > CAP - Len(content)
     \/ \E s \in Strings, offset \in Sizes, error \in {"E_ARG", "E_BUF_OVERFLOW"} :
          call' = <<"write_at", s, offset, error>> /\ (offset >= CAP \/ offset + Len(s) > CAP)
     \/ \E n \in Sizes :
          call' = <<"read", n, "E_ARG">> /\ (n = 0 \/ Rest(cursor) = 0)
     \/ \E n \in Sizes : call' = <<"read_value", n, "E_ARG">> /\ Rest(cursor) < n
     \/ \E n \in Sizes, offset \in Sizes :
          call' = <<"read_at", n, offset, "E_GENERAL">> /\ (n = 0 \/ offset >= Len(content))
     \/ \E n \in Sizes, offset \in Sizes :
          call' = <<"read_value_at", n, offset, "E_GENERAL">> /\ offset + n > Len(content)
     \/ call' = <<"read_on_buf", "E_ARG">> /\ Rest(cursor) = 0
     \/ call' \in {<<"write_on_buf", "failed">>, <<"read_on_buf", "failed">>}
  /\ UNCHANGED <<content, cursor>>

Next ==
  \/ \E s \in Strings : Append_(s) \/ \E offset \in Sizes : Put(s, offset)
  \/ \E n \in Sizes :
       \/ call'[1] = "read" /\ call'[2] = n /\ Take(cursor, n, FALSE)
       \/ call'[1] = "read_value" /\ call'[2] = n /\ Take(cursor, n, TRUE)
       \/ \E offset \in Sizes :
            \/ call'[1] = "read_at" /\ call'[2] = n /\ call'[3] = offset /\ Take(offset, n, FALSE)
            \/ call'[1] = "read_value_at" /\ call'[2] = n /\ call'[3] = offset /\ Take(offset, n, TRUE)
  \/ Fill \/ Show \/ Shown \/ Refuse

Spec == Init /\ [][Next]_vars
=============================================================================
