---------------------------- MODULE Reassembler -----------------------------
(***************************************************************************)
(* The Reassembler of src/src/reassembler.cc: a list of substrings kept    *)
(* sorted and disjoint by one pass that trims each entry against the one   *)
(* before it, and a byte count kept beside the list.                       *)
(***************************************************************************)
EXTENDS Substrings, SequencesExt

VARIABLES
    substrs_,          \* the list; an entry holds bytes starti_ .. starti_+len-1
    nbytes_substrs_,   \* bytes in the list
    should_close_,     \* the last substring has been seen
    output,            \* the stream the Writer& writes to
    received,          \* history, see Assembly
    overtook           \* history, see Assembly

vars == <<substrs_, nbytes_substrs_, should_close_, output, received, overtook>>

Init ==
    /\ substrs_ = <<>> /\ nbytes_substrs_ = 0 /\ should_close_ = FALSE
    /\ output = EmptyStream(Capacity)
    /\ received = {} /\ overtook = FALSE

End(e) == e.starti_ + e.len

\* The first index out of range.
limit == output.pushed + Available(output)

\* insert without data.resize.
Uncut(first, len) == len

\* What is left of len bytes at first after data.resize.
Resized(first, len) == IF End([starti_ |-> first, len |-> len]) > limit
                       THEN limit - first ELSE len

\* The substring holds the next byte of the stream: it is pushed at once, and
\* nothing of it goes into the list.
Direct(first, len) ==
    output.pushed >= first /\ output.pushed < first + len

\* The list with the new entry before the first entry that does not start
\* before it.
Place(list, e) ==
    IF e.len = 0 THEN list
    ELSE IF list = <<>> \/ e.starti_ > Last(list).starti_ THEN Append(list, e)
    ELSE InsertAt(list, SelectInSeq(list, LAMBDA x : e.starti_ <= x.starti_), e)

\* How many bytes at the front of e the entry before it already holds, when
\* the pass forgets that the entry may reach beyond the end of e.
OverlapUnbounded(prev, e) ==
    IF e.starti_ >= prev.starti_ /\ e.starti_ < End(prev)
    THEN End(prev) - e.starti_ ELSE 0

Overlap(prev, e) ==
    IF e.starti_ >= prev.starti_ /\ e.starti_ < End(prev)
    THEN IF End(prev) - e.starti_ <= e.len THEN End(prev) - e.starti_ ELSE e.len
    ELSE 0

Behind(e, n) == [starti_ |-> e.starti_ + n, len |-> e.len - n]

\* One step of the trimming pass over the list: acc holds the entries before
\* e, already trimmed, and the bytes removed so far.
TrimEntry(acc, e) ==
    LET n == IF acc.list = <<>> THEN 0 ELSE Overlap(Last(acc.list), e)
    IN  [list |-> IF n > 0 /\ n = e.len THEN acc.list
                  ELSE Append(acc.list, Behind(e, n)),
         removed |-> acc.removed + n]

Trim(list) ==
    LET pass[i \in 0 .. Len(list)] ==
          IF i = 0 THEN [list |-> <<>>, removed |-> 0]
                   ELSE TrimEntry(pass[i - 1], list[i])
    IN  pass[Len(list)]

\* The second pass pushing an entry whole, also the bytes the stream has.
FlushUnerased(acc, e) ==
    IF acc.output.pushed >= e.starti_
    THEN [list |-> acc.list, removed |-> acc.removed + e.len,
          output |-> PushTo(acc.output, e.len)]
    ELSE [acc EXCEPT !.list = Append(@, e)]

\* One step of the second pass: an entry that begins at or before the next
\* byte leaves the list, and what the stream does not have yet is pushed.
FlushEntry(acc, e) ==
    IF acc.output.pushed >= e.starti_
    THEN [list |-> acc.list, removed |-> acc.removed + e.len,
          output |-> IF End(e) > acc.output.pushed
                     THEN PushTo(acc.output, End(e) - acc.output.pushed)
                     ELSE acc.output]
    ELSE [acc EXCEPT !.list = Append(@, e)]

Flush(list, s) ==
    LET pass[i \in 0 .. Len(list)] ==
          IF i = 0 THEN [list |-> <<>>, removed |-> 0, output |-> s]
                   ELSE FlushEntry(pass[i - 1], list[i])
    IN  pass[Len(list)]

\* The close left out when the substring was pushed directly.
CloseOnlyFromList(s, closing, pending) ==
    IF closing /\ pending = 0 /\ nbytes_substrs_ > 0 THEN CloseStream(s) ELSE s

\* The stream is closed once the last substring was seen and the list is empty.
CloseWhenEmpty(s, closing, pending) ==
    IF closing /\ pending = 0 THEN CloseStream(s) ELSE s

insert(first, len, last) ==
    /\ Substring(first, len, last)
    /\ first < limit
    /\ LET size    == Resized(first, len)
           pushed  == IF Direct(first, size)
                      THEN PushTo(output, first + size - output.pushed)
                      ELSE output
           data    == [starti_ |-> first,
                       len |-> IF Direct(first, size) THEN 0 ELSE size]
           trimmed == Trim(Place(substrs_, data))
           flushed == Flush(trimmed.list, pushed)
           pending == nbytes_substrs_ + data.len - trimmed.removed - flushed.removed
           closing == should_close_ \/ last
       IN  /\ substrs_' = flushed.list
           /\ nbytes_substrs_' = pending
           /\ should_close_' = closing
           /\ output' = CloseWhenEmpty(flushed.output, closing, pending)
    /\ received' = received \union
         {i \in first .. (first + len - 1) : output.pushed <= i /\ i < limit}
    /\ overtook' = (overtook \/ Overtakes(last, received'))

\* The application reads from the output stream.
drain(n) ==
    /\ output' = PopFrom(output, n)
    /\ UNCHANGED <<substrs_, nbytes_substrs_, should_close_, received, overtook>>

Next ==
    \/ \E first \in 0 .. Total, last \in BOOLEAN :
         \E len \in 0 .. (Total - first) : insert(first, len, last)
    \/ \E n \in 1 .. Buffered(output) : drain(n)

Spec == Init /\ [][Next]_vars

-----------------------------------------------------------------------------
\* Properties

bytes_pending == nbytes_substrs_

Bytes(e) == e.starti_ .. (End(e) - 1)

Held(list) == UNION {Bytes(list[i]) : i \in DOMAIN list}

\* The list is sorted and disjoint, without an empty entry, lies beyond a gap,
\* and the separately kept count is the number of bytes in it.
ListIsNormal ==
    /\ StreamOK(output)
    /\ \A i \in DOMAIN substrs_ :
         /\ substrs_[i].len > 0
         /\ substrs_[i].starti_ > output.pushed
         /\ End(substrs_[i]) <= limit
         /\ i < Len(substrs_) => End(substrs_[i]) <= substrs_[i + 1].starti_
    /\ bytes_pending = Cardinality(Held(substrs_))

\* The list implements reassembly over sets of bytes.
Abstract == INSTANCE Assembly WITH
    asm <- [held |-> Held(substrs_), closing |-> should_close_]

\* However the substrings arrive, overlap and repeat, the list and the stream
\* behave as the set of received bytes does.
ImplementsAssembly == Abstract!Spec

\* Reassembly neither loses nor invents a byte: the stream and the list hold
\* exactly the bytes that arrived inside the window.
NothingLost == Abstract!NothingLost

\* Unless a last substring overtook the last byte, the stream is closed exactly
\* when all of it is written and its end is known.
ClosedWhenComplete == Abstract!ClosedWhenComplete

\* reassembler.hh:39: "The Reassembler should close the stream after writing
\* the last byte."  The code closes it when the end is known and the list is
\* empty, also while bytes are missing that have not arrived or have been cut.
ClosesAfterTheLastByte == output.closed => output.pushed = Total
=============================================================================
