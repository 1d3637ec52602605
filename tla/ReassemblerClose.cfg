\* Checks reassembler.hh:39 against the code: violated.  Nothing is ever cut
\* here, since the window holds the whole stream: an empty last substring that
\* comes before the bytes closes the stream.  (With Capacity = 2 one whose tail
\* is cut closes it.)
SPECIFICATION Spec
CONSTANTS
    Capacity = 4
    Total = 3
INVARIANT
    ClosesAfterTheLastByte
