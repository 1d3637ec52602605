----------------------------- MODULE CopyRules ------------------------------
(***************************************************************************)
(* The four rules of src/apps/bidirectional_stream_copy.cc, between the    *)
(* standard input and output and the owner's end of a TCPMinnowSocket,     *)
(* over the record s of SocketRules.                                       *)
(***************************************************************************)
EXTENDS Descriptors

NewCopy(capacity) ==
    [outbound |-> EmptyStream(capacity), inbound |-> EmptyStream(capacity),
     outbound_shutdown |-> FALSE, inbound_shutdown |-> FALSE,
     input_eof |-> FALSE, socket_eof |-> FALSE, output_closed |-> FALSE]

Rules == <<"from stdin", "into socket", "from socket", "into stdout">>

Direction(r) == IF r \in {"from stdin", "from socket"} THEN "IN" ELSE "OUT"

HasMore(stream, shutdown) == Buffered(stream) > 0 \/ (Finished(stream) /\ ~shutdown)

Interest(r, s) ==
    CASE r = "from stdin"  -> Available(s.copy.outbound) > 0
      [] r = "into socket" -> HasMore(s.copy.outbound, s.copy.outbound_shutdown)
      [] r = "from socket" -> Available(s.copy.inbound) > 0
      [] r = "into stdout" -> HasMore(s.copy.inbound, s.copy.inbound_shutdown)

CloseOutbound(s) == [s EXCEPT !.copy.outbound = CloseStream(@)]
CloseInbound(s) == [s EXCEPT !.copy.inbound = CloseStream(@)]

FromStdin(s) ==
    LET n == ReadCount(s.input.left, Available(s.copy.outbound))
        t == [s EXCEPT !.copy.outbound = PushTo(@, n), !.input.left = @ - n,
                       !.copy.input_eof = n = 0]
    IN  IF n = 0 THEN CloseOutbound(t) ELSE t

\* A write to the shut socket raises SIGPIPE.
IntoSocket(s) ==
    LET writes == Buffered(s.copy.outbound) > 0
        t == IF writes THEN [s EXCEPT !.pair.down = @ + 1, !.copy.outbound = PopFrom(@, 1)] ELSE s
    IN  IF writes /\ s.pair.down_shut THEN [s EXCEPT !.killed = TRUE]
        ELSE IF Finished(t.copy.outbound)
        THEN [t EXCEPT !.pair.down_shut = TRUE, !.copy.outbound_shutdown = TRUE]
        ELSE t

\* Mutant: the stream is taken to have ended when nothing is left to read now.
FromSocketEarly(s) ==
    LET n == ReadCount(s.pair.up, Available(s.copy.inbound))
        t == [s EXCEPT !.copy.inbound = PushTo(@, n), !.pair.up = @ - n,
                       !.copy.socket_eof = n = 0]
    IN  IF t.pair.up = 0 THEN CloseInbound(t) ELSE t

FromSocket(s) ==
    LET n == ReadCount(s.pair.up, Available(s.copy.inbound))
        t == [s EXCEPT !.copy.inbound = PushTo(@, n), !.pair.up = @ - n,
                       !.copy.socket_eof = n = 0]
    IN  IF n = 0 THEN CloseInbound(t) ELSE t

\* A full device makes the write throw, a broken pipe raises SIGPIPE.
IntoStdout(s) ==
    LET writes == Buffered(s.copy.inbound) > 0
        t == IF writes THEN [s EXCEPT !.output.bytes = @ + 1, !.copy.inbound = PopFrom(@, 1)] ELSE s
    IN  IF writes /\ s.output.state = "broken" THEN [s EXCEPT !.killed = TRUE]
        ELSE IF Finished(t.copy.inbound)
        THEN [t EXCEPT !.copy.output_closed = TRUE, !.copy.inbound_shutdown = TRUE]
        ELSE t

WriteFails(r, s) ==
    r = "into stdout" /\ s.output.state = "full" /\ Buffered(s.copy.inbound) > 0

\* Closing the output counts for nothing, but then it is closed.
Callback(r, s) ==
    IF WriteFails(r, s) THEN [s |-> s, counted |-> TRUE, throws |-> TRUE]
    ELSE [s |-> CASE r = "from stdin"  -> FromStdin(s)
                  [] r = "into socket" -> IntoSocket(s)
                  [] r = "from socket" -> FromSocket(s)
                  [] r = "into stdout" -> IntoStdout(s),
          counted |-> r = "into stdout" => Buffered(s.copy.inbound) > 0,
          throws |-> FALSE]

Cancel(r, s) ==
    IF r \in {"from stdin", "into socket"} THEN CloseOutbound(s) ELSE CloseInbound(s)

Eof(r, s) ==
    \/ r = "from stdin" /\ s.copy.input_eof
    \/ r = "from socket" /\ s.copy.socket_eof
Closed(r, s) == r = "into stdout" /\ s.copy.output_closed

Revents(r, s) ==
    CASE r = "from stdin" -> PollInput(s.input)
      [] r \in {"into socket", "from socket"} -> PollOwnerEnd(s.pair)
      [] r = "into stdout" -> PollOutput(s.output)
=============================================================================
