----------------------------- MODULE TCPSender ------------------------------
(***************************************************************************)
(* The TCPSender of src/src/tcp_sender.cc with its RTOTimer: an            *)
(* application that writes and closes the outbound stream, an owner that   *)
(* calls push, maybe_send and tick, and a network that delivers any ackno  *)
(* and any window: stale, repeated, partial and impossible ones too.       *)
(***************************************************************************)
EXTENDS SenderState

CONSTANTS
    Capacity,      \* of the outbound stream
    Total,         \* bytes the application writes before it closes
    Isn,           \* isn_
    LargestWindow, \* the largest window_size there is (UINT16_MAX)
    Windows,       \* the window sizes the peer advertises
    InitialRTO,    \* initial_RTO_ms_
    Ticks,         \* the times that pass between two calls of tick
    MaxRetx        \* bound: consecutive retransmissions

VARIABLES
    snd,               \* the sender's fields, see SenderState
    outbound,          \* the outbound stream
    rto_, time_passage_,   \* the RTOTimer
    retransmissions_

vars == <<snd, outbound, rto_, time_passage_, retransmissions_>>
timerVars == <<rto_, time_passage_, retransmissions_>>

ASSUME SenderAssumption ==
    /\ Capacity \in Nat /\ Total \in Nat
    /\ Isn \in Raw
    /\ LargestWindow \in Nat /\ LargestWindow > 0 /\ LargestWindow < Half
    /\ Windows \in SUBSET (0 .. LargestWindow)
    /\ InitialRTO \in Nat /\ InitialRTO > 0
    /\ Ticks \in SUBSET (Nat \ {0})
    /\ MaxRetx \in Nat

NoAckno == -1        \* an empty optional<Wrap32>

Init ==
    /\ snd = NewSender(Isn)
    /\ outbound = EmptyStream(Capacity)
    /\ rto_ = InitialRTO /\ time_passage_ = 0 /\ retransmissions_ = 0

-----------------------------------------------------------------------------
\* The application

write(n) ==
    /\ ~outbound.closed
    /\ n <= Available(outbound) /\ outbound.pushed + n <= Total
    /\ outbound' = PushTo(outbound, n)
    /\ UNCHANGED <<snd, timerVars>>

shutdown ==
    /\ outbound' = CloseStream(outbound)
    /\ UNCHANGED <<snd, timerVars>>

-----------------------------------------------------------------------------
\* The owner

push ==
    /\ CanPush(snd)
    /\ snd' = SenderAfterPush(snd, outbound)
    /\ outbound' = StreamAfterPush(snd, outbound)
    /\ UNCHANGED timerVars

maybe_send ==
    /\ HasMessage(snd)
    /\ snd' = WithoutNext(snd)
    /\ UNCHANGED <<outbound, timerVars>>

\* The first two returns of receive: only the window is taken over.
receive_window(ackno, window) ==
    /\ ackno = NoAckno \/ ~Acceptable(snd, ackno)
    /\ snd' = SetWindow(snd, window)
    /\ UNCHANGED <<outbound, timerVars>>

\* What an acceptable ackno does to the timer: an old one resets the timeout,
\* but only one that acknowledges a message restarts the clock.
\* Mutant: every acceptable ackno restarts the clock.
RestartAlways(k) == 0

TimeAfterAck(k) == IF k > 0 THEN 0 ELSE time_passage_

\* Mutant: the count of retransmissions is reset, the timeout is not.
KeepRto(k) == rto_

RtoAfterAck(k) == InitialRTO

\* An acceptable ackno, whether it acknowledges anything new or not.
receive_ackno(ackno, window) ==
    /\ ackno # NoAckno /\ Acceptable(snd, ackno)
    /\ \E k \in 0 .. Len(snd.outstanding_) :
         /\ Acks(snd, ackno, k)
         /\ snd' = SetWindow(DropAcked(snd, k), window)
         /\ time_passage_' = TimeAfterAck(k)
         /\ rto_' = RtoAfterAck(k)
    /\ retransmissions_' = 0
    /\ UNCHANGED outbound

receive(ackno, window) ==
    receive_window(ackno, window) \/ receive_ackno(ackno, window)

\* The timer runs whether or not anything is outstanding.
Expires(ms) == time_passage_ + ms >= rto_ /\ snd.outstanding_ # <<>>

\* The initial timeout, doubled n times.
Doubled[n \in 0 .. MaxRetx] == IF n = 0 THEN InitialRTO ELSE 2 * Doubled[n - 1]

\* The longest timeout the bound on retransmissions lets the timer reach;
\* beyond it the passage of idle time makes no difference.
MaxTime == Doubled[MaxRetx]

tick_quietly(ms) ==
    /\ ~Expires(ms)
    /\ time_passage_ < MaxTime
    /\ time_passage_' = time_passage_ + ms
    /\ UNCHANGED <<snd, outbound, rto_, retransmissions_>>

Backoff(window) == IF window # 0 THEN 2 ELSE 1

retransmit(ms) ==
    /\ Expires(ms)
    /\ retransmissions_ < MaxRetx
    /\ snd' = Requeue(snd)
    /\ time_passage_' = 0
    /\ rto_' = rto_ * Backoff(snd.window_size_)
    /\ retransmissions_' = retransmissions_ + 1
    /\ UNCHANGED outbound

\* The owner sends what is ready before it lets time pass
\* (tcp_minnow_socket.cc:47-48).
tick(ms) ==
    /\ ~HasMessage(snd)
    /\ tick_quietly(ms) \/ retransmit(ms)

Next ==
    \/ \E n \in 1 .. Total : write(n)
    \/ shutdown
    \/ push
    \/ maybe_send
    \/ \E ackno \in Raw \union {NoAckno}, window \in Windows :
         receive(ackno, window)
    \/ \E ms \in Ticks : tick(ms)

Spec == Init /\ [][Next]_vars

\* The loop of _tcp_loop: time passes, and what is ready is sent.
Fairness ==
    /\ WF_vars(maybe_send)
    /\ WF_vars(\E ms \in Ticks : tick(ms))

FairSpec == Spec /\ Fairness
-----------------------------------------------------------------------------
\* Properties

MessageType == [seqno : Raw, SYN : BOOLEAN, first : Nat, len : Nat, FIN : BOOLEAN]

SenderType ==
    [isn_ : Raw, syn_ : BOOLEAN, fin_ : BOOLEAN, window_size_ : 0 .. LargestWindow,
     seqnums_sent_ : Nat, seqnums_in_flight_ : Nat,
     outstanding_ : Seq(MessageType), ready_to_send_ : Seq(MessageType)]

\* The fields have their types: the window stays a 16-bit number, and the
\* outbound stream's counters never cross.
TypeOK ==
    /\ snd \in SenderType /\ snd.isn_ = Isn
    /\ StreamOK(outbound)
    /\ rto_ \in Nat /\ time_passage_ \in Nat /\ retransmissions_ \in Nat

\* The oldest sequence number that is not acknowledged.
Una == snd.seqnums_sent_ - snd.seqnums_in_flight_

\* The messages of q carry the sequence numbers from .. to - 1, in order, each
\* number once.
Covers(q, from, to) ==
    /\ \A i \in 1 .. Len(q) : sequence_length(q[i]) > 0
    /\ \A i \in 1 .. (Len(q) - 1) : AbsEnd(q[i]) = Abs(q[i + 1])
    /\ \A i, j \in 1 .. Len(q) : i < j => AbsEnd(q[i]) <= Abs(q[j])
    /\ IF Len(q) = 0 THEN from = to
       ELSE Abs(q[1]) = from /\ AbsEnd(q[Len(q)]) = to

\* The outstanding messages are exactly the sequence numbers that are sent and
\* not acknowledged; the separately kept seqnums_in_flight_ is their total, and
\* never more than a window.
OutstandingIsUnacked ==
    /\ Covers(snd.outstanding_, Una, snd.seqnums_sent_)
    /\ snd.seqnums_in_flight_ <= LargestWindow

\* A message is cut from the stream at the place its sequence number says; a
\* SYN is only in the first, a FIN only in the last of a closed, empty stream.
FollowsStream(msg) ==
    /\ msg.seqno = Wrap(Abs(msg), snd.isn_)
    /\ msg.first + msg.len <= outbound.popped
    /\ msg.SYN => msg.first = 0
    /\ msg.FIN => snd.fin_ /\ msg.first + msg.len = outbound.popped

\* Every message agrees with the stream it was cut from, and the count of
\* sequence numbers sent is one SYN, the bytes taken and one FIN.
MessagesFollowStream ==
    /\ snd.seqnums_sent_ =
         IF snd.syn_ THEN 1 + outbound.popped + One(snd.fin_) ELSE 0
    /\ ~snd.syn_ => outbound.popped = 0
    /\ snd.fin_ => snd.syn_ /\ outbound.closed /\ Buffered(outbound) = 0
    /\ \A i \in 1 .. Len(snd.outstanding_) : FollowsStream(snd.outstanding_[i])
    /\ \A i \in 1 .. Len(snd.ready_to_send_) : FollowsStream(snd.ready_to_send_[i])

\* Whatever waits to be sent is still outstanding or fully acknowledged: a
\* queued copy is never a part of the window that the sender forgot.
ReadyIsAccountedFor ==
    \A i \in 1 .. Len(snd.ready_to_send_) :
        \/ \E j \in 1 .. Len(snd.outstanding_) :
              snd.ready_to_send_[i] = snd.outstanding_[j]
        \/ AbsEnd(snd.ready_to_send_[i]) <= Una

\* The timeout is the initial one doubled for some of the consecutive
\* retransmissions (not for those into a closed window): the two fields are
\* reset together.
BackoffFollowsRetransmissions ==
    \E doublings \in 0 .. retransmissions_ : rto_ = Doubled[doublings]

\* A push never sends beyond the last advertised window (one, if it is zero),
\* and an acknowledgment is never taken back by a later, older one.
WindowAndAcksRespected ==
    [][ /\ snd'.seqnums_sent_ # snd.seqnums_sent_ =>
             snd'.seqnums_in_flight_ <= Usable(snd.window_size_)
        /\ Una' >= Una ]_vars

\* As long as the owner keeps calling tick, the oldest outstanding message is
\* acknowledged or retransmitted, whatever old, partial or impossible
\* acknowledgments keep arriving.
OldestIsRetransmitted ==
    \A n \in 0 .. (Total + 1) :
        (Una = n /\ snd.outstanding_ # <<>> /\ retransmissions_ = 0)
            ~> (Una # n \/ retransmissions_ > 0)
=============================================================================
