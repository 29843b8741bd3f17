---------------------------- MODULE TrafficRelay ----------------------------
(***************************************************************************)
(* The relay of a SOCKS5 connection, agent/src/socks5/relay.rs: two copies *)
(* run at a time, "out" from the client to the target and "in" back; each  *)
(* ends when its source has ended or an operation fails, the relay when    *)
(* both have ended.  A chunk is one byte.                                  *)
(***************************************************************************)
EXTENDS Integers, FiniteSets

CONSTANT Conns

VARIABLES
    ended,      \* the source of a copy will not send any more
    pending,    \* bytes on their way to the copy
    stage,      \* of a copy
    over,       \* relays that have returned
    counter,    \* bytes_in and bytes_out of the process
    sent, delivered \* history: bytes sent to a copy, and written by it

relayVars == <<ended, pending, stage, over, counter, sent, delivered>>

Dirs == {"in", "out"}
Copies == Conns \X Dirs
Ended == {"done", "failed"}

RelayTypeOK ==
    /\ ended \in [Copies -> BOOLEAN]
    /\ pending \in [Copies -> Nat] /\ sent \in [Copies -> Nat] /\ delivered \in [Copies -> Nat]
    /\ stage \in [Copies -> {"off", "read", "write", "count"} \cup Ended]
    /\ over \subseteq Conns
    /\ counter \in [Dirs -> Nat]

\* A process that has just started.
Fresh ==
    [ended |-> [f \in Copies |-> FALSE],
     numbers |-> [f \in Copies |-> 0],
     stage |-> [f \in Copies |-> "off"],
     counter |-> [d \in Dirs |-> 0]]

RelayInit ==
    /\ ended = Fresh.ended
    /\ pending = Fresh.numbers /\ sent = Fresh.numbers /\ delivered = Fresh.numbers
    /\ stage = Fresh.stage
    /\ over = {}
    /\ counter = Fresh.counter

\* The agent starts again: connections and counters are gone.
RelayRestart ==
    /\ ended' = Fresh.ended
    /\ pending' = Fresh.numbers /\ sent' = Fresh.numbers /\ delivered' = Fresh.numbers
    /\ stage' = Fresh.stage
    /\ over' = {}
    /\ counter' = Fresh.counter

Goto(f, label) == stage' = [stage EXCEPT ![f] = label]
Running(f) == stage[f] \notin {"off"} \cup Ended

-----------------------------------------------------------------------------
\* handle_connection has connected the client to its target.
Open(c) ==
    /\ \A d \in Dirs : stage[<<c, d>>] = "off"
    /\ stage' = [f \in Copies |-> IF f[1] = c THEN "read" ELSE stage[f]]
    /\ UNCHANGED <<ended, pending, over, counter, sent, delivered>>

\* The client and the target: they send, and end or half-close.
Send(f) ==
    /\ Running(f) /\ ~ended[f]
    /\ pending' = [pending EXCEPT ![f] = @ + 1]
    /\ sent' = [sent EXCEPT ![f] = @ + 1]
    /\ UNCHANGED <<ended, stage, over, counter, delivered>>

EndSource(f) ==
    /\ Running(f) /\ ~ended[f]
    /\ ended' = [ended EXCEPT ![f] = TRUE]
    /\ UNCHANGED <<pending, stage, over, counter, sent, delivered>>

\* read: a chunk ...
Read(f) ==
    /\ stage[f] = "read" /\ pending[f] > 0
    /\ pending' = [pending EXCEPT ![f] = @ - 1]
    /\ Goto(f, "write")
    /\ UNCHANGED <<ended, over, counter, sent, delivered>>

\* Variant (a bug a run must notice): an empty read is taken for a chunk.
ReadEndNot(f) ==
    /\ stage[f] = "read" /\ pending[f] = 0 /\ ended[f]
    /\ UNCHANGED relayVars

\* ... or nothing any more: the other side is shut down.
ReadEnd(f) ==
    /\ stage[f] = "read" /\ pending[f] = 0 /\ ended[f]
    /\ Goto(f, "done")
    /\ UNCHANGED <<ended, pending, over, counter, sent, delivered>>

\* write_all returns: the receiver has made room.
Write(f) ==
    /\ stage[f] = "write"
    /\ delivered' = [delivered EXCEPT ![f] = @ + 1]
    /\ Goto(f, "count")
    /\ UNCHANGED <<ended, pending, over, counter, sent>>

\* Variant (a bug a run must notice): both directions are counted as one.
CounterOfOut(f) == "out"
CounterOf(f) == f[2]

Count(f) ==
    /\ stage[f] = "count"
    /\ counter' = [counter EXCEPT ![CounterOf(f)] = @ + 1]
    /\ Goto(f, "read")
    /\ UNCHANGED <<ended, pending, over, sent, delivered>>

\* read, write_all or shutdown fails.
Fail(f) ==
    /\ stage[f] \in {"read", "write"}
    /\ Goto(f, "failed")
    /\ UNCHANGED <<ended, pending, over, counter, sent, delivered>>

\* join! waits for both copies, failed or not.
Returns(c) == \A d \in Dirs : stage[<<c, d>>] \in Ended

\* The sockets are dropped, and with them a copy that has not ended.
Return(c) ==
    /\ c \notin over /\ Returns(c)
    /\ over' = over \cup {c}
    /\ stage' = [f \in Copies |-> IF f[1] = c /\ Running(f) THEN "done" ELSE stage[f]]
    /\ UNCHANGED <<ended, pending, counter, sent, delivered>>

-----------------------------------------------------------------------------
\* What a copy does by itself.
Advance(f) == Read(f) \/ ReadEnd(f) \/ Count(f)
Copy(f) == Advance(f) \/ Write(f)

RelayStep(c) == (\E d \in Dirs : Copy(<<c, d>>)) \/ Return(c)

\* What a relay does whether its peers read or not.
Unhindered(c) == (\E d \in Dirs : Advance(<<c, d>>)) \/ Return(c)

-----------------------------------------------------------------------------
WholeStream ==
    \A f \in Copies : f[1] \in over /\ stage[f] = "done" => delivered[f] = sent[f]

\* Chunks of a direction: those delivered, by connection and number, and the
\* connections whose last one is not counted yet.
Delivered(d) == UNION {{<<c, n>> : n \in 1..delivered[<<c, d>>]} : c \in Conns}
Uncounted(d) == {c \in Conns : stage[<<c, d>>] = "count"}

CountsDelivered ==
    \A d \in Dirs : counter[d] + Cardinality(Uncounted(d)) = Cardinality(Delivered(d))

\* A relay that is over has delivered, in each direction, all that was sent
\* until the source ended, unless that very direction failed: the end of one
\* direction never cuts off the other.  A counter is what has been delivered in
\* its direction, but for the chunks that are just about to be counted.
RelayExact == WholeStream /\ CountsDelivered
=============================================================================
