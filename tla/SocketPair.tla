----------------------------- MODULE SocketPair -----------------------------
(***************************************************************************)
(* A pair of connected AF_UNIX stream sockets, as the kernel keeps them    *)
(* for the two threads of a TCPMinnowSocket: what an end has to read, and  *)
(* the ends that may no longer write or will receive no more.              *)
(***************************************************************************)
EXTENDS Naturals

CONSTANT SocketRoom  \* bytes that fit in one direction

ASSUME RoomAssumption == SocketRoom \in Nat \ {0}

Ends == {"owner", "thread"}
Far(e) == IF e = "owner" THEN "thread" ELSE "owner"

Pairs == [queued : [Ends -> 0 .. SocketRoom], no_send : SUBSET Ends, no_receive : SUBSET Ends]

NewPair == [queued |-> [e \in Ends |-> 0], no_send |-> {}, no_receive |-> {}]

\* shutdown() of both directions tells the far end too.
ShutWrite(p, e) == [p EXCEPT !.no_send = @ \union {e}, !.no_receive = @ \union {Far(e)}]

ShutBoth(p) == [p EXCEPT !.no_send = Ends, !.no_receive = Ends]

Room(p, e) == SocketRoom - p.queued[Far(e)]

\* A write to a direction that is shut raises SIGPIPE.
Writable(p, e) == e \notin p.no_send

Wrote(p, e, n) == [p EXCEPT !.queued[Far(e)] = @ + n]
Got(p, e, n)   == [p EXCEPT !.queued[e] = @ - n]

\* What poll() reports of an end.  Data stays readable after a shutdown.
Events(p, e) ==
    {ev \in {"IN", "OUT", "HUP"} :
        \/ ev = "IN" /\ (p.queued[e] > 0 \/ e \in p.no_receive)
        \/ ev = "OUT" /\ Room(p, e) > 0
        \/ ev = "HUP" /\ e \in p.no_send /\ e \in p.no_receive}
=============================================================================
