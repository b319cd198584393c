----------------------------- MODULE EventLoop ------------------------------
(***************************************************************************)
(* EventLoop::wait_next_event() of util/eventloop.cc, for rules on file    *)
(* descriptors, which are numbered in the order they were added.  What the *)
(* loop decides is here; what the interests and callbacks do is up to the  *)
(* program that has the loop.                                              *)
(***************************************************************************)
EXTENDS FiniteSetsExt, Naturals

\* What util/file_descriptor.hh remembers of a descriptor, in an FDWrapper.
FileDescriptors == {fd \in [eof : BOOLEAN, closed : BOOLEAN] : fd.closed => fd.eof}

NewFD == [eof |-> FALSE, closed |-> FALSE]

ReachEOF(fd) == [fd EXCEPT !.eof = TRUE]

\* Wrong close, for the mutation checks: the descriptor may still be read.
CloseFDReadable(fd) == [fd EXCEPT !.closed = TRUE]

CloseFD(fd) == [eof |-> TRUE, closed |-> TRUE]

\* The rules that are cancelled and erased before the call of poll().
Ended(rules, direction, fd) ==
    {r \in rules : (direction[r] = "IN" /\ fd[r].eof) \/ fd[r].closed}

(***************************************************************************)
(* What the results of poll() make of a rule: one whose descriptor has an  *)
(* error, or is hung up and will not be ready again, is defunct.           *)
(***************************************************************************)
\* Wrong outcome, for the mutation checks: a hangup counts also with data to read.
HungUpOutcome(direction, interested, revents) ==
    CASE "ERR" \in revents -> "failed"
      [] "HUP" \in revents /\ "ERR" \notin revents -> "hungup"
      [] interested /\ direction \in revents /\ revents \intersect {"ERR", "HUP"} = {} -> "ready"
      [] OTHER -> "none"

Outcome(direction, interested, revents) ==
    IF "ERR" \in revents THEN "failed"
    ELSE IF /\ "HUP" \in revents
            /\ direction = "OUT" \/ (interested /\ direction \notin revents)
    THEN "hungup"
    ELSE IF interested /\ direction \in revents THEN "ready"
    ELSE "none"

Outcomes(rules, direction, interested, revents) ==
    [r \in rules |-> Outcome(direction[r], r \in interested, revents[r])]

\* The first rule that is ready is served, and the walk ends there.
Served(outcome) ==
    LET ready == {r \in DOMAIN outcome : outcome[r] = "ready"}
    IN  IF ready = {} THEN 0 ELSE Min(ready)

\* The defunct rules that the walk comes to, which it erases.
Defunct(outcome, which) ==
    {r \in DOMAIN outcome : outcome[r] = which /\ (Served(outcome) = 0 \/ r < Served(outcome))}

\* poll() returns when a rule has an event it asked for, an error or a hangup.
Returns(rules, direction, interested, revents) ==
    \E r \in rules : \/ revents[r] \intersect {"ERR", "HUP"} # {}
                     \/ r \in interested /\ direction[r] \in revents[r]

\* The exception after a callback that neither read nor wrote its descriptor.
BusyWait(counted, fd, interested) == ~counted /\ ~fd.closed /\ interested
=============================================================================
