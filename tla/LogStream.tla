------------------------------ MODULE LogStream ------------------------------
(***************************************************************************)
(* What one answer to GET /v1/releases/{id}/logs promises, seen by who     *)
(* reads it: a stream of server-sent events that carries the log of every  *)
(* pod from its beginning, in order and without a gap, with at most one    *)
(* error of each pod, until the server ends it.  PodLogs implements it;    *)
(* LogsPanel reads one after another of such streams.                      *)
(***************************************************************************)
EXTENDS LogLines

VARIABLES sent,         \* the events: the n-th line <<p, n>> of p, or an error p
          open          \* the server may send more

StreamInit == sent = <<>> /\ open = TRUE

SendEvent(e) == open /\ sent' = Append(sent, e) /\ UNCHANGED open

SendLine(p) ==
  \E n \in 1..MaxLine :
    LinesIn(p, sent, Len(sent)) = 1..(n - 1) /\ SendEvent(<<p, n>>)

SendError(p) == (\A i \in DOMAIN sent : sent[i] # p) /\ SendEvent(p)

CloseStream == open /\ open' = FALSE /\ UNCHANGED sent

StreamNext == CloseStream \/ \E p \in Pod : SendLine(p) \/ SendError(p)

StreamSpec == StreamInit /\ [][StreamNext]_<<sent, open>>
=============================================================================
