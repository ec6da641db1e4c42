------------------------------ MODULE LogsPanel ------------------------------
(***************************************************************************)
(* The panel that shows the logs of a release (frontend/components/        *)
(* LogsPanel.tsx) at the end of the frontend's proxy (app/api/v1/[...path]/*)
(* route.ts).  It reads a LogStream by an EventSource, which connects anew *)
(* by itself whenever a stream breaks or ends; the server then sends every *)
(* log from its beginning again.                                           *)
(***************************************************************************)
EXTENDS FiniteSetsExt, LogStream

CONSTANTS LINE_CAP,     \* 2000 in the code
          MaxStreams,   \* bound on the streams that are opened, one by one
          MaxFlight     \* bound on the events on their way

ASSUME PanelIsGiven == LINE_CAP \in Nat \ {0, 1} /\ "all" \notin Pod
ASSUME BoundsAreNat == {MaxStreams, MaxFlight} \subseteq Nat

VARIABLES instance,     \* the pod that was chosen, or "all"
          source,       \* readyState of the EventSource
          status,       \* what the dot says
          stream,       \* the number of the stream that is read
          taken,        \* how many of its events have arrived
          served,       \* the streams that the server has a handler for
          lines, seqRef,
          cleared       \* seqRef at the last Clear: history

panelVars == <<sent, open, instance, source, status, stream, taken, served, lines, seqRef, cleared>>

Wanted == IF instance = "all" THEN Pod ELSE {instance}
PodOf(e) == IF e \in Pod THEN e ELSE e[1]

PanelTypeOK ==
  /\ open \in BOOLEAN /\ instance \in Pod \cup {"all"}
  /\ source \in {"connecting", "open", "closed"}
  /\ status \in {"connecting", "connected", "disconnected"}
  /\ stream \in 0..MaxStreams /\ taken \in 0..Len(sent)
  /\ served \subseteq 1..stream
  /\ source = "open" => status # "connecting"
  /\ source = "closed" => status = "disconnected"

PanelInit ==
  /\ sent = <<>> /\ open = FALSE /\ instance = "all"
  /\ source = "connecting" /\ status = "connecting"
  /\ stream = 0 /\ taken = 0 /\ served = {}
  /\ lines = <<>> /\ seqRef = 0 /\ cleared = 0

Idle == sent' = <<>> /\ open' = FALSE /\ taken' = 0
Shown == <<lines, seqRef, cleared>>

-----------------------------------------------------------------------------
(* The server, behind the proxy: it sends the pods that are wanted, and    *)
(* may end the stream.                                                     *)
ServerSends ==
  /\ source = "open" /\ Len(sent) - taken < MaxFlight
  /\ \E p \in Wanted : SendLine(p) \/ SendError(p)
  /\ UNCHANGED <<instance, source, status, stream, taken, served, Shown>>

ServerEnds ==
  /\ source = "open" /\ CloseStream
  /\ served' = served \ {stream}
  /\ UNCHANGED <<instance, source, status, stream, taken, Shown>>

(* The proxy hands the browser's disconnect on, and the handler returns.   *)
NoSignal(s) == FALSE                   \* mutant: fetch without req.signal
Abandoned(s) == s # stream \/ source # "open"
ServerNotices(s) ==
  /\ s \in served /\ Abandoned(s)
  /\ served' = served \ {s}
  /\ UNCHANGED <<sent, open, instance, source, status, stream, taken, Shown>>

-----------------------------------------------------------------------------
(* The EventSource.  Any status but 200 closes it for good.                *)

Connect ==
  /\ source = "connecting" /\ stream < MaxStreams
  /\ source' = "open" /\ status' = "connected"
  /\ sent' = <<>> /\ open' = TRUE /\ taken' = 0
  /\ stream' = stream + 1 /\ served' = served \cup {stream + 1}
  /\ UNCHANGED <<instance, Shown>>

Refuse ==
  /\ source = "connecting"
  /\ source' = "closed" /\ status' = "disconnected"
  /\ UNCHANGED <<sent, open, instance, stream, taken, served, Shown>>

(* The stream breaks, whatever is on its way, or the server has ended it   *)
(* and everything has arrived.                                             *)
Disconnect ==
  /\ source = "open"
  /\ source' = "connecting" /\ status' = "disconnected"
  /\ Idle
  /\ UNCHANGED <<instance, stream, served, Shown>>

-----------------------------------------------------------------------------
(* An event arrives.  One that is called "error" also reaches onerror.     *)
TrimLate(s) ==                         \* mutant: slice(-LINE_CAP)
  IF Len(s) >= LINE_CAP THEN SubSeq(s, Len(s) - LINE_CAP + 1, Len(s)) ELSE s
Trimmed(s) ==
  IF Len(s) >= LINE_CAP THEN SubSeq(s, Len(s) - LINE_CAP + 2, Len(s)) ELSE s

Show(e) ==
  /\ seqRef' = seqRef + 1
  /\ lines' = Append(Trimmed(lines), [id |-> seqRef + 1, stream |-> stream, event |-> e])

Arrive ==
  /\ source = "open" /\ taken < Len(sent)
  /\ taken' = taken + 1
  /\ Show(sent[taken + 1])
  /\ status' = IF sent[taken + 1] \in Pod THEN "disconnected" ELSE status
  /\ UNCHANGED <<sent, open, instance, source, stream, served, cleared>>

-----------------------------------------------------------------------------
(* The user.                                                               *)
Clear ==
  /\ lines # <<>>
  /\ lines' = <<>> /\ cleared' = seqRef
  /\ UNCHANGED <<sent, open, instance, source, status, stream, taken, served, seqRef>>

(* Another instance is another key: the stream's component is left, which  *)
(* closes its EventSource, and one that knows nothing takes its place.     *)
KeepLines == UNCHANGED Shown           \* mutant: no key
Forget == lines' = <<>> /\ seqRef' = 0 /\ cleared' = 0

SelectInstance(i) ==
  /\ i # instance /\ instance' = i
  /\ source' = "connecting" /\ status' = "connecting"
  /\ Idle /\ Forget
  /\ UNCHANGED <<stream, served>>

PanelNext ==
  \/ ServerSends \/ ServerEnds \/ Connect \/ Refuse \/ Disconnect \/ Arrive \/ Clear
  \/ \E s \in served : ServerNotices(s)
  \/ \E i \in Pod \cup {"all"} : SelectInstance(i)

(* What was sent arrives or the connection breaks, a lost client is        *)
(* noticed, and an EventSource that connects again is answered.            *)
PanelFairness ==
  /\ WF_panelVars(Arrive) /\ WF_panelVars(~open /\ taken = Len(sent) /\ Disconnect)
  /\ \A s \in 1..MaxStreams : WF_panelVars(ServerNotices(s))

PanelSpec == PanelInit /\ [][PanelNext]_panelVars /\ PanelFairness

-----------------------------------------------------------------------------
(* Properties.                                                             *)

(* The rows are the newest of what has arrived since the panel was last    *)
(* empty, as many as LINE_CAP allows; their ids, the keys of React's list, *)
(* are all different and in order, also after a Clear and after rows were  *)
(* cut off; of one stream and one pod they are consecutive lines, although *)
(* a stream that is connected anew repeats the log.                        *)
SameLog(i, j) ==
  /\ lines[i].stream = lines[j].stream
  /\ lines[i].event \notin Pod /\ lines[j].event \notin Pod
  /\ PodOf(lines[i].event) = PodOf(lines[j].event)
NumberAt(i) == lines[i].event[2]
RowsAreTheNewest ==
  /\ Len(lines) = Min({LINE_CAP, seqRef - cleared})
  /\ \A i \in DOMAIN lines : lines[i].id = seqRef - Len(lines) + i
  /\ \A j \in DOMAIN lines : \A i \in 1..(j - 1) :
       SameLog(i, j) =>
         /\ NumberAt(i) < NumberAt(j)
         /\ \E h \in i..(j - 1) : SameLog(h, j) /\ NumberAt(h) = NumberAt(j) - 1

(* Nothing is shown of a pod that is not chosen, although events of the    *)
(* stream before may have been on their way when it was.                   *)
OnlyChosen == \A i \in DOMAIN lines : PodOf(lines[i].event) \in Wanted

(* A stream that the panel has left, because another instance was chosen   *)
(* or the connection broke, is given up by the server, although its pods   *)
(* may be silent for ever: each holds a goroutine per pod.                 *)
LeftIsGivenUp ==
  \A s \in 1..MaxStreams :
    s \in served /\ (stream # s \/ source # "open") ~> s \notin served
=============================================================================
