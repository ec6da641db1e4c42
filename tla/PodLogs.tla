------------------------------- MODULE PodLogs -------------------------------
(***************************************************************************)
(* One log stream of a release: StreamPodLogs of backend/internal/k8s/     *)
(* logs.go, with a goroutine per pod and one that closes the channels, and *)
(* the loop of StreamReleaseLogs (backend/internal/api/release_logs.go)    *)
(* that selects among the channels and writes server-sent events.  Pings   *)
(* are left out.                                                           *)
(***************************************************************************)
EXTENDS LogLines

CONSTANT Cap            \* capacity of ch: 64 in the code
ASSUME CapIsGiven == Cap \in Nat \ {0}

VARIABLES pc,           \* Pod -> where its goroutine is
          read,         \* Pod -> the lines its goroutine has scanned
          ch, errCh,    \* what the channels buffer
          closed,       \* the channels that are closed
          events,       \* what the client was sent
          handler,      \* "streaming" or "returned"
          ctxDone,      \* streamCtx is cancelled
          gone          \* the client went away

vars == <<pc, read, ch, errCh, closed, events, handler, ctxDone, gone>>

TypeOK ==
  /\ pc \in [Pod -> {"open", "scan", "send", "report", "done"}]
  /\ read \in [Pod -> 0..MaxLine]
  /\ ch \in Seq(Line) /\ Len(ch) <= Cap
  /\ errCh \in Seq(Pod) /\ Len(errCh) <= Cardinality(Pod)
  /\ closed \subseteq {"ch", "errCh"}
  /\ events \in Seq(Line \cup Pod)
  /\ handler \in {"streaming", "returned"}
  /\ ctxDone \in BOOLEAN /\ gone \in BOOLEAN

Init ==
  /\ pc = [p \in Pod |-> "open"]
  /\ read = [p \in Pod |-> 0]
  /\ ch = <<>> /\ errCh = <<>> /\ closed = {}
  /\ events = <<>>
  /\ handler = "streaming"
  /\ ctxDone = FALSE /\ gone = FALSE

-----------------------------------------------------------------------------
(* The goroutine of a pod.                                                 *)
Goto(p, l) == pc' = [pc EXCEPT ![p] = l]

Open(p) ==
  /\ pc[p] = "open"
  /\ \E l \in {"scan", "report"} : Goto(p, l)
  /\ UNCHANGED <<read, ch, errCh, closed, events, handler, ctxDone, gone>>

Scan(p) ==
  /\ pc[p] = "scan" /\ read[p] < MaxLine
  /\ read' = [read EXCEPT ![p] = @ + 1]
  /\ Goto(p, "send")
  /\ UNCHANGED <<ch, errCh, closed, events, handler, ctxDone, gone>>

(* The pod stops and its log ends, or reading it fails; a cancelled        *)
(* streamCtx fails it.                                                     *)
ScanEnds(p) ==
  /\ pc[p] = "scan"
  /\ \E l \in {"done", "report"} : Goto(p, l)
  /\ UNCHANGED <<read, ch, errCh, closed, events, handler, ctxDone, gone>>

DropWhenFull(p) ==                     \* mutant: a select with a default case
  /\ pc[p] = "send"
  /\ ch' = IF Len(ch) < Cap THEN Append(ch, <<p, read[p]>>) ELSE ch
  /\ Goto(p, "scan")
  /\ UNCHANGED <<read, errCh, closed, events, handler, ctxDone, gone>>

Send(p) ==
  /\ pc[p] = "send" /\ Len(ch) < Cap
  /\ ch' = Append(ch, <<p, read[p]>>)
  /\ Goto(p, "scan")
  /\ UNCHANGED <<read, errCh, closed, events, handler, ctxDone, gone>>

SendCancelled(p) ==
  /\ pc[p] = "send" /\ ctxDone
  /\ Goto(p, "done")
  /\ UNCHANGED <<read, ch, errCh, closed, events, handler, ctxDone, gone>>

OneError == 1                          \* mutant: make(chan error, 1)
ErrCap == Cardinality(Pod)

Report(p) ==
  /\ pc[p] = "report" /\ Len(errCh) < ErrCap
  /\ errCh' = Append(errCh, p)
  /\ Goto(p, "done")
  /\ UNCHANGED <<read, ch, closed, events, handler, ctxDone, gone>>

-----------------------------------------------------------------------------
(* The goroutine that waits for the others and closes the channels.        *)
FirstDone == \E p \in Pod : pc[p] = "done"    \* mutant: a WaitGroup of one
AllDone == \A p \in Pod : pc[p] = "done"

CloseCh ==
  /\ AllDone /\ closed = {}
  /\ closed' = {"ch"}
  /\ UNCHANGED <<pc, read, ch, errCh, events, handler, ctxDone, gone>>

CloseErrCh ==
  /\ closed = {"ch"}
  /\ closed' = {"ch", "errCh"}
  /\ UNCHANGED <<pc, read, ch, errCh, events, handler, ctxDone, gone>>

-----------------------------------------------------------------------------
(* The handler's select, one action per case; it takes any that is ready.  *)
Return ==
  /\ handler' = "returned"
  /\ ctxDone' = TRUE
  /\ UNCHANGED <<pc, read, ch, errCh, closed, events, gone>>

SelectDone ==
  /\ handler = "streaming" /\ ctxDone
  /\ Return

SelectLine ==
  /\ handler = "streaming" /\ ch # <<>>
  /\ events' = Append(events, Head(ch))
  /\ ch' = Tail(ch)
  /\ UNCHANGED <<pc, read, errCh, closed, handler, ctxDone, gone>>

SelectError ==
  /\ handler = "streaming" /\ errCh # <<>>
  /\ events' = Append(events, Head(errCh))
  /\ errCh' = Tail(errCh)
  /\ UNCHANGED <<pc, read, ch, closed, handler, ctxDone, gone>>

SpinOnClosed ==                        \* mutant: no "if !ok"
  /\ handler = "streaming" /\ closed # {}
  /\ UNCHANGED vars

SelectClosed ==
  /\ handler = "streaming"
  /\ \/ "ch" \in closed /\ ch = <<>>
     \/ "errCh" \in closed /\ errCh = <<>>
  /\ Return

ClientGoes ==
  /\ handler = "streaming" /\ ~gone
  /\ gone' = TRUE /\ ctxDone' = TRUE
  /\ UNCHANGED <<pc, read, ch, errCh, closed, events, handler>>

Goroutine(p) ==
  Open(p) \/ Scan(p) \/ ScanEnds(p) \/ Send(p) \/ SendCancelled(p) \/ Report(p)
Closer == CloseCh \/ CloseErrCh
Handler == SelectDone \/ SelectLine \/ SelectError \/ SelectClosed

Next == (\E p \in Pod : Goroutine(p)) \/ Closer \/ Handler \/ ClientGoes

(* Go runs a goroutine that can run.  A silent pod may keep Scan waiting   *)
(* for ever; once the context is cancelled a read fails sooner or later,   *)
(* whatever the scanner still has buffered.  A select chooses at random    *)
(* among the ready cases, so it does not for ever pass over one that stays *)
(* ready.                                                                  *)
Fairness ==
  /\ \A p \in Pod :
       /\ WF_vars(Open(p)) /\ WF_vars(Send(p)) /\ WF_vars(SendCancelled(p))
       /\ WF_vars(Report(p)) /\ SF_vars(ctxDone /\ ScanEnds(p))
  /\ WF_vars(Closer)
  /\ WF_vars(SelectDone) /\ WF_vars(SelectLine)
  /\ WF_vars(SelectError) /\ WF_vars(SelectClosed)

Spec == Init /\ [][Next]_vars /\ Fairness

-----------------------------------------------------------------------------
(* Properties.                                                             *)

Stream == INSTANCE LogStream WITH sent <- events, open <- handler = "streaming"

(* What the client has of a pod is the beginning of its log, without a gap *)
(* and in order, and what is buffered follows it: slow clients and full    *)
(* channels delay lines and lose none.                                     *)
LogsAreGapless ==
  \A p \in Pod :
    LET s == events \o ch IN
    /\ LogOf(p, s)
    /\ pc[p] = "scan" => LinesIn(p, s, Len(s)) = 1..read[p]

(* No goroutine sends on a closed channel, which would panic.              *)
NoSendOnClosed ==
  \A p \in Pod :
    /\ pc[p] \in {"open", "scan", "send"} => "ch" \notin closed
    /\ pc[p] \in {"open", "scan", "report"} => "errCh" \notin closed

(* When the handler returns, or the client goes away, every goroutine of   *)
(* the stream ends, although nobody reads the channels any more.           *)
NoLeak == ctxDone ~> (AllDone /\ closed = {"ch", "errCh"} /\ handler = "returned")

(* When every pod's log has ended the handler ends the response.           *)
StreamEnds == AllDone ~> handler = "returned"

(* The goroutines, the channels and the select are, for the client, a      *)
(* stream that carries every pod's log from the beginning, with at most    *)
(* one error of each pod, and nothing once the handler has returned.       *)
ImplementsStream == Stream!StreamSpec
=============================================================================
