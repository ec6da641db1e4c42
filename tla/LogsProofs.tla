------------------------------ MODULE LogsProofs ------------------------------
(* Theorems of PodLogs and LogsPanel, the two ends of a log stream, for any  *)
(* finite set of pods and any number of lines.  They share no state; what    *)
(* they share is LogLines, and LogStream, which one implements and the other *)
(* reads.                                                                    *)
EXTENDS PodLogs, LogsPanel, FiniteSetTheorems, TLAPS

-----------------------------------------------------------------------------
(* The server, for any capacity of the channel.  The inductive invariant    *)
(* IInv says of each pod which lines are in the client's hands or buffered  *)
(* while its goroutine scans, and while it waits to send the line it has    *)
(* scanned; and that a channel is closed only when every goroutine is done. *)

All == events \o ch

(* Nothing of a pod is missing from All but the line its goroutine holds.   *)
NothingIsLost ==
  \A p \in Pod :
    /\ LogOf(p, All)
    /\ pc[p] = "open" => read[p] = 0
    /\ pc[p] \in {"open", "scan"} => LinesIn(p, All, Len(All)) = 1..read[p]
    /\ pc[p] = "send" =>
         /\ read[p] \in 1..MaxLine
         /\ LinesIn(p, All, Len(All)) = 1..(read[p] - 1)

ClosedWhenDone ==
  /\ closed \in {{}, {"ch"}, {"ch", "errCh"}}
  /\ closed # {} => AllDone

(* An error is reported last, and once.                                     *)
ReportedOnce ==
  /\ \A i \in DOMAIN events : events[i] \in Pod => pc[events[i]] = "done"
  /\ \A i \in DOMAIN errCh :
       /\ pc[errCh[i]] = "done"
       /\ \A j \in DOMAIN events : events[j] # errCh[i]
       /\ \A j \in DOMAIN errCh : errCh[j] = errCh[i] => i = j

IInv == TypeOK /\ NothingIsLost /\ ClosedWhenDone /\ ReportedOnce

-----------------------------------------------------------------------------
(* What an event at the end does to the lines of a pod.                     *)
LEMMA LinesAppended ==
  ASSUME NEW s \in Seq(Line \cup Pod), NEW e \in Line \cup Pod, NEW q \in Pod
  PROVE  /\ Append(s, e) \in Seq(Line \cup Pod)
         /\ \A m \in 0..Len(s) :
              LinesIn(q, Append(s, e), m) = LinesIn(q, s, m)
         /\ LinesIn(q, Append(s, e), Len(s) + 1) =
              LinesIn(q, s, Len(s)) \cup {n \in 1..MaxLine : e = <<q, n>>}
<1> DEFINE t == Append(s, e)
<1>1. /\ t \in Seq(Line \cup Pod) /\ Len(t) = Len(s) + 1 /\ t[Len(s) + 1] = e
      /\ \A i \in 1..Len(s) : t[i] = s[i]
      /\ Len(s) \in Nat
  OBVIOUS
<1>2. \A m \in 0..Len(s) : LinesIn(q, t, m) = LinesIn(q, s, m)
  BY <1>1 DEF LinesIn
<1>3. LinesIn(q, t, Len(s) + 1) =
        LinesIn(q, s, Len(s)) \cup {n \in 1..MaxLine : e = <<q, n>>}
  <2>1. 1..(Len(s) + 1) = (1..Len(s)) \cup {Len(s) + 1}
    BY <1>1
  <2>2. \A n : (\E i \in 1..(Len(s) + 1) : t[i] = <<q, n>>)
                 <=> (\E i \in 1..Len(s) : s[i] = <<q, n>>) \/ e = <<q, n>>
    BY <1>1, <2>1
  <2> HIDE DEF t
  <2>3. QED
    BY <2>2 DEF LinesIn
<1>4. QED
  BY <1>1, <1>2, <1>3

(* The next line of a pod at the end.                                       *)
LEMMA LineAppended ==
  ASSUME NEW s \in Seq(Line \cup Pod), NEW p \in Pod, NEW n \in 1..MaxLine,
         LinesIn(p, s, Len(s)) = 1..(n - 1),
         \A q \in Pod : LogOf(q, s)
  PROVE  LET t == Append(s, <<p, n>>) IN
         /\ t \in Seq(Line \cup Pod)
         /\ \A q \in Pod : LogOf(q, t)
         /\ LinesIn(p, t, Len(t)) = 1..n
         /\ \A q \in Pod \ {p} :
              LinesIn(q, t, Len(t)) = LinesIn(q, s, Len(s))
<1> DEFINE t == Append(s, <<p, n>>)
<1>1. <<p, n>> \in Line
  BY DEF Line
<1>2. /\ t \in Seq(Line \cup Pod)
      /\ \A q \in Pod : \A m \in 0..Len(s) : LinesIn(q, t, m) = LinesIn(q, s, m)
      /\ \A q \in Pod : LinesIn(q, t, Len(s) + 1) =
           LinesIn(q, s, Len(s)) \cup {k \in 1..MaxLine : <<p, n>> = <<q, k>>}
  <2>1. ASSUME NEW e \in Line \cup Pod, e = <<p, n>>, NEW q \in Pod
        PROVE  /\ t \in Seq(Line \cup Pod)
               /\ \A m \in 0..Len(s) : LinesIn(q, t, m) = LinesIn(q, s, m)
               /\ LinesIn(q, t, Len(s) + 1) =
                    LinesIn(q, s, Len(s)) \cup {k \in 1..MaxLine : e = <<q, k>>}
    BY <2>1, LinesAppended
  <2>2. QED
    BY <1>1, <2>1
<1>3. /\ Len(t) = Len(s) + 1 /\ t[Len(s) + 1] = <<p, n>> /\ Len(s) \in Nat
      /\ \A i \in 1..Len(s) : t[i] = s[i]
      /\ DOMAIN t = 1..(Len(s) + 1) /\ DOMAIN s = 1..Len(s)
  OBVIOUS
<1> HIDE DEF t
<1>4. LinesIn(p, t, Len(t)) = 1..n
  <2>1. {k \in 1..MaxLine : <<p, n>> = <<p, k>>} = {n}
    OBVIOUS
  <2>2. (1..(n - 1)) \cup {n} = 1..n
    BY CapIsGiven, PodsAreNoLines
  <2>3. QED
    BY <1>2, <1>3, <2>1, <2>2
<1>5. \A q \in Pod \ {p} : LinesIn(q, t, Len(t)) = LinesIn(q, s, Len(s))
  <2>1. \A q \in Pod \ {p} : {k \in 1..MaxLine : <<p, n>> = <<q, k>>} = {}
    OBVIOUS
  <2>2. QED
    BY <1>2, <1>3, <2>1
<1>6. \A q \in Pod : LogOf(q, t)
  <2> SUFFICES ASSUME NEW q \in Pod, NEW i \in DOMAIN t, NEW k \in 1..MaxLine,
                      t[i] = <<q, k>>
               PROVE  LinesIn(q, t, i - 1) = 1..(k - 1)
    BY DEF LogOf
  <2>1. CASE i = Len(s) + 1
    BY <1>2, <1>3, <2>1
  <2>2. CASE i \in 1..Len(s)
    <3>1. LinesIn(q, s, i - 1) = 1..(k - 1)
      BY <1>3, <2>2 DEF LogOf
    <3>2. i - 1 \in 0..Len(s)
      BY <1>3, <2>2
    <3>3. QED
      BY <1>2, <3>1, <3>2
  <2>3. QED
    BY <1>3, <2>1, <2>2
<1>7. QED
  BY <1>2, <1>4, <1>5, <1>6 DEF t

(* An error between the events and what is buffered leaves the lines alone. *)
LEMMA ErrorInserted ==
  ASSUME NEW e \in Seq(Line \cup Pod), NEW c \in Seq(Line), NEW p \in Pod,
         NEW q \in Pod, LogOf(q, e \o c)
  PROVE  LET s == e \o c
             t == Append(e, p) \o c
         IN  /\ LogOf(q, t)
             /\ LinesIn(q, t, Len(t)) = LinesIn(q, s, Len(s))
<1> DEFINE s == e \o c
           t == Append(e, p) \o c
<1>1. /\ Len(e) \in Nat /\ Len(c) \in Nat
      /\ Len(s) = Len(e) + Len(c) /\ Len(t) = Len(e) + Len(c) + 1
      /\ DOMAIN s = 1..Len(s) /\ DOMAIN t = 1..Len(t)
  OBVIOUS
<1>2. /\ \A i \in 1..Len(e) : t[i] = s[i]
      /\ t[Len(e) + 1] = p
      /\ \A i \in (Len(e) + 2)..Len(t) : t[i] = s[i - 1]
  OBVIOUS
<1>3. \A k \in 1..MaxLine : p # <<q, k>>
  BY PodsAreNoLines
<1> HIDE DEF s, t
<1>4. \A m \in 0..Len(e) : LinesIn(q, t, m) = LinesIn(q, s, m)
  <2> SUFFICES ASSUME NEW m \in 0..Len(e), NEW k \in 1..MaxLine
               PROVE  (\E i \in 1..m : t[i] = <<q, k>>)
                        <=> (\E i \in 1..m : s[i] = <<q, k>>)
    BY DEF LinesIn
  <2>1. \A i \in 1..m : t[i] = s[i]
    BY <1>1, <1>2
  <2>2. QED
    BY <2>1
<1>5. \A m \in (Len(e) + 1)..Len(t) :
        LinesIn(q, t, m) = LinesIn(q, s, m - 1)
  <2> SUFFICES ASSUME NEW m \in (Len(e) + 1)..Len(t), NEW k \in 1..MaxLine
               PROVE  (\E i \in 1..m : t[i] = <<q, k>>)
                        <=> (\E i \in 1..(m - 1) : s[i] = <<q, k>>)
    BY DEF LinesIn
  <2>1. ASSUME NEW i \in 1..m, t[i] = <<q, k>>
        PROVE  \E j \in 1..(m - 1) : s[j] = <<q, k>>
    <3>1. CASE i <= Len(e)
      <4>1. i \in 1..(m - 1) /\ i \in 1..Len(e)
        BY <1>1, <3>1
      <4>2. s[i] = <<q, k>>
        BY <1>2, <2>1, <4>1
      <4>3. QED
        BY <4>1, <4>2
    <3>2. CASE i > Len(e)
      <4>1. i # Len(e) + 1
        BY <1>2, <1>3, <2>1
      <4>2. i - 1 \in 1..(m - 1) /\ s[i - 1] = <<q, k>>
        BY <1>1, <1>2, <2>1, <3>2, <4>1
      <4>3. QED
        BY <4>2
    <3>3. i <= Len(e) \/ i > Len(e)
      BY <1>1
    <3>4. QED
      BY <3>1, <3>2, <3>3, Zenon
  <2>2. ASSUME NEW i \in 1..(m - 1), s[i] = <<q, k>>
        PROVE  \E j \in 1..m : t[j] = <<q, k>>
    <3>1. CASE i <= Len(e)
      <4>1. i \in 1..m /\ i \in 1..Len(e)
        BY <1>1, <3>1
      <4>2. t[i] = <<q, k>>
        BY <1>2, <2>2, <4>1
      <4>3. QED
        BY <4>1, <4>2
    <3>2. CASE i > Len(e)
      <4>1. i + 1 \in 1..m /\ i + 1 \in (Len(e) + 2)..Len(t) /\ (i + 1) - 1 = i
        BY <1>1, <3>2
      <4>2. t[i + 1] = <<q, k>>
        BY <1>2, <2>2, <4>1
      <4>3. QED
        BY <4>1, <4>2
    <3>3. i <= Len(e) \/ i > Len(e)
      BY <1>1
    <3>4. QED
      BY <3>1, <3>2, <3>3, Zenon
  <2>3. QED
    BY <2>1, <2>2
<1>6. LinesIn(q, t, Len(t)) = LinesIn(q, s, Len(s))
  BY <1>1, <1>5
<1>7. LogOf(q, t)
  <2> SUFFICES ASSUME NEW i \in DOMAIN t, NEW k \in 1..MaxLine, t[i] = <<q, k>>
               PROVE  LinesIn(q, t, i - 1) = 1..(k - 1)
    BY DEF LogOf
  <2>1. \A j \in DOMAIN s : s[j] = <<q, k>> => LinesIn(q, s, j - 1) = 1..(k - 1)
    BY DEF LogOf, s
  <2>2. CASE i <= Len(e)
    <3>1. i \in DOMAIN s /\ s[i] = <<q, k>> /\ i - 1 \in 0..Len(e)
      BY <1>1, <1>2, <2>2
    <3>2. QED
      BY <1>4, <2>1, <3>1
  <2>3. CASE i > Len(e)
    <3>1. i # Len(e) + 1
      BY <1>2, <1>3
    <3>2. /\ i - 1 \in DOMAIN s /\ s[i - 1] = <<q, k>>
          /\ i - 1 \in (Len(e) + 1)..Len(t)
      BY <1>1, <1>2, <2>3, <3>1
    <3>3. QED
      BY <1>5, <2>1, <3>2
  <2>4. QED
    BY <1>1, <2>2, <2>3
<1>8. QED
  BY <1>6, <1>7 DEF s, t

-----------------------------------------------------------------------------
LEMMA Sizes == Cardinality(Pod) \in Nat
BY PodsAreFinite, FS_CardinalityType

(* The lines that All carries, when All is as it was.                       *)
LEMMA SameLines ==
  ASSUME UNCHANGED <<ch, events>>
  PROVE  \A p \in Pod : /\ LogOf(p, All)' <=> LogOf(p, All)
                        /\ LinesIn(p, All, Len(All))' = LinesIn(p, All, Len(All))
BY DEF All, LogOf, LinesIn

LEMMA InvInit == Init => IInv
<1> SUFFICES ASSUME Init PROVE IInv
  OBVIOUS
<1>1. TypeOK
  <2>1. /\ <<>> \in Seq(Line) /\ <<>> \in Seq(Pod) /\ <<>> \in Seq(Line \cup Pod)
        /\ Len(<<>>) = 0
    OBVIOUS
  <2>2. Cap \in Nat /\ MaxLine \in Nat /\ 0 <= Cap /\ 0 <= Cardinality(Pod) /\ 0 \in 0..MaxLine
    BY Sizes, CapIsGiven, PodsAreNoLines
  <2>3. /\ ch \in Seq(Line) /\ Len(ch) <= Cap /\ errCh \in Seq(Pod)
        /\ Len(errCh) <= Cardinality(Pod) /\ events \in Seq(Line \cup Pod)
    BY <2>1, <2>2 DEF Init
  <2>4. QED
    BY <2>2, <2>3 DEF Init, TypeOK
<1>2. NothingIsLost
  <2>1. All = <<>>
    BY DEF Init, All
  <2>2. \A p \in Pod : LogOf(p, All) /\ LinesIn(p, All, Len(All)) = 1..0
    BY <2>1 DEF LogOf, LinesIn
  <2>3. QED
    BY <2>2 DEF Init, NothingIsLost
<1>3. ClosedWhenDone /\ ReportedOnce
  BY DEF Init, ClosedWhenDone, ReportedOnce
<1>4. QED
  BY <1>1, <1>2, <1>3 DEF IInv

(* The goroutine of a pod.                                                  *)
LEMMA InvGoroutine == ASSUME IInv, NEW p \in Pod, Goroutine(p) PROVE IInv'
<1> USE DEF IInv
<1>1. CASE Open(p)
  <2>1. TypeOK' /\ ClosedWhenDone' /\ ReportedOnce'
    BY <1>1 DEF Open, Goto, TypeOK, ClosedWhenDone, ReportedOnce, AllDone
  <2>2. NothingIsLost'
    BY <1>1, SameLines DEF Open, Goto, TypeOK, NothingIsLost
  <2>3. QED
    BY <2>1, <2>2
<1>2. CASE Scan(p)
  <2>1. TypeOK' /\ ClosedWhenDone' /\ ReportedOnce'
    BY <1>2, CapIsGiven, PodsAreNoLines DEF Scan, Goto, TypeOK, ClosedWhenDone, ReportedOnce, AllDone
  <2>2. NothingIsLost'
    <3>1. \A q \in Pod \ {p} : pc'[q] = pc[q] /\ read'[q] = read[q]
      BY <1>2 DEF Scan, Goto, TypeOK
    <3>2. pc'[p] = "send" /\ read'[p] = read[p] + 1 /\ read'[p] \in 1..MaxLine
      BY <1>2, CapIsGiven, PodsAreNoLines DEF Scan, Goto, TypeOK
    <3>3. LinesIn(p, All, Len(All)) = 1..(read'[p] - 1)
      <4>1. read'[p] - 1 = read[p]
        BY <3>2 DEF TypeOK
      <4>2. QED
        BY <1>2, <4>1 DEF Scan, NothingIsLost
    <3>4. QED
      BY <1>2, <3>1, <3>2, <3>3, SameLines DEF Scan, NothingIsLost
  <2>3. QED
    BY <2>1, <2>2
<1>3. CASE ScanEnds(p)
  <2>1. TypeOK' /\ ClosedWhenDone' /\ ReportedOnce'
    BY <1>3 DEF ScanEnds, Goto, TypeOK, ClosedWhenDone, ReportedOnce, AllDone
  <2>2. NothingIsLost'
    BY <1>3, SameLines DEF ScanEnds, Goto, TypeOK, NothingIsLost
  <2>3. QED
    BY <2>1, <2>2
<1>4. CASE Send(p)
  <2>1. /\ read[p] \in 1..MaxLine /\ <<p, read[p]>> \in Line
        /\ LinesIn(p, All, Len(All)) = 1..(read[p] - 1)
    BY <1>4 DEF Send, NothingIsLost, Line
  <2>2. All \in Seq(Line \cup Pod) /\ All' = Append(All, <<p, read[p]>>)
    BY <1>4, <2>1 DEF Send, All, TypeOK
  <2>3. /\ \A q \in Pod : LogOf(q, All)'
        /\ LinesIn(p, All, Len(All))' = 1..read[p]
        /\ \A q \in Pod \ {p} :
             LinesIn(q, All, Len(All))' = LinesIn(q, All, Len(All))
    <3>1. \A q \in Pod : LogOf(q, All)
      BY DEF NothingIsLost
    <3> DEFINE t == Append(All, <<p, read[p]>>)
    <3>2. /\ \A q \in Pod : LogOf(q, t)
          /\ LinesIn(p, t, Len(t)) = 1..read[p]
          /\ \A q \in Pod \ {p} :
               LinesIn(q, t, Len(t)) = LinesIn(q, All, Len(All))
      BY <2>1, <2>2, <3>1, LineAppended
    <3>3. \A q : /\ LogOf(q, All)' <=> LogOf(q, t)
                 /\ LinesIn(q, All, Len(All))' = LinesIn(q, t, Len(t))
      BY <2>2 DEF LogOf, LinesIn
    <3>4. QED
      BY <3>2, <3>3
  <2>4. \A q \in Pod \ {p} : pc'[q] = pc[q]
    BY <1>4 DEF Send, Goto, TypeOK
  <2>5. pc'[p] = "scan" /\ read' = read
    BY <1>4 DEF Send, Goto, TypeOK
  <2>6. NothingIsLost'
    BY <2>3, <2>4, <2>5 DEF NothingIsLost
  <2>7. TypeOK' /\ ClosedWhenDone' /\ ReportedOnce'
    BY <1>4, <2>1, CapIsGiven, PodsAreNoLines DEF Send, Goto, TypeOK, ClosedWhenDone, ReportedOnce, AllDone
  <2>8. QED
    BY <2>6, <2>7
<1>5. CASE SendCancelled(p)
  <2>1. TypeOK' /\ ClosedWhenDone' /\ ReportedOnce'
    BY <1>5 DEF SendCancelled, Goto, TypeOK, ClosedWhenDone, ReportedOnce, AllDone
  <2>2. NothingIsLost'
    BY <1>5, SameLines DEF SendCancelled, Goto, TypeOK, NothingIsLost
  <2>3. QED
    BY <2>1, <2>2
<1>6. CASE Report(p)
  <2>1. TypeOK'
    BY <1>6, Sizes DEF Report, Goto, TypeOK, ErrCap
  <2>2. NothingIsLost'
    BY <1>6, SameLines DEF Report, Goto, TypeOK, NothingIsLost
  <2>3. ClosedWhenDone'
    BY <1>6 DEF Report, Goto, TypeOK, ClosedWhenDone, AllDone
  <2>4. ReportedOnce'
    <3>1. /\ \A i \in DOMAIN events : events[i] # p
          /\ \A i \in DOMAIN errCh : errCh[i] # p
      BY <1>6 DEF Report, ReportedOnce
    <3>2. /\ \A q \in Pod : pc[q] = "done" => pc'[q] = "done"
          /\ pc'[p] = "done"
          /\ events' = events
      BY <1>6 DEF Report, Goto, TypeOK
    <3>3. /\ DOMAIN errCh = 1..Len(errCh) /\ Len(errCh) \in Nat
          /\ DOMAIN errCh' = 1..(Len(errCh) + 1)
          /\ errCh'[Len(errCh) + 1] = p
          /\ \A i \in DOMAIN errCh : errCh'[i] = errCh[i] /\ errCh[i] \in Pod
      BY <1>6 DEF Report, TypeOK
    <3>4. QED
      BY <3>1, <3>2, <3>3 DEF ReportedOnce
  <2>5. QED
    BY <2>1, <2>2, <2>3, <2>4
<1>7. QED
  BY <1>1, <1>2, <1>3, <1>4, <1>5, <1>6 DEF Goroutine

(* The closer, the handler and the client.                                  *)
LEMMA InvRest == ASSUME IInv, Closer \/ Handler \/ ClientGoes PROVE IInv'
<1> USE DEF IInv
<1>1. CASE Closer
  <2>1. TypeOK' /\ ClosedWhenDone' /\ ReportedOnce'
    BY <1>1 DEF Closer, CloseCh, CloseErrCh, TypeOK, ClosedWhenDone, ReportedOnce, AllDone
  <2>2. NothingIsLost'
    BY <1>1, SameLines DEF Closer, CloseCh, CloseErrCh, NothingIsLost
  <2>3. QED
    BY <2>1, <2>2
<1>2. CASE SelectDone \/ SelectClosed
  <2>1. TypeOK' /\ ClosedWhenDone' /\ ReportedOnce'
    BY <1>2 DEF SelectDone, SelectClosed, Return, TypeOK, ClosedWhenDone, ReportedOnce, AllDone
  <2>2. NothingIsLost'
    BY <1>2, SameLines DEF SelectDone, SelectClosed, Return, NothingIsLost
  <2>3. QED
    BY <2>1, <2>2
<1>3. CASE SelectLine
  <2>1. All' = All
    BY <1>3 DEF SelectLine, All, TypeOK
  <2>2. \A p \in Pod : /\ LogOf(p, All)' <=> LogOf(p, All)
                       /\ LinesIn(p, All, Len(All))' = LinesIn(p, All, Len(All))
    BY <2>1 DEF LogOf, LinesIn
  <2>3. NothingIsLost'
    BY <1>3, <2>2 DEF SelectLine, NothingIsLost
  <2>4. Head(ch) \in Line /\ Tail(ch) \in Seq(Line) /\ Len(Tail(ch)) <= Len(ch)
    BY <1>3 DEF SelectLine, TypeOK
  <2>5. TypeOK' /\ ClosedWhenDone'
    BY <1>3, <2>4, CapIsGiven, PodsAreNoLines DEF SelectLine, TypeOK, ClosedWhenDone, AllDone
  <2>6. ReportedOnce'
    <3>1. Head(ch) \notin Pod
      BY <2>4, PodsAreNoLines DEF Line
    <3>2. /\ DOMAIN events' = 1..(Len(events) + 1) /\ DOMAIN events = 1..Len(events)
          /\ events'[Len(events) + 1] = Head(ch)
          /\ \A i \in 1..Len(events) : events'[i] = events[i]
      BY <1>3 DEF SelectLine, TypeOK
    <3>3. \A i \in DOMAIN errCh : errCh[i] \in Pod
      BY DEF TypeOK
    <3>4. errCh' = errCh /\ pc' = pc /\ Len(events) \in Nat
      BY <1>3 DEF SelectLine, TypeOK
    <3>5. QED
      BY <3>1, <3>2, <3>3, <3>4 DEF ReportedOnce
  <2>7. QED
    BY <2>3, <2>5, <2>6
<1>4. CASE SelectError
  <2>1. Head(errCh) \in Pod /\ Tail(errCh) \in Seq(Pod) /\ Len(Tail(errCh)) <= Len(errCh)
    BY <1>4 DEF SelectError, TypeOK
  <2>2. TypeOK' /\ ClosedWhenDone'
    BY <1>4, <2>1, Sizes DEF SelectError, TypeOK, ClosedWhenDone, AllDone
  <2>3. NothingIsLost'
    <3> DEFINE t == Append(events, Head(errCh)) \o ch
    <3>1. \A p \in Pod : /\ LogOf(p, t)
                         /\ LinesIn(p, t, Len(t)) = LinesIn(p, All, Len(All))
      BY <2>1, ErrorInserted DEF NothingIsLost, All, TypeOK
    <3>2. All' = t
      BY <1>4 DEF SelectError, All
    <3>3. \A p : /\ LogOf(p, All)' <=> LogOf(p, t)
                 /\ LinesIn(p, All, Len(All))' = LinesIn(p, t, Len(t))
      BY <3>2 DEF LogOf, LinesIn
    <3>4. QED
      BY <1>4, <3>1, <3>3 DEF SelectError, NothingIsLost
  <2>4. ReportedOnce'
    <3>1. /\ DOMAIN events' = 1..(Len(events) + 1) /\ DOMAIN events = 1..Len(events)
          /\ events'[Len(events) + 1] = Head(errCh)
          /\ \A i \in 1..Len(events) : events'[i] = events[i]
          /\ Len(events) \in Nat
      BY <1>4, <2>1 DEF SelectError, TypeOK
    <3>2. /\ DOMAIN errCh = 1..Len(errCh) /\ Len(errCh) \in Nat \ {0}
          /\ DOMAIN errCh' = 1..(Len(errCh) - 1)
          /\ Head(errCh) = errCh[1]
          /\ \A i \in 1..(Len(errCh) - 1) : errCh'[i] = errCh[i + 1]
      BY <1>4 DEF SelectError, TypeOK
    <3>3. pc' = pc
      BY <1>4 DEF SelectError
    <3>4. \A i \in 1..(Len(errCh) - 1) : i + 1 \in DOMAIN errCh /\ errCh[i + 1] # errCh[1]
      BY <3>2 DEF ReportedOnce
    <3>5. \A i \in DOMAIN errCh' :
            /\ i + 1 \in DOMAIN errCh /\ errCh'[i] = errCh[i + 1]
            /\ errCh'[i] # Head(errCh)
      BY <3>2, <3>4
    <3>6. \A i \in DOMAIN events' : events'[i] \in Pod => pc'[events'[i]] = "done"
      BY <3>1, <3>2, <3>3 DEF ReportedOnce
    <3>7. \A i \in DOMAIN errCh' :
            /\ pc'[errCh'[i]] = "done"
            /\ \A j \in DOMAIN events' : events'[j] # errCh'[i]
      BY <3>1, <3>3, <3>5 DEF ReportedOnce
    <3>8. \A i, j \in DOMAIN errCh' : errCh'[j] = errCh'[i] => i = j
      <4> SUFFICES ASSUME NEW i \in DOMAIN errCh', NEW j \in DOMAIN errCh',
                          errCh'[j] = errCh'[i]
                   PROVE  i = j
        OBVIOUS
      <4>1. i + 1 = j + 1
        BY <3>5 DEF ReportedOnce
      <4>2. QED
        BY <3>2, <4>1
    <3>9. QED
      BY <3>6, <3>7, <3>8 DEF ReportedOnce
  <2>5. QED
    BY <2>2, <2>3, <2>4
<1>5. CASE ClientGoes
  <2>1. TypeOK' /\ ClosedWhenDone' /\ ReportedOnce'
    BY <1>5 DEF ClientGoes, TypeOK, ClosedWhenDone, ReportedOnce, AllDone
  <2>2. NothingIsLost'
    BY <1>5, SameLines DEF ClientGoes, NothingIsLost
  <2>3. QED
    BY <2>1, <2>2
<1>6. QED
  BY <1>1, <1>2, <1>3, <1>4, <1>5 DEF Handler

LEMMA Inductive == IInv /\ [Next]_vars => IInv'
<1> SUFFICES ASSUME IInv, [Next]_vars PROVE IInv'
  OBVIOUS
<1>1. CASE UNCHANGED vars
  BY <1>1, SameLines DEF vars, IInv, TypeOK, NothingIsLost, ClosedWhenDone, AllDone, ReportedOnce
<1>2. CASE Next
  BY <1>2, InvGoroutine, InvRest DEF Next
<1>3. QED
  BY <1>1, <1>2

LEMMA Invariance == Spec => []IInv
BY InvInit, Inductive, PTL DEF Spec

(* The goroutines, the channels and the response keep their types: no       *)
(* channel ever holds more than it was made for.                            *)
THEOREM TypeCorrect == Spec => []TypeOK
<1>1. IInv => TypeOK
  BY DEF IInv
<1>2. QED
  BY <1>1, Invariance, PTL

(* Whatever the client has of a pod, with what is buffered, is the pod's    *)
(* log from its beginning, in order and without a gap, and a goroutine that *)
(* goes back to read has handed on all it has read.                         *)
THEOREM Gapless == Spec => []LogsAreGapless
<1>1. IInv => LogsAreGapless
  BY DEF IInv, NothingIsLost, LogsAreGapless, All
<1>2. QED
  BY <1>1, Invariance, PTL

(* StreamPodLogs never sends on a channel that it has closed.               *)
THEOREM SendsAreSafe == Spec => []NoSendOnClosed
<1>1. IInv => NoSendOnClosed
  BY DEF IInv, ClosedWhenDone, AllDone, NoSendOnClosed
<1>2. QED
  BY <1>1, Invariance, PTL

(* What the client reads is what LogStream promises: StreamReleaseLogs      *)
(* sends each pod's next line, or its one error, and nothing after its end. *)
THEOREM Refinement == Spec => ImplementsStream
<1>1. Init => Stream!StreamInit
  BY DEF Init, Stream!StreamInit
<1>2. IInv /\ [Next]_vars => [Stream!StreamNext]_<<events, handler = "streaming">>
  <2> SUFFICES ASSUME IInv, [Next]_vars
               PROVE  [Stream!StreamNext]_<<events, handler = "streaming">>
    OBVIOUS
  <2> USE DEF IInv
  <2>1. CASE UNCHANGED <<events, handler>>
    BY <2>1
  <2>2. CASE SelectDone \/ SelectClosed
    BY <2>2 DEF SelectDone, SelectClosed, Return, Stream!StreamNext, Stream!CloseStream
  <2>3. CASE SelectLine
    <3>1. PICK p \in Pod, n \in 1..MaxLine : Head(ch) = <<p, n>>
      <4>1. Head(ch) \in Line
        BY <2>3 DEF SelectLine, TypeOK
      <4>2. QED
        BY <4>1 DEF Line
    <3>2. Len(events) \in Nat /\ Len(events) + 1 \in DOMAIN All /\ All[Len(events) + 1] = <<p, n>>
      BY <2>3, <3>1 DEF SelectLine, TypeOK, All
    <3>3. LinesIn(p, All, Len(events)) = 1..(n - 1)
      <4>1. LogOf(p, All)
        BY DEF NothingIsLost
      <4>2. (Len(events) + 1) - 1 = Len(events)
        BY <3>2
      <4>3. QED
        BY <3>2, <4>1, <4>2 DEF LogOf
    <3>4. \A i \in 1..Len(events) : All[i] = events[i]
      BY DEF All, TypeOK
    <3>5. LinesIn(p, events, Len(events)) = 1..(n - 1)
      BY <3>3, <3>4 DEF LinesIn
    <3>6. Stream!SendLine(p)
      BY <2>3, <3>1, <3>5 DEF SelectLine, Stream!SendLine, Stream!SendEvent,
         Stream!LinesIn, LinesIn
    <3>7. QED
      BY <3>6 DEF Stream!StreamNext
  <2>4. CASE SelectError
    <3>1. Head(errCh) \in Pod /\ \A i \in DOMAIN events : events[i] # Head(errCh)
      BY <2>4 DEF SelectError, TypeOK, ReportedOnce
    <3>2. Stream!SendError(Head(errCh))
      BY <2>4, <3>1 DEF SelectError, Stream!SendError, Stream!SendEvent
    <3>3. QED
      BY <3>1, <3>2 DEF Stream!StreamNext
  <2>5. QED
    BY <2>1, <2>2, <2>3, <2>4 DEF Next, Goroutine, Open, Scan, ScanEnds, Send,
       SendCancelled, Report, Closer, CloseCh, CloseErrCh, Handler, ClientGoes, vars
<1>3. QED
  BY <1>1, <1>2, Invariance, PTL DEF Spec, ImplementsStream, Stream!StreamSpec

-----------------------------------------------------------------------------
(* The panel, for any number of streams and any LINE_CAP.  The inductive    *)
(* invariant PanelInv relates the rows to the stream that is read: the last *)
(* rows are the last events that arrived of it, and every other row came    *)
(* with an earlier stream.                                                  *)

RowRecord == [id : Nat, stream : Nat, event : Line \cup Pod]

Types ==
  /\ PanelTypeOK
  /\ sent \in Seq(Line \cup Pod)
  /\ lines \in Seq(RowRecord)
  /\ seqRef \in Nat /\ cleared \in 0..seqRef

(* A stream that is not open has no events under way.                       *)
ClosedIsEmpty == source # "open" => sent = <<>> /\ taken = 0

SentInOrder == \A p \in Pod : LogOf(p, sent)

OnlyWanted ==
  /\ \A i \in DOMAIN sent : PodOf(sent[i]) \in Wanted
  /\ OnlyChosen

(* The event of the stream that is read which the i-th row shows, if any.   *)
EventOfRow(i) == taken - (Len(lines) - i)

RowsFollowTheStream ==
  \A i \in DOMAIN lines :
    /\ EventOfRow(i) >= 1 =>
         lines[i].stream = stream /\ lines[i].event = sent[EventOfRow(i)]
    /\ EventOfRow(i) < 1 =>
         /\ lines[i].stream <= stream
         /\ source = "open" => lines[i].stream < stream

PanelInv ==
  /\ Types /\ ClosedIsEmpty /\ SentInOrder /\ OnlyWanted
  /\ RowsFollowTheStream /\ RowsAreTheNewest

-----------------------------------------------------------------------------
LEMMA Bounds == MaxLine \in Nat /\ MaxStreams \in Nat
BY BoundsAreNat, PodsAreNoLines

LEMMA Empty == Len(<<>>) = 0 /\ DOMAIN <<>> = {} /\ \A S : <<>> \in Seq(S)
OBVIOUS

LEMMA SameOrder == UNCHANGED sent => (SentInOrder' <=> SentInOrder)
BY DEF SentInOrder, LogOf, LinesIn

LEMMA MinOfTwo ==
  ASSUME NEW a \in Nat, NEW b \in Nat
  PROVE  Min({a, b}) = IF a <= b THEN a ELSE b
<1> DEFINE m == IF a <= b THEN a ELSE b
<1>1. m \in {a, b} /\ \A y \in {a, b} : m <= y
  OBVIOUS
<1>2. \A x \in {a, b} : (\A y \in {a, b} : x <= y) => x = m
  OBVIOUS
<1>3. QED
  BY <1>1, <1>2 DEF Min

(* An event that the server sends is at the end of sent.                    *)
LEMMA SentAppended ==
  ASSUME Types, NEW e \in Line \cup Pod, SendEvent(e)
  PROVE  /\ sent' \in Seq(Line \cup Pod)
         /\ Len(sent') = Len(sent) + 1 /\ Len(sent) \in Nat
         /\ DOMAIN sent' = 1..(Len(sent) + 1) /\ DOMAIN sent = 1..Len(sent)
         /\ sent'[Len(sent) + 1] = e
         /\ \A i \in 1..Len(sent) : sent'[i] = sent[i]
BY DEF Types, SendEvent

LEMMA OrderKept ==
  ASSUME Types, SentInOrder, NEW e \in Line \cup Pod, SendEvent(e),
         \A q \in Pod, n \in 1..MaxLine :
           e = <<q, n>> => LinesIn(q, sent, Len(sent)) = 1..(n - 1)
  PROVE  SentInOrder'
<1> SUFFICES ASSUME NEW q \in Pod, NEW i \in DOMAIN sent', NEW n \in 1..MaxLine,
                    sent'[i] = <<q, n>>
             PROVE  LinesIn(q, sent', i - 1) = 1..(n - 1)
  BY DEF SentInOrder, LogOf
<1>1. \A m \in 0..Len(sent) : LinesIn(q, sent', m) = LinesIn(q, sent, m)
  BY LinesAppended DEF Types, SendEvent
<1>2. CASE i = Len(sent) + 1
  BY <1>1, <1>2, SentAppended
<1>3. CASE i \in 1..Len(sent)
  <2>1. LinesIn(q, sent, i - 1) = 1..(n - 1)
    BY <1>3, SentAppended DEF SentInOrder, LogOf
  <2>2. i - 1 \in 0..Len(sent)
    BY <1>3, SentAppended
  <2>3. QED
    BY <1>1, <2>1, <2>2
<1>4. QED
  BY <1>2, <1>3, SentAppended

(* The rows after an event has arrived: one is cut off if there were        *)
(* LINE_CAP of them.                                                        *)
LEMMA RowAppended ==
  ASSUME Types, RowsAreTheNewest, Arrive
  PROVE  \E k \in {0, 1} :
           /\ k <= Len(lines) /\ Len(lines) \in Nat
           /\ Len(lines') = Len(lines) - k + 1
           /\ k = 1 <=> Len(lines) = LINE_CAP
           /\ \A i \in 1..(Len(lines) - k) : lines'[i] = lines[i + k]
           /\ lines'[Len(lines) - k + 1] =
                [id |-> seqRef + 1, stream |-> stream, event |-> sent[taken + 1]]
           /\ DOMAIN lines' = 1..(Len(lines) - k + 1)
           /\ DOMAIN lines = 1..Len(lines)
           /\ lines' \in Seq(RowRecord)
<1> DEFINE row == [id |-> seqRef + 1, stream |-> stream, event |-> sent[taken + 1]]
<1>1. lines \in Seq(RowRecord) /\ Len(lines) \in Nat /\ LINE_CAP \in Nat \ {0, 1}
  BY PanelIsGiven DEF Types
<1>2. row \in RowRecord
  BY BoundsAreNat DEF Types, PanelTypeOK, Arrive, RowRecord
<1>3. Len(lines) <= LINE_CAP
  <2>1. Len(lines) = Min({LINE_CAP, seqRef - cleared})
    BY DEF RowsAreTheNewest
  <2>2. seqRef - cleared \in Nat
    BY DEF Types
  <2>3. Len(lines) = IF LINE_CAP <= seqRef - cleared THEN LINE_CAP ELSE seqRef - cleared
    BY <1>1, <2>1, <2>2, MinOfTwo
  <2>4. QED
    BY <1>1, <2>2, <2>3
<1>4. lines' = Append(Trimmed(lines), row)
  BY DEF Arrive, Show
<1> HIDE DEF row
<1>5. CASE Len(lines) = LINE_CAP
  <2>1. Trimmed(lines) = SubSeq(lines, 2, Len(lines))
    BY <1>1, <1>5 DEF Trimmed
  <2>2. /\ Trimmed(lines) \in Seq(RowRecord) /\ Len(Trimmed(lines)) = Len(lines) - 1
        /\ \A i \in 1..(Len(lines) - 1) : Trimmed(lines)[i] = lines[i + 1]
    BY <1>1, <1>5, <2>1
  <2>3. QED
    BY <1>1, <1>2, <1>4, <1>5, <2>2 DEF row
<1>6. CASE Len(lines) < LINE_CAP
  <2>1. Trimmed(lines) = lines
    BY <1>1, <1>6 DEF Trimmed
  <2>2. QED
    BY <1>1, <1>2, <1>4, <1>6, <2>1 DEF row
<1>7. QED
  BY <1>1, <1>3, <1>5, <1>6

-----------------------------------------------------------------------------
LEMMA PanelStarts == PanelInit => PanelInv
<1> SUFFICES ASSUME PanelInit PROVE PanelInv
  OBVIOUS
<1>1. Types
  <2>1. sent \in Seq(Line \cup Pod) /\ Len(sent) = 0 /\ lines \in Seq(RowRecord)
    BY DEF PanelInit
  <2>2. PanelTypeOK
    <3>1. stream \in 0..MaxStreams /\ taken \in 0..Len(sent)
      BY <2>1, Bounds DEF PanelInit
    <3>2. served \subseteq 1..stream
      BY DEF PanelInit
    <3>3. QED
      BY <3>1, <3>2 DEF PanelInit, PanelTypeOK
  <2>3. QED
    BY <2>1, <2>2 DEF PanelInit, Types
<1>2. RowsAreTheNewest
  <2>1. Min({LINE_CAP, 0}) = 0
    BY MinOfTwo, PanelIsGiven
  <2>2. Len(lines) = 0 /\ seqRef - cleared = 0 /\ DOMAIN lines = {}
    BY DEF PanelInit
  <2>3. QED
    BY <2>1, <2>2 DEF RowsAreTheNewest
<1>3. QED
  BY <1>1, <1>2 DEF PanelInit, PanelInv, ClosedIsEmpty, SentInOrder, LogOf, OnlyWanted,
     OnlyChosen, RowsFollowTheStream

(* The server: the rows stay, and the events that have arrived too.         *)
LEMMA InvSends == ASSUME PanelInv, ServerSends PROVE PanelInv'
<1> USE DEF PanelInv
<1>1. PICK p \in Wanted : SendLine(p) \/ SendError(p)
  BY DEF ServerSends
<1>2. p \in Pod
  BY DEF Wanted, Types, PanelTypeOK
<1>3. PICK e \in Line \cup Pod :
        /\ SendEvent(e) /\ PodOf(e) = p
        /\ \A q \in Pod, n \in 1..MaxLine :
             e = <<q, n>> => LinesIn(q, sent, Len(sent)) = 1..(n - 1)
  <2>1. CASE SendLine(p)
    <3>1. PICK n \in 1..MaxLine :
            LinesIn(p, sent, Len(sent)) = 1..(n - 1) /\ SendEvent(<<p, n>>)
      BY <2>1 DEF SendLine
    <3>2. <<p, n>> \in Line /\ PodOf(<<p, n>>) = p
      BY <1>2, PodsAreNoLines DEF Line, PodOf
    <3>3. \A q \in Pod, k \in 1..MaxLine : <<p, n>> = <<q, k>> => q = p /\ k = n
      OBVIOUS
    <3>4. QED
      BY <3>1, <3>2, <3>3
  <2>2. CASE SendError(p)
    BY <1>2, <2>2, PodsAreNoLines DEF SendError, PodOf
  <2>3. QED
    BY <1>1, <2>1, <2>2
<1>4. SentInOrder'
  BY <1>3, OrderKept
<1>5. UNCHANGED <<instance, source, status, stream, taken, served, lines, seqRef, cleared, open>>
  BY <1>3 DEF ServerSends, Shown, SendEvent
<1>6. Types'
  BY <1>3, <1>5, SentAppended DEF Types, PanelTypeOK
<1>7. ClosedIsEmpty'
  BY <1>5 DEF ServerSends, ClosedIsEmpty
<1>8. OnlyWanted'
  <2>1. Wanted' = Wanted
    BY <1>5 DEF Wanted
  <2>2. \A i \in DOMAIN sent' : PodOf(sent'[i]) \in Wanted
    <3>1. \A i \in DOMAIN sent' : (i \in DOMAIN sent /\ sent'[i] = sent[i]) \/ sent'[i] = e
      BY <1>3, SentAppended
    <3>2. QED
      BY <1>3, <3>1 DEF OnlyWanted
  <2>3. QED
    BY <1>5, <2>1, <2>2 DEF OnlyWanted, OnlyChosen, PodOf
<1>9. RowsFollowTheStream'
  <2>1. \A i \in DOMAIN lines : EventOfRow(i)' = EventOfRow(i)
    BY <1>5 DEF EventOfRow
  <2>2. \A i \in DOMAIN lines : EventOfRow(i) >= 1 => EventOfRow(i) \in 1..Len(sent)
    BY DEF EventOfRow, Types, PanelTypeOK
  <2>3. \A t \in 1..Len(sent) : sent'[t] = sent[t]
    BY <1>3, SentAppended
  <2>4. QED
    BY <1>5, <2>1, <2>2, <2>3 DEF RowsFollowTheStream
<1>10. RowsAreTheNewest'
  BY <1>5 DEF RowsAreTheNewest, SameLog, NumberAt, PodOf
<1>11. QED
  BY <1>4, <1>6, <1>7, <1>8, <1>9, <1>10

(* The connection: what was shown stays.                                    *)
LEMMA InvConnection ==
  ASSUME PanelInv, ServerEnds \/ (\E s \in served : ServerNotices(s)) \/ Connect
                 \/ Refuse \/ Disconnect
  PROVE  PanelInv'
<1> USE DEF PanelInv
<1>1. /\ UNCHANGED <<instance, lines, seqRef, cleared>>
      /\ \/ UNCHANGED <<sent, taken>>
         \/ sent' = <<>> /\ taken' = 0
  <2>1. CASE ServerEnds
    BY <2>1 DEF ServerEnds, CloseStream, Shown
  <2>2. CASE Connect \/ Refuse \/ Disconnect
    BY <2>2 DEF Connect, Refuse, Disconnect, Idle, Shown
  <2>3. CASE \E s \in served : ServerNotices(s)
    BY <2>3 DEF ServerNotices, Shown
  <2>4. QED
    BY <2>1, <2>2, <2>3
<1>2. Types'
  <2>1. /\ sent' \in Seq(Line \cup Pod) /\ taken' \in 0..Len(sent')
        /\ lines' \in Seq(RowRecord) /\ seqRef' \in Nat /\ cleared' \in 0..seqRef'
    <3>1. CASE UNCHANGED <<sent, taken>>
      BY <1>1, <3>1 DEF Types, PanelTypeOK
    <3>2. CASE sent' = <<>> /\ taken' = 0
      BY <1>1, <3>2, Empty DEF Types
    <3>3. QED
      BY <1>1, <3>1, <3>2
  <2>2. CASE ServerEnds
    BY <2>1, <2>2 DEF ServerEnds, CloseStream, Types, PanelTypeOK
  <2>3. CASE Connect
    BY <2>1, <2>3, BoundsAreNat DEF Connect, Types, PanelTypeOK
  <2>4. CASE Refuse
    BY <2>1, <2>4 DEF Refuse, Types, PanelTypeOK
  <2>5. CASE Disconnect
    BY <2>1, <2>5 DEF Disconnect, Idle, Types, PanelTypeOK
  <2>6. CASE \E s \in served : ServerNotices(s)
    BY <2>1, <2>6 DEF ServerNotices, Types, PanelTypeOK
  <2>7. QED
    BY <2>2, <2>3, <2>4, <2>5, <2>6
<1>3. ClosedIsEmpty'
  BY DEF ServerEnds, CloseStream, ServerNotices, Connect, Refuse, Disconnect, Idle,
     Shown, ClosedIsEmpty
<1>4. SentInOrder'
  <2>1. CASE sent' = <<>>
    BY <2>1 DEF SentInOrder, LogOf
  <2>2. CASE sent' = sent
    BY <2>2, SameOrder
  <2>3. QED
    BY <1>1, <2>1, <2>2
<1>5. OnlyWanted'
  BY <1>1 DEF OnlyWanted, OnlyChosen, Wanted, PodOf
<1>6. RowsFollowTheStream'
  <2>1. \A i \in DOMAIN lines :
          /\ i \in 1..Len(lines) /\ Len(lines) \in Nat
          /\ lines[i].stream \in Nat /\ lines[i].stream <= stream
    <3> SUFFICES ASSUME NEW i \in DOMAIN lines
                 PROVE  /\ i \in 1..Len(lines) /\ Len(lines) \in Nat
                        /\ lines[i].stream \in Nat /\ lines[i].stream <= stream
      OBVIOUS
    <3>1. i \in 1..Len(lines) /\ Len(lines) \in Nat /\ lines[i] \in RowRecord
      BY DEF Types
    <3>2. EventOfRow(i) >= 1 \/ EventOfRow(i) < 1
      BY <3>1 DEF EventOfRow, Types, PanelTypeOK
    <3>3. stream \in Nat
      BY DEF Types, PanelTypeOK
    <3>4. QED
      BY <3>1, <3>2, <3>3 DEF RowsFollowTheStream, RowRecord
  <2>2. CASE sent' = <<>> /\ taken' = 0
    <3>1. \A i \in DOMAIN lines : EventOfRow(i)' \in Int /\ EventOfRow(i)' < 1
      BY <1>1, <2>1, <2>2 DEF EventOfRow
    <3>2. \A i \in DOMAIN lines :
            lines[i].stream <= stream' /\ (source' = "open" => lines[i].stream < stream')
      <4>1. CASE Connect \/ Disconnect
        BY <2>1, <4>1 DEF Connect, Disconnect, Types, PanelTypeOK
      <4>2. CASE ServerEnds \/ Refuse \/ \E s \in served : ServerNotices(s)
        <5>1. \A i \in DOMAIN lines : EventOfRow(i) < 1
          BY <2>1, <2>2, <4>2 DEF ServerEnds, CloseStream, Refuse, ServerNotices, EventOfRow
        <5>2. QED
          BY <2>1, <4>2, <5>1 DEF ServerEnds, CloseStream, Refuse, ServerNotices, RowsFollowTheStream
      <4>3. QED
        BY <4>1, <4>2
    <3>3. QED
      <4>1. UNCHANGED lines
        BY <1>1
      <4>2. QED
        BY <3>1, <3>2, <4>1 DEF RowsFollowTheStream, EventOfRow
  <2>3. CASE UNCHANGED <<sent, taken>>
    <3>1. CASE ServerEnds \/ \E s \in served : ServerNotices(s)
      BY <1>1, <2>3, <3>1 DEF ServerEnds, CloseStream, ServerNotices, RowsFollowTheStream, EventOfRow
    <3>2. CASE Connect \/ Refuse \/ Disconnect
      <4>1. CASE Refuse
        BY <1>1, <2>3, <4>1 DEF Refuse, RowsFollowTheStream, EventOfRow
      <4>2. CASE Connect \/ Disconnect
        BY <2>2, <4>2 DEF Connect, Disconnect, Idle
      <4>3. QED
        BY <3>2, <4>1, <4>2
    <3>3. QED
      BY <3>1, <3>2
  <2>4. QED
    BY <1>1, <2>2, <2>3
<1>7. RowsAreTheNewest'
  BY <1>1 DEF RowsAreTheNewest, SameLog, NumberAt, PodOf
<1>8. QED
  BY <1>2, <1>3, <1>4, <1>5, <1>6, <1>7

(* The user.                                                                *)
LEMMA InvUser ==
  ASSUME PanelInv, Clear \/ \E i \in Pod \cup {"all"} : SelectInstance(i)
  PROVE  PanelInv'
<1> USE DEF PanelInv
<1>1. lines' = <<>> /\ seqRef' = cleared' /\ seqRef' \in Nat
  BY DEF Clear, SelectInstance, Forget, Types
<1>2. Types'
  <2>1. lines' \in Seq(RowRecord) /\ cleared' \in 0..seqRef'
    BY <1>1
  <2>2. CASE Clear
    BY <1>1, <2>1, <2>2 DEF Clear, Types, PanelTypeOK
  <2>3. ASSUME NEW i \in Pod \cup {"all"}, SelectInstance(i) PROVE Types'
    <3>1. sent' = <<>> /\ sent' \in Seq(Line \cup Pod) /\ Len(sent') = 0 /\ taken' = 0
      BY <2>3 DEF SelectInstance, Idle
    <3>2. PanelTypeOK'
      <4>1. taken' \in 0..Len(sent')
        BY <3>1
      <4>2. QED
        BY <2>3, <4>1 DEF SelectInstance, Idle, Types, PanelTypeOK
    <3>3. QED
      BY <1>1, <2>1, <3>1, <3>2 DEF Types
  <2>4. QED
    BY <2>2, <2>3
<1>3. ClosedIsEmpty' /\ SentInOrder'
  <2>1. CASE Clear
    <3>1. UNCHANGED <<sent, source, taken>>
      BY <2>1 DEF Clear
    <3>2. ClosedIsEmpty'
      BY <3>1 DEF ClosedIsEmpty
    <3>3. SentInOrder'
      BY <3>1, SameOrder
    <3>4. QED
      BY <3>2, <3>3
  <2>2. ASSUME NEW i \in Pod \cup {"all"}, SelectInstance(i)
        PROVE  ClosedIsEmpty' /\ SentInOrder'
    BY <2>2 DEF SelectInstance, Idle, ClosedIsEmpty, SentInOrder, LogOf
  <2>3. QED
    BY <2>1, <2>2
<1>4. OnlyWanted'
  BY <1>1 DEF Clear, SelectInstance, Idle, OnlyWanted, OnlyChosen, Wanted, PodOf
<1>5. RowsFollowTheStream'
  BY <1>1 DEF RowsFollowTheStream
<1>6. RowsAreTheNewest'
  <2>1. Min({LINE_CAP, 0}) = 0
    BY MinOfTwo, PanelIsGiven
  <2>2. Len(lines') = 0 /\ seqRef' - cleared' = 0 /\ DOMAIN lines' = {}
    <3>1. Len(lines') = 0 /\ DOMAIN lines' = {}
      BY <1>1, Empty
    <3>2. seqRef' - cleared' = 0
      <4>1. \A x \in Nat : x - x = 0
        OBVIOUS
      <4>2. QED
        BY <1>1, <4>1
    <3>3. QED
      BY <3>1, <3>2
  <2>3. QED
    BY <2>1, <2>2 DEF RowsAreTheNewest
<1>7. QED
  BY <1>2, <1>3, <1>4, <1>5, <1>6

(* An event arrives.                                                        *)
LEMMA InvArrive == ASSUME PanelInv, Arrive PROVE PanelInv'
<1> DEFINE e == sent[taken + 1]
<1>1. /\ Types /\ ClosedIsEmpty /\ SentInOrder /\ OnlyWanted
      /\ RowsFollowTheStream /\ RowsAreTheNewest
  BY DEF PanelInv
<1>2. PICK L \in Nat : L = Len(lines)
  BY <1>1 DEF Types
<1>3. PICK k \in {0, 1} :
        /\ k <= L /\ L = Len(lines)
        /\ Len(lines') = L - k + 1
        /\ k = 1 <=> L = LINE_CAP
        /\ \A i \in 1..(L - k) : lines'[i] = lines[i + k]
        /\ lines'[L - k + 1] = [id |-> seqRef + 1, stream |-> stream, event |-> e]
        /\ DOMAIN lines' = 1..(L - k + 1)
        /\ DOMAIN lines = 1..L
        /\ lines' \in Seq(RowRecord)
  BY <1>1, <1>2, RowAppended
<1>4. /\ source = "open" /\ taken \in Nat /\ taken + 1 \in DOMAIN sent
      /\ taken' = taken + 1 /\ seqRef' = seqRef + 1 /\ seqRef \in Nat
      /\ cleared \in Nat /\ cleared <= seqRef /\ stream \in Nat
      /\ UNCHANGED <<sent, open, instance, source, stream, served, cleared>>
      /\ status' \in {status, "disconnected"}
  <2>1. taken \in Nat /\ Len(sent) \in Nat /\ DOMAIN sent = 1..Len(sent)
    BY <1>1 DEF Types, PanelTypeOK
  <2>2. UNCHANGED <<sent, open, instance, source, stream, served, cleared>>
    BY DEF Arrive
  <2>3. taken' = taken + 1 /\ seqRef' = seqRef + 1 /\ source = "open" /\ taken < Len(sent)
    BY DEF Arrive, Show
  <2>4. seqRef \in Nat /\ cleared \in Nat /\ cleared <= seqRef /\ stream \in Nat
    BY <1>1 DEF Types, PanelTypeOK
  <2>5. status' \in {status, "disconnected"}
    BY DEF Arrive
  <2>6. QED
    BY <2>1, <2>2, <2>3, <2>4, <2>5
<1> DEFINE new == L - k + 1
<1>5. DOMAIN lines' = (1..(L - k)) \cup {new}
  BY <1>3
<1>6. Types'
  <2>1. taken' \in 0..Len(sent')
    <3>1. taken + 1 \in 1..Len(sent)
      BY <1>1, <1>4 DEF Types
    <3>2. QED
      BY <1>4, <3>1
  <2>2. PanelTypeOK'
    BY <1>1, <1>4, <2>1 DEF Types, PanelTypeOK
  <2>3. seqRef' \in Nat /\ cleared' \in 0..seqRef'
    BY <1>4
  <2>4. QED
    BY <1>1, <1>3, <1>4, <2>2, <2>3 DEF Types
<1>7. ClosedIsEmpty'
  BY <1>4 DEF ClosedIsEmpty
<1>8. SentInOrder'
  BY <1>1, <1>4, SameOrder
<1>9. OnlyWanted'
  <2>1. Wanted' = Wanted
    BY <1>4 DEF Wanted
  <2>2. \A i \in DOMAIN lines' : PodOf(lines'[i].event) \in Wanted
    <3>1. \A i \in 1..(L - k) : i + k \in DOMAIN lines
      BY <1>3
    <3>2. PodOf(e) \in Wanted
      BY <1>1, <1>4 DEF OnlyWanted
    <3>3. \A i \in 1..(L - k) : PodOf(lines'[i].event) \in Wanted
      BY <1>1, <1>3, <3>1 DEF OnlyWanted, OnlyChosen
    <3>4. PodOf(lines'[new].event) \in Wanted
      BY <1>3, <3>2
    <3>5. QED
      BY <1>5, <3>3, <3>4
  <2>3. QED
    BY <1>1, <1>4, <2>1, <2>2 DEF OnlyWanted, OnlyChosen, PodOf
<1>10. RowsFollowTheStream'
  <2>1. ASSUME NEW i \in 1..(L - k)
        PROVE  /\ i + k \in DOMAIN lines
               /\ EventOfRow(i)' = EventOfRow(i + k)
               /\ lines'[i] = lines[i + k]
    BY <1>3, <1>4 DEF EventOfRow
  <2>2. EventOfRow(new)' = taken + 1
    BY <1>3, <1>4 DEF EventOfRow
  <2>3. ASSUME NEW i \in 1..(L - k)
        PROVE  /\ EventOfRow(i)' >= 1 =>
                    lines'[i].stream = stream /\ lines'[i].event = sent[EventOfRow(i)']
               /\ EventOfRow(i)' < 1 =>
                    /\ lines'[i].stream <= stream
                    /\ source = "open" => lines'[i].stream < stream
    BY <1>1, <2>1 DEF RowsFollowTheStream
  <2>4. /\ EventOfRow(new)' >= 1 =>
              lines'[new].stream = stream /\ lines'[new].event = sent[EventOfRow(new)']
        /\ ~(EventOfRow(new)' < 1)
    BY <1>3, <1>4, <2>2
  <2>5. UNCHANGED <<stream, sent, source>>
    BY <1>4
  <2> HIDE DEF new
  <2>6. QED
    BY <1>5, <2>3, <2>4, <2>5 DEF RowsFollowTheStream
<1>11. Len(lines') = Min({LINE_CAP, seqRef' - cleared'})
  <2>1. LINE_CAP \in Nat /\ seqRef - cleared \in Nat /\ seqRef' - cleared' = seqRef - cleared + 1
    BY <1>4, PanelIsGiven
  <2>2. L = IF LINE_CAP <= seqRef - cleared THEN LINE_CAP ELSE seqRef - cleared
    BY <1>1, <1>2, <2>1, MinOfTwo DEF RowsAreTheNewest
  <2>3. Min({LINE_CAP, seqRef' - cleared'}) =
          IF LINE_CAP <= seqRef - cleared + 1 THEN LINE_CAP ELSE seqRef - cleared + 1
    BY <2>1, MinOfTwo
  <2>4. QED
    BY <1>3, <2>1, <2>2, <2>3
<1>12. \A i \in DOMAIN lines' : lines'[i].id = seqRef' - Len(lines') + i
  <2>1. ASSUME NEW i \in 1..(L - k) PROVE lines'[i].id = seqRef' - Len(lines') + i
    <3>1. i + k \in DOMAIN lines
      BY <1>3
    <3>2. lines'[i].id = seqRef - L + (i + k)
      BY <1>1, <1>3, <3>1 DEF RowsAreTheNewest
    <3>3. QED
      BY <1>3, <1>4, <3>2
  <2>2. lines'[new].id = seqRef' - Len(lines') + new
    BY <1>3, <1>4
  <2>3. QED
    BY <1>5, <2>1, <2>2
(* The row that is new continues the newest row of its log, if there is one.*)
<1>13. ASSUME NEW i \in 1..(L - k), SameLog(i, new)'
       PROVE  /\ NumberAt(i)' < NumberAt(new)'
              /\ \E h \in i..(new - 1) :
                   SameLog(h, new)' /\ NumberAt(h)' = NumberAt(new)' - 1
  <2>1. i + k \in DOMAIN lines /\ lines'[i] = lines[i + k]
    BY <1>3
  <2>2. /\ lines'[new].stream = stream /\ lines'[new].event = e
        /\ lines'[i].stream = stream
        /\ e \notin Pod /\ lines'[i].event \notin Pod
        /\ PodOf(lines'[i].event) = PodOf(e)
    BY <1>3, <1>13 DEF SameLog, PodOf
  <2>3. PICK p \in Pod, n \in 1..MaxLine : e = <<p, n>>
    <3>1. e \in Line \cup Pod
      BY <1>1, <1>4 DEF Types
    <3>2. QED
      BY <2>2, <3>1 DEF Line
  <2> DEFINE t == EventOfRow(i + k)
  <2>4. t \in 1..taken /\ lines[i + k].event = sent[t] /\ t \in DOMAIN sent
    <3>1. t \in Int /\ t <= taken
      BY <1>3, <1>4 DEF EventOfRow
    <3>2. ~(t < 1)
      BY <1>1, <1>4, <2>1, <2>2 DEF RowsFollowTheStream, Types, RowRecord
    <3>3. lines[i + k].event = sent[t]
      BY <1>1, <2>1, <3>1, <3>2 DEF RowsFollowTheStream
    <3>4. t \in DOMAIN sent
      BY <1>1, <1>4, <3>1, <3>2 DEF Types
    <3>5. QED
      BY <1>4, <3>1, <3>2, <3>3, <3>4
  <2>5. PICK a \in 1..MaxLine : sent[t] = <<p, a>>
    <3>1. sent[t] \in Line \cup Pod /\ sent[t] \notin Pod
      BY <1>1, <2>1, <2>2, <2>4 DEF Types
    <3>2. PICK q \in Pod, a \in 1..MaxLine : sent[t] = <<q, a>>
      BY <3>1 DEF Line
    <3>3. PodOf(<<q, a>>) = q /\ PodOf(<<p, n>>) = p
      BY PodsAreNoLines DEF PodOf
    <3>4. QED
      BY <2>1, <2>2, <2>3, <2>4, <3>2, <3>3
  <2>6. /\ LinesIn(p, sent, taken) = 1..(n - 1)
        /\ LinesIn(p, sent, t - 1) = 1..(a - 1)
    <3>1. LogOf(p, sent)
      BY <1>1 DEF SentInOrder
    <3>2. (taken + 1) - 1 = taken
      BY <1>4
    <3>3. QED
      BY <1>4, <2>3, <2>4, <2>5, <3>1, <3>2 DEF LogOf
  <2>7. a \in 1..(n - 1)
    <3>1. a \in LinesIn(p, sent, taken)
      BY <2>4, <2>5 DEF LinesIn
    <3>2. QED
      BY <2>6, <3>1
  <2>8. NumberAt(i)' = a /\ NumberAt(new)' = n
    BY <2>1, <2>2, <2>3, <2>4, <2>5 DEF NumberAt
  <2>9. PICK u \in t..taken : sent[u] = <<p, n - 1>>
    <3>1. CASE a = n - 1
      BY <2>4, <2>5, <3>1
    <3>2. CASE a # n - 1
      <4>1. n - 1 \in LinesIn(p, sent, taken) /\ n - 1 \notin 1..(a - 1)
        BY <2>6, <2>7, <3>2
      <4>2. PICK u \in 1..taken : sent[u] = <<p, n - 1>>
        BY <4>1 DEF LinesIn
      <4>3. n - 1 \in 1..MaxLine
        BY <2>7, Bounds
      <4>4. ~(u \in 1..(t - 1))
        BY <2>6, <4>1, <4>2, <4>3 DEF LinesIn
      <4>5. u \in t..taken
        BY <1>4, <2>4, <4>4
      <4>6. QED
        BY <4>2, <4>5
    <3>3. QED
      BY <3>1, <3>2
  <2>10. PICK h \in Int : h = L - taken + u - k
    BY <1>4
  <2>11. /\ h \in i..(new - 1) /\ h \in 1..(L - k) /\ h + k \in DOMAIN lines
         /\ EventOfRow(h + k) = u /\ u \in Int /\ u >= 1
    <3>1. /\ k \in Int /\ i \in Int /\ i >= 1 /\ taken \in Int /\ L \in Int
          /\ t \in Int /\ t >= 1 /\ u \in Int /\ t <= u /\ u <= taken /\ h \in Int
      BY <1>4, <2>4, <2>9
    <3>2. h + k = L - taken + u
      BY <2>10, <3>1
    <3>3. t = taken - (L - (i + k))
      BY <1>3 DEF EventOfRow
    <3>4. EventOfRow(h + k) = taken - (L - (h + k))
      BY <1>3 DEF EventOfRow
    <3> HIDE DEF t
    <3>5. EventOfRow(h + k) = u /\ i <= h /\ h + k <= L /\ h <= new - 1 /\ h <= L - k
      BY <3>1, <3>2, <3>3, <3>4
    <3>6. h \in i..(new - 1) /\ h \in 1..(L - k) /\ h + k \in 1..L
      BY <3>1, <3>2, <3>5
    <3>7. QED
      BY <1>3, <3>1, <3>5, <3>6
  <2>12. lines'[h].stream = stream /\ lines'[h].event = <<p, n - 1>>
    <3>1. lines'[h] = lines[h + k]
      BY <1>3, <2>11
    <3>2. lines[h + k].stream = stream /\ lines[h + k].event = sent[u]
      BY <1>1, <2>11 DEF RowsFollowTheStream
    <3>3. QED
      BY <2>9, <3>1, <3>2
  <2>13. SameLog(h, new)' /\ NumberAt(h)' = NumberAt(new)' - 1
    <3>1. n - 1 \in 1..MaxLine
      BY <2>7, Bounds
    <3>2. <<p, n - 1>> \notin Pod /\ <<p, n>> \notin Pod
      BY <2>2, <2>3, <3>1, PodsAreNoLines
    <3>3. PodOf(<<p, n - 1>>) = p /\ PodOf(<<p, n>>) = p
      BY <3>2 DEF PodOf
    <3>4. NumberAt(h)' = n - 1
      BY <2>12 DEF NumberAt
    <3>5. SameLog(h, new)'
      BY <2>2, <2>3, <2>12, <3>2, <3>3 DEF SameLog, PodOf
    <3>6. QED
      BY <2>8, <3>4, <3>5
  <2>14. NumberAt(i)' < NumberAt(new)'
    BY <2>7, <2>8
  <2> HIDE DEF new
  <2>15. QED
    BY <2>11, <2>13, <2>14
<1>14. ASSUME NEW j \in 1..(L - k), NEW i \in 1..(j - 1), SameLog(i, j)'
       PROVE  /\ NumberAt(i)' < NumberAt(j)'
              /\ \E h \in i..(j - 1) : SameLog(h, j)' /\ NumberAt(h)' = NumberAt(j)' - 1
  <2>1. \A h \in 1..j : h \in 1..(L - k) /\ lines'[h] = lines[h + k]
    BY <1>3
  <2>2. \A h \in 1..j : (SameLog(h, j)' <=> SameLog(h + k, j + k))
                        /\ NumberAt(h)' = NumberAt(h + k)
    BY <2>1 DEF SameLog, NumberAt, PodOf
  <2>3. i \in 1..j /\ j \in 1..j /\ j + k \in DOMAIN lines /\ i + k \in 1..(j + k - 1)
    BY <1>3
  <2>4. /\ NumberAt(i + k) < NumberAt(j + k)
        /\ \E g \in (i + k)..(j + k - 1) :
             SameLog(g, j + k) /\ NumberAt(g) = NumberAt(j + k) - 1
    <3>1. \A m \in DOMAIN lines : \A l \in 1..(m - 1) : SameLog(l, m) =>
            /\ NumberAt(l) < NumberAt(m)
            /\ \E g \in l..(m - 1) : SameLog(g, m) /\ NumberAt(g) = NumberAt(m) - 1
      BY <1>1 DEF RowsAreTheNewest
    <3>2. SameLog(i + k, j + k)
      BY <1>14, <2>2, <2>3
    <3> HIDE DEF SameLog, NumberAt
    <3>3. QED
      BY <2>3, <3>1, <3>2
  <2>5. PICK g \in (i + k)..(j + k - 1) :
          SameLog(g, j + k) /\ NumberAt(g) = NumberAt(j + k) - 1
    BY <2>4
  <2>6. g - k \in i..(j - 1) /\ g - k \in 1..j /\ (g - k) + k = g
    BY <1>3
  <2>7. SameLog(g - k, j)' /\ NumberAt(g - k)' = NumberAt(j)' - 1
    BY <2>2, <2>3, <2>5, <2>6
  <2>8. QED
    BY <2>2, <2>3, <2>4, <2>6, <2>7
<1>15. RowsAreTheNewest'
  <2>1. ASSUME NEW j \in DOMAIN lines', NEW i \in 1..(j - 1), SameLog(i, j)'
        PROVE  /\ NumberAt(i)' < NumberAt(j)'
               /\ \E h \in i..(j - 1) : SameLog(h, j)' /\ NumberAt(h)' = NumberAt(j)' - 1
    <3>1. CASE j \in 1..(L - k)
      BY <1>14, <2>1, <3>1
    <3>2. CASE j = new
      <4>1. i \in 1..(L - k)
        BY <1>3, <3>2
      <4>2. QED
        BY <1>13, <2>1, <3>2, <4>1
    <3>3. QED
      BY <1>5, <3>1, <3>2
  <2>2. QED
    BY <1>11, <1>12, <2>1 DEF RowsAreTheNewest
<1>16. QED
  BY <1>6, <1>7, <1>8, <1>9, <1>10, <1>15 DEF PanelInv

-----------------------------------------------------------------------------
LEMMA PanelInductive == PanelInv /\ [PanelNext]_panelVars => PanelInv'
<1> SUFFICES ASSUME PanelInv, [PanelNext]_panelVars PROVE PanelInv'
  OBVIOUS
<1>1. CASE UNCHANGED panelVars
  <2>1. UNCHANGED <<sent, open, instance, source, status, stream, taken, served, lines, seqRef, cleared>>
    BY <1>1 DEF panelVars
  <2>2. Types' /\ ClosedIsEmpty' /\ OnlyWanted'
    BY <2>1 DEF PanelInv, Types, PanelTypeOK, ClosedIsEmpty, OnlyWanted, OnlyChosen, Wanted, PodOf
  <2>3. SentInOrder'
    BY <2>1, SameOrder DEF PanelInv
  <2>4. RowsFollowTheStream'
    BY <2>1 DEF PanelInv, RowsFollowTheStream, EventOfRow
  <2>5. RowsAreTheNewest'
    BY <2>1 DEF PanelInv, RowsAreTheNewest, SameLog, NumberAt, PodOf
  <2>6. QED
    BY <2>2, <2>3, <2>4, <2>5 DEF PanelInv
<1>2. CASE PanelNext
  BY <1>2, InvSends, InvConnection, InvUser, InvArrive DEF PanelNext
<1>3. QED
  BY <1>1, <1>2

LEMMA PanelInvariance == PanelSpec => []PanelInv
BY PanelStarts, PanelInductive, PTL DEF PanelSpec

(* The panel's state keeps its types.                                       *)
THEOREM PanelTypeCorrect == PanelSpec => []PanelTypeOK
<1>1. PanelInv => PanelTypeOK
  BY DEF PanelInv, Types
<1>2. QED
  BY <1>1, PanelInvariance, PTL

(* The rows are the newest events, LINE_CAP of them at most, under ids that *)
(* are all different, and lines of one log are shown without a gap, however *)
(* often the stream breaks and the panel is cleared.                        *)
THEOREM NewestRows == PanelSpec => []RowsAreTheNewest
<1>1. PanelInv => RowsAreTheNewest
  BY DEF PanelInv
<1>2. QED
  BY <1>1, PanelInvariance, PTL

(* No row is ever of a pod that is not chosen.                              *)
THEOREM ChosenOnly == PanelSpec => []OnlyChosen
<1>1. PanelInv => OnlyChosen
  BY DEF PanelInv, OnlyWanted
<1>2. QED
  BY <1>1, PanelInvariance, PTL
=============================================================================
