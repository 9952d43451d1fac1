------------------------------ MODULE StreamProofs ----------------------------
(***************************************************************************)
(* Proofs about the stream of a run: the generator that sends it, for any  *)
(* stages, limits and lengths of a run, and the page that shows it, for    *)
(* any number of searches.                                                 *)
(***************************************************************************)
EXTENDS StreamHeartbeat, ResearchPage, TLAPS

-----------------------------------------------------------------------------
(* The generator (StreamHeartbeat).                                        *)

-----------------------------------------------------------------------------
(* Types.                                                                  *)

\* Every step keeps the variables well typed.
LEMMA TypeStep == TypeOK /\ [Next]_vars => TypeOK'
<1> SUFFICES ASSUME TypeOK, [Next]_vars PROVE TypeOK'
  OBVIOUS
<1> USE Assumption DEF TypeOK, producer, clocks, progress, sent
<1>1. ASSUME NEW s \in Stages, GraphEvent(s) PROVE TypeOK'
  BY <1>1 DEF GraphEvent, Put
<1>p. ASSUME NEW e \in {Result, End}, Put(e)
      PROVE  queue' \in Seq(Stages \cup {Result, End})
  BY <1>p DEF Put
<1>2. CASE GraphResult \/ ProducerEnds \/ GraphRaises
  <2>1. queue' \in Seq(Stages \cup {Result, End})
    BY <1>2, <1>p DEF GraphResult, ProducerEnds, GraphRaises
  <2> QED
    BY <1>2, <2>1 DEF GraphResult, ProducerEnds, GraphRaises
<1>3. CASE CheckRuntime
  <2>1. errors' \subseteq {"max_runtime", "idle", "exception"}
    BY <1>3 DEF CheckRuntime, Stop
  <2>2. pc' \in {"wait", "closing"}
    BY <1>3 DEF CheckRuntime, Stop
  <2> QED
    BY <1>3, <2>1, <2>2 DEF CheckRuntime
<1>4. CASE Get
  <2>1. stage' \in Stages /\ queue' \in Seq(Stages \cup {Result, End})
    BY <1>4 DEF Get, StageOf, Result, End
  <2>2. warned' \in BOOLEAN /\ final' \in BOOLEAN
    BY <1>4 DEF Get
  <2> QED
    BY <1>4, <2>1, <2>2 DEF Get
<1>5. CASE GetEnd
  BY <1>5 DEF GetEnd
<1>6. CASE WarnIdle \/ AfterWarning \/ Heartbeat
  BY <1>6 DEF WarnIdle, AfterWarning, Heartbeat, IdleVerdict, Stop
<1>7. CASE Close \/ Disconnect
  <2>1. /\ queue' \in Seq(Stages \cup {Result, End})
        /\ graph' \in {"running", "finishing", "finished", "raised",
                      "cancelled"}
    BY <1>7, <1>p DEF Close, Disconnect, CancelProducer
  <2> QED
    BY <1>7, <2>1 DEF Close, Disconnect
<1>8. CASE Tick
  BY <1>8 DEF Tick, Advance
<1>9. CASE UNCHANGED vars
  BY <1>9 DEF vars
<1> QED
  BY <1>1, <1>2, <1>3, <1>4, <1>5, <1>6, <1>7, <1>8, <1>9
  DEF Next, Consumer, Over

\* The variables are well typed and the clocks bounded (_with_heartbeat of
\* service/api.py and event_generator of mcp_server/sse.py).
THEOREM TypeCorrect == Spec => []TypeOK
<1>1. Init => TypeOK
  <2> SUFFICES ASSUME Init PROVE TypeOK
    OBVIOUS
  <2>1. <<>> \in Seq(Stages \cup {Result, End})
    OBVIOUS
  <2>2. maxRuntime \in MaxRuntimes /\ maxRuntime \in Nat
    BY Assumption DEF Init
  <2>3. /\ emitted \in 0 .. MaxEvents /\ elapsed \in 0 .. maxRuntime
        /\ waited \in 0 .. Interval
        /\ silent \in 0 .. Patience /\ idle \in 0 .. Patience
    BY <2>2, Assumption DEF Init
  <2>4. stage \in Stages /\ errors = {}
        /\ warned \in BOOLEAN /\ final \in BOOLEAN /\ done \in BOOLEAN
    BY Assumption DEF Init
  <2>5. graph = "running" /\ pc = "check" /\ queue = <<>>
    BY DEF Init
  <2> QED
    BY <2>1, <2>2, <2>3, <2>4, <2>5 DEF TypeOK
<1> QED
  BY <1>1, TypeStep, PTL DEF Spec

-----------------------------------------------------------------------------
(* The queue and the end of the stream.                                    *)

Ended == graph \in {"finished", "raised", "cancelled"}

InQueue(e) == \E i \in 1 .. Len(queue) : queue[i] = e

\* The end mark is in the queue only once the producer has stopped, and last.
EndInv ==
  /\ ~Ended => ~InQueue(End)
  /\ EndIsLast
  /\ pc = "closed" => Ended

\* A finished graph's result has been sent or is still in the queue; the
\* consumer leaves its loop with an error, or because it has found the mark.
ResultInv ==
  /\ graph = "cancelled" => pc = "closed"
  /\ graph \in {"finishing", "finished"} /\ pc # "closed"
       => final \/ InQueue(Result)
  /\ pc = "closing" /\ errors = {}
       => graph = "raised" \/ (graph = "finished" /\ final)
  /\ done => pc = "closed"
  /\ QuietEndMeansFailure

\* Nothing after the end mark: appending keeps the mark last when there was
\* none, and so does taking the first event.
LEMMA EndStep == TypeOK /\ EndInv /\ [Next]_vars => EndInv'
<1> SUFFICES ASSUME TypeOK, EndInv, [Next]_vars PROVE EndInv'
  OBVIOUS
<1> USE DEF EndInv, Ended, InQueue, EndIsLast, producer, clocks, progress, sent
<1>q. /\ queue \in Seq(Stages \cup {Result, End})
      /\ graph \in {"running", "finishing", "finished", "raised", "cancelled"}
  BY DEF TypeOK
<1>1. ASSUME NEW e \in Stages \cup {Result}, graph = "running",
             Put(e), graph' \in {"running", "finishing"}, UNCHANGED pc
      PROVE  EndInv'
  <2>1. e # End
    BY Assumption DEF Result, End
  <2> QED
    BY <1>1, <1>q, <2>1 DEF Put
<1>2. ASSUME graph \in {"running", "finishing"}, Put(End),
             graph' \in {"finished", "raised", "cancelled"}
      PROVE  EndInv'
  BY <1>2, <1>q DEF Put
<1>3. ASSUME UNCHANGED <<queue, graph>>, pc' = "closed" => pc = "closed"
      PROVE  EndInv'
  BY <1>3
<1>4. ASSUME queue # <<>>, queue' = Tail(queue), UNCHANGED graph,
             pc' # "closed"
      PROVE  EndInv'
  BY <1>4, <1>q
<1>5. ASSUME NEW s \in Stages, GraphEvent(s) PROVE EndInv'
  BY <1>1, <1>5 DEF GraphEvent
<1>6. CASE GraphResult
  BY <1>1, <1>6 DEF GraphResult
<1>7. CASE ProducerEnds \/ GraphRaises
  BY <1>2, <1>7 DEF ProducerEnds, GraphRaises
<1>8. CASE Get \/ GetEnd
  BY <1>4, <1>8 DEF Get, GetEnd
<1>9. CASE CheckRuntime \/ WarnIdle \/ AfterWarning \/ Heartbeat \/ Tick
  BY <1>3, <1>9 DEF CheckRuntime, WarnIdle, AfterWarning, Heartbeat, Tick,
     IdleVerdict, Stop, TimedOut
<1>10. CASE Close \/ Disconnect
  <2>1. CASE graph \in {"running", "finishing"}
    BY <1>2, <1>10, <2>1 DEF Close, Disconnect, CancelProducer
  <2>2. CASE graph \notin {"running", "finishing"}
    BY <1>q, <1>10, <2>2 DEF Close, Disconnect, CancelProducer
  <2> QED
    BY <2>1, <2>2
<1>11. CASE UNCHANGED vars
  BY <1>3, <1>11 DEF vars
<1> QED
  BY <1>5, <1>6, <1>7, <1>8, <1>9, <1>10, <1>11 DEF Next, Consumer, Over

\* The result stays ahead of the end mark, from the graph to the client.
LEMMA ResultStep == TypeOK /\ EndInv /\ ResultInv /\ [Next]_vars => ResultInv'
<1> SUFFICES ASSUME TypeOK, EndInv, ResultInv, [Next]_vars PROVE ResultInv'
  OBVIOUS
<1> USE DEF ResultInv, QuietEndMeansFailure, producer, clocks, progress, sent
<1>q. /\ queue \in Seq(Stages \cup {Result, End})
      /\ graph \in {"running", "finishing", "finished", "raised", "cancelled"}
  BY DEF TypeOK
<1>p. ASSUME NEW e, Put(e), InQueue(Result) PROVE InQueue(Result)'
  BY <1>q, <1>p DEF Put, InQueue
<1>1. ASSUME NEW s \in Stages, GraphEvent(s) PROVE ResultInv'
  BY <1>1, <1>p DEF GraphEvent
<1>2. CASE GraphResult
  <2>1. InQueue(Result)'
    <3>1. queue' = Append(queue, Result)
      BY <1>2 DEF GraphResult, Put
    <3>2. Len(queue) + 1 \in 1 .. Len(queue') /\ queue'[Len(queue) + 1] = Result
      BY <1>q, <3>1
    <3> QED
      BY <3>2 DEF InQueue
  <2> QED
    BY <1>2, <2>1 DEF GraphResult
<1>3. CASE ProducerEnds \/ GraphRaises
  BY <1>3, <1>p DEF ProducerEnds, GraphRaises, EndInv, Ended
<1>4. CASE Get
  <2>1. InQueue(Result) /\ Head(queue) # Result => InQueue(Result)'
    <3> SUFFICES ASSUME NEW i \in 1 .. Len(queue), queue[i] = Result,
                        Head(queue) # Result
                 PROVE  InQueue(Result)'
      BY DEF InQueue
    <3>1. queue' = Tail(queue) /\ queue # <<>>
      BY <1>4 DEF Get
    <3>2. i # 1
      BY <1>q, <3>1
    <3>3. i - 1 \in 1 .. Len(queue') /\ queue'[i - 1] = Result
      BY <1>q, <3>1, <3>2
    <3> QED
      BY <3>3 DEF InQueue
  <2>2. Head(queue) = Result \/ final => final'
    BY <1>4 DEF Get
  <2>3. /\ UNCHANGED <<graph, errors, done>> /\ pc = "wait" /\ pc' = "check"
    BY <1>4 DEF Get
  <2> QED
    BY <2>1, <2>2, <2>3
<1>5. CASE GetEnd
  <2>1. queue # <<>> /\ queue[1] = End
    BY <1>q, <1>5 DEF GetEnd
  <2>2. Ended /\ Len(queue) = 1
    BY <1>q, <2>1 DEF EndInv, Ended, EndIsLast
  <2>3. ~InQueue(Result)
    BY <2>1, <2>2 DEF InQueue, Result, End
  <2>4. /\ pc = "wait" /\ pc' = "closing"
        /\ UNCHANGED <<graph, errors, done, final>>
    BY <1>5 DEF GetEnd
  <2> QED
    BY <2>2, <2>3, <2>4 DEF Ended
<1>6. CASE CheckRuntime \/ WarnIdle \/ AfterWarning \/ Heartbeat \/ Tick
  <2>1. /\ UNCHANGED <<queue, graph, final, done>>
        /\ pc # "closed" /\ pc' # "closed"
    BY <1>6 DEF CheckRuntime, WarnIdle, AfterWarning, Heartbeat, Tick,
       IdleVerdict, Stop, TimedOut
  <2>2. pc' = "closing" => errors' # {} \/ (pc = "closing" /\ UNCHANGED errors)
    BY <1>6 DEF CheckRuntime, WarnIdle, AfterWarning, Heartbeat, Tick,
       IdleVerdict, Stop, TimedOut
  <2> QED
    BY <2>1, <2>2 DEF InQueue
<1>7. CASE Close
  <2>1. /\ pc = "closing" /\ pc' = "closed" /\ UNCHANGED final
        /\ errors \subseteq errors'
        /\ graph \in {"raised", "finished"} => UNCHANGED graph
    BY <1>7 DEF Close, CancelProducer
  <2> QED
    BY <2>1
<1>8. CASE Disconnect
  BY <1>8 DEF Disconnect
<1>9. CASE UNCHANGED vars
  BY <1>9 DEF vars, InQueue
<1> QED
  BY <1>1, <1>2, <1>3, <1>4, <1>5, <1>6, <1>7, <1>8, <1>9
  DEF Next, Consumer, Over

\* Both invariants hold of every reachable state.
LEMMA EndCorrect == Spec => [](EndInv /\ ResultInv)
<1>1. Init => EndInv /\ ResultInv
  BY DEF Init, EndInv, ResultInv, Ended, InQueue, EndIsLast,
     QuietEndMeansFailure
<1> QED
  BY <1>1, TypeCorrect, EndStep, ResultStep, PTL DEF Spec

\* The end mark is put once and is the last thing in the queue, although the
\* producer's two ends and its cancellation all put it.
THEOREM MarkIsLast == Spec => []EndIsLast
<1>1. EndInv => EndIsLast
  BY DEF EndInv
<1> QED
  BY <1>1, EndCorrect, PTL

\* A closed generator leaves no producer behind.
THEOREM ProducerAlwaysStopped == Spec => []ProducerStopped
<1>1. EndInv => ProducerStopped
  BY DEF EndInv, Ended, ProducerStopped
<1> QED
  BY <1>1, EndCorrect, PTL

\* A stream that closes with neither a result nor an error is that of a graph
\* that raised.
THEOREM QuietEnd == Spec => []QuietEndMeansFailure
<1>1. ResultInv => QuietEndMeansFailure
  BY DEF ResultInv
<1> QED
  BY <1>1, EndCorrect, PTL

-----------------------------------------------------------------------------
(* The warning.                                                            *)

\* Whatever ratio is configured, the warning is due no later than the stop.
LEMMA WarnInTime ==
  ASSUME NEW s \in Stages PROVE WarnThreshold(s) <= Threshold(s)
<1> DEFINE c == ClampedRatio
           t == Threshold(s)
<1>1. c \in 10 .. 95
  BY Assumption DEF ClampedRatio
<1>2. t \in Nat /\ t >= 1
  BY Assumption DEF Threshold, AtLeastOne
<1> HIDE DEF c, t
<1>3. t * c \in Nat /\ t * c <= t * 100
  BY <1>1, <1>2
<1>4. (t * c) \div 100 <= t
  <2>1. ASSUME NEW x \in Nat, x <= t * 100 PROVE x \div 100 <= t
    BY <1>2, <2>1
  <2> QED
    BY <1>3, <2>1
<1> QED
  BY <1>2, <1>3, <1>4 DEF WarnThreshold, AtLeastOne, c, t

WarnInv ==
  /\ pc = "warning" => warned
  /\ "idle" \in errors => warned /\ pc \in {"closing", "closed"}

\* Every step keeps the warning ahead of the stop.
LEMMA WarnStep == TypeOK /\ WarnInv /\ [Next]_vars => WarnInv'
<1> SUFFICES ASSUME TypeOK, WarnInv, [Next]_vars PROVE WarnInv'
  OBVIOUS
<1> USE DEF WarnInv, producer, clocks, progress, sent
<1>1. CASE \/ \E s \in Stages : GraphEvent(s)
           \/ GraphResult \/ ProducerEnds \/ GraphRaises \/ Tick
           \/ UNCHANGED vars
  BY <1>1 DEF GraphEvent, GraphResult, ProducerEnds, GraphRaises, Tick, vars
<1>2. CASE CheckRuntime \/ Get \/ GetEnd
  BY <1>2 DEF CheckRuntime, Get, GetEnd, Stop
<1>3. CASE WarnIdle \/ AfterWarning
  BY <1>3 DEF WarnIdle, AfterWarning, IdleVerdict, Stop, TimedOut
<1>4. CASE Heartbeat
  <2>1. silent >= Threshold(stage) => warned
    <3>1. stage \in Stages /\ silent \in Int
      BY DEF TypeOK
    <3>2. Threshold(stage) \in Int /\ WarnThreshold(stage) \in Int
      BY <3>1, Assumption DEF Threshold, WarnThreshold, AtLeastOne, ClampedRatio
    <3> QED
      BY <1>4, <3>1, <3>2, WarnInTime DEF Heartbeat
  <2>2. UNCHANGED warned /\ pc = "wait"
    BY <1>4 DEF Heartbeat, TimedOut
  <2>3. \/ pc' = "check" /\ UNCHANGED errors
        \/ silent >= Threshold(stage) /\ pc' = "closing"
    BY <1>4 DEF Heartbeat, IdleVerdict, Stop
  <2> QED
    BY <2>1, <2>2, <2>3
<1>5. CASE Close \/ Disconnect
  BY <1>5 DEF Close, Disconnect
<1> QED
  BY <1>1, <1>2, <1>3, <1>4, <1>5 DEF Next, Consumer, Over

\* A run is stopped for being idle only after its client has been warned.
THEOREM WarnedFirst == Spec => []WarnedBeforeStopped
<1>1. Init => WarnInv
  BY DEF Init, WarnInv
<1>2. WarnInv => WarnedBeforeStopped
  BY DEF WarnInv, WarnedBeforeStopped
<1> QED
  BY <1>1, <1>2, TypeCorrect, WarnStep, PTL DEF Spec

-----------------------------------------------------------------------------
(* The page (ResearchPage).                                                *)

\* Searches are numbered as they come.  As long as none was given up during its
\* health check, only the last one waits for it, with the form locked, and
\* only the stream of the last one is open, and the ref holds it.
PageInv ==
  /\ PageTypeOK /\ PageFollowsLatest
  /\ \A s \in Searches : stream[s] # "none" => s <= latest
  /\ givenUp = {} => \A s \in Searches :
       /\ stream[s] = "health" => s = latest /\ searching
       /\ stream[s] = "open" => s = latest /\ s = current

\* What closing a stream does to each of them.
LEMMA ShutStreams ==
  ASSUME NEW q
  PROVE  \A s \in Searches :
           /\ Shut(q)[s] = "open" => stream[s] = "open" /\ s # q
           /\ Shut(q)[s] = "health" => stream[s] = "health"
           /\ Shut(q)[s] # "none" => stream[s] # "none"
BY DEF Shut

\* A search begins.
LEMMA SearchStep == PageInv /\ Search => PageInv'
<1> SUFFICES ASSUME PageInv, Search PROVE PageInv'
  OBVIOUS
<1> DEFINE n == latest + 1
<1>1. /\ latest \in Nat /\ n \in Searches /\ n \in 0 .. MaxSearches
      /\ MaxSearches \in Nat
      /\ stream \in [Searches -> {"none", "health", "open", "closed"}]
  BY PageAssumption DEF PageInv, PageTypeOK, Search, Searches
<1>2. /\ searching' = TRUE /\ view' = "connecting" /\ shown' = 0
      /\ gotEvent' = FALSE /\ gotFinal' = FALSE /\ latest' = n /\ ~searching
      /\ stream' = [Shut(current) EXCEPT ![n] = "health"]
      /\ UNCHANGED <<current, timers, givenUp, staleTimer>>
  BY DEF Search, CurrentShut, history
<1>3. /\ stream'[n] = "health"
      /\ \A s \in Searches : s # n => stream'[s] = Shut(current)[s]
  BY <1>1, <1>2 DEF Shut
<1>4. stream' \in [Searches -> {"none", "health", "open", "closed"}]
  BY <1>1, <1>2 DEF Shut
<1>5. PageTypeOK'
  <2> HIDE DEF n
  <2>1. 0 \in 0 .. MaxSearches
    BY <1>1
  <2> QED
    BY <1>1, <1>2, <1>4, <2>1 DEF PageInv, PageTypeOK
<1>6. \A s \in Searches : stream'[s] # "none" => s <= latest'
  BY <1>1, <1>2, <1>3, ShutStreams DEF PageInv, Searches
<1>7. givenUp = {} =>
        \A s \in Searches : s # n => stream'[s] \notin {"health", "open"}
  BY <1>2, <1>3, ShutStreams DEF PageInv
<1>8. PageFollowsLatest'
  BY <1>2, <1>3, <1>7 DEF PageFollowsLatest, Open
<1> QED
  BY <1>2, <1>3, <1>5, <1>6, <1>7, <1>8 DEF PageInv

\* The form is unlocked and some stream closed: by the user, a timer or the end
\* of the stream.
LEMMA UnlockStep ==
  ASSUME PageInv, NEW q \in 0 .. MaxSearches, stream' = Shut(q), Unlock,
         UNCHANGED <<latest, current, shown>>, PageTypeOK',
         staleTimer => staleTimer',
         givenUp = {} /\ ~staleTimer' =>
           /\ Open \subseteq {q}
           /\ view' \in {"connecting", "running"} => gotFinal'
  PROVE  PageInv'
<1>1. /\ ~searching'
      /\ givenUp' = givenUp \cup {s \in Searches : stream[s] = "health"}
  BY DEF Unlock
<1>2. \A s \in Searches : stream'[s] # "none" => s <= latest'
  BY ShutStreams DEF PageInv
<1>3. ASSUME givenUp' = {}
      PROVE  /\ givenUp = {}
             /\ \A s \in Searches :
                  stream[s] # "health" /\ stream'[s] # "health"
  BY <1>1, <1>3, ShutStreams
<1>4. Open' \subseteq Open /\ (Open \subseteq {q} => Open' = {})
  BY ShutStreams DEF Open
<1>5. PageFollowsLatest'
  BY <1>1, <1>3, <1>4 DEF PageInv, PageFollowsLatest
<1>6. givenUp' = {} => \A s \in Searches :
        /\ stream'[s] = "health" => s = latest' /\ searching'
        /\ stream'[s] = "open" => s = latest' /\ s = current'
  BY <1>3, ShutStreams DEF PageInv
<1> QED
  BY <1>2, <1>5, <1>6 DEF PageInv

\* Nothing happens to the streams, and only an open one shows something.
LEMMA EventStep ==
  ASSUME PageInv, NEW s \in Searches, StreamEvent(s)
  PROVE  PageInv'
<1>1. /\ stream[s] = "open" /\ UNCHANGED <<searching, latest, stream, current,
                                           givenUp, staleTimer>>
      /\ gotEvent' \in BOOLEAN /\ gotFinal' \in BOOLEAN
      /\ timers' \subseteq timers
      /\ view' \in {view, "connecting", "running", "final", "error"}
      /\ shown' \in {shown, s}
  BY DEF StreamEvent, Message, Token, Progress, FinalReport, FinalWithoutReport,
     Unparsable, history, PageInv, PageTypeOK
<1>2. PageTypeOK'
  BY <1>1 DEF PageInv, PageTypeOK, Searches
<1>3. s \in Open /\ Open' = Open
  BY <1>1 DEF Open
<1>4. PageFollowsLatest'
  BY <1>1, <1>3 DEF PageInv, PageFollowsLatest
<1> QED
  BY <1>1, <1>2, <1>4 DEF PageInv

\* A health check ends and the stream is opened.
LEMMA HealthStep ==
  ASSUME PageInv, NEW s \in Searches, HealthAnswers(s)
  PROVE  PageInv'
<1>1. /\ stream[s] = "health"
      /\ stream \in [Searches -> {"none", "health", "open", "closed"}]
      /\ stream' = [stream EXCEPT ![s] = "open"] /\ current' = s
      /\ timers' = timers \cup {s}
      /\ UNCHANGED <<searching, view, latest, gotEvent, gotFinal, shown,
                     givenUp, staleTimer>>
  BY DEF HealthAnswers, refs, history, PageInv, PageTypeOK
<1>2. /\ stream'[s] = "open"
      /\ \A q \in Searches : q # s => stream'[q] = stream[q]
  BY <1>1
<1>3. s \in 0 .. MaxSearches
  BY PageAssumption DEF Searches
<1>4. PageTypeOK'
  BY <1>1, <1>3 DEF PageInv, PageTypeOK
<1>5. \A q \in Searches : stream'[q] # "none" => q <= latest'
  BY <1>1, <1>2 DEF PageInv
<1>6. givenUp = {} => s = latest /\ searching
  BY <1>1 DEF PageInv
<1>7. givenUp = {} => \A q \in Searches :
        q # s => stream'[q] \notin {"health", "open"}
  BY <1>1, <1>2, <1>6 DEF PageInv
<1>8. PageFollowsLatest'
  BY <1>1, <1>2, <1>6, <1>7 DEF PageInv, PageFollowsLatest, Open
<1> QED
  BY <1>1, <1>2, <1>4, <1>5, <1>6, <1>7, <1>8 DEF PageInv

\* The types, where the form is unlocked and a stream closed.
LEMMA UnlockTypes ==
  ASSUME PageInv, NEW q, stream' = Shut(q), Unlock,
         UNCHANGED <<latest, current, gotFinal, shown>>,
         gotEvent' \in BOOLEAN, staleTimer' \in BOOLEAN,
         view' \in {"idle", "connecting", "running", "final", "error"},
         timers' \subseteq timers
  PROVE  PageTypeOK'
<1>1. stream' \in [Searches -> {"none", "health", "open", "closed"}]
  BY DEF PageInv, PageTypeOK, Shut
<1>2. searching' = FALSE /\ givenUp' \subseteq Searches
  BY DEF Unlock, PageInv, PageTypeOK
<1> QED
  BY <1>1, <1>2 DEF PageInv, PageTypeOK

\* The user stops the run.
LEMMA StopStep == PageInv /\ StopRun => PageInv'
<1> SUFFICES ASSUME PageInv, StopRun PROVE PageInv'
  OBVIOUS
<1>1. /\ stream' = Shut(current) /\ view' = "error" /\ Unlock
      /\ UNCHANGED <<latest, current, timers, gotEvent, gotFinal, shown,
                     staleTimer>>
  BY DEF StopRun, CurrentShut, refs
<1>2. current \in 0 .. MaxSearches /\ gotEvent \in BOOLEAN
      /\ staleTimer \in BOOLEAN
  BY DEF PageInv, PageTypeOK
<1>3. PageTypeOK'
  BY <1>1, <1>2, UnlockTypes
<1>4. givenUp = {} => Open \subseteq {current}
  BY DEF PageInv, Open
<1> QED
  BY <1>1, <1>2, <1>3, <1>4, UnlockStep

\* The page is cleared.
LEMMA ResetStep == PageInv /\ ResetWorkspace => PageInv'
<1> SUFFICES ASSUME PageInv, ResetWorkspace PROVE PageInv'
  OBVIOUS
<1>1. /\ stream' = Shut(current) /\ view' = "idle" /\ shown' = 0
      /\ gotEvent' = FALSE /\ gotFinal' = FALSE /\ ~searching
      /\ UNCHANGED <<searching, latest, current, timers, givenUp, staleTimer>>
  BY DEF ResetWorkspace, CurrentShut, history
<1>2. stream' \in [Searches -> {"none", "health", "open", "closed"}]
  BY <1>1 DEF PageInv, PageTypeOK, Shut
<1>3. 0 \in 0 .. MaxSearches
  BY PageAssumption
<1>4. PageTypeOK'
  BY <1>1, <1>2, <1>3 DEF PageInv, PageTypeOK
<1>5. \A s \in Searches : stream'[s] # "none" => s <= latest'
  BY <1>1, ShutStreams DEF PageInv
<1>6. givenUp = {} => \A s \in Searches : stream'[s] \notin {"health", "open"}
  BY <1>1, ShutStreams DEF PageInv
<1>7. PageFollowsLatest'
  BY <1>1, <1>6 DEF PageFollowsLatest, Open
<1> QED
  BY <1>1, <1>4, <1>5, <1>6, <1>7 DEF PageInv

\* The timer of a search goes off.
LEMMA TimerStep ==
  ASSUME PageInv, NEW s \in Searches, FirstEventTimer(s)
  PROVE  PageInv'
<1>1. /\ timers' = timers \ {s}
      /\ UNCHANGED <<latest, current, gotEvent, gotFinal, shown>>
  BY DEF FirstEventTimer, refs
<1>2. s \in 0 .. MaxSearches
  BY PageAssumption DEF Searches
<1>3. CASE NothingCame
  <2>1. /\ view' = "error" /\ stream' = Shut(s) /\ Unlock
        /\ staleTimer' = (staleTimer \/ s # latest)
    BY <1>3 DEF FirstEventTimer
  <2>2. gotEvent' \in BOOLEAN /\ staleTimer' \in BOOLEAN
    BY <1>1, <2>1 DEF PageInv, PageTypeOK
  <2>3. PageTypeOK'
    BY <1>1, <2>1, <2>2, UnlockTypes
  <2>4. givenUp = {} /\ ~staleTimer' => Open \subseteq {s}
    BY <2>1 DEF PageInv, PageFollowsLatest
  <2> QED
    BY <1>1, <1>2, <2>1, <2>3, <2>4, UnlockStep
<1>4. CASE ~NothingCame
  <2>1. UNCHANGED <<view, stream, searching, givenUp, staleTimer>>
    BY <1>4 DEF FirstEventTimer, history
  <2>2. PageTypeOK'
    BY <1>1, <2>1 DEF PageInv, PageTypeOK
  <2> QED
    BY <1>1, <2>1, <2>2 DEF PageInv, PageFollowsLatest, Open
<1> QED
  BY <1>3, <1>4

\* A stream ends.
LEMMA StopsStep ==
  ASSUME PageInv, NEW s \in Searches, StreamStops(s)
  PROVE  PageInv'
<1>1. /\ stream[s] = "open" /\ stream' = Shut(s) /\ timers' = timers \ {s}
      /\ Unlock /\ UNCHANGED <<latest, current, gotFinal, shown, staleTimer>>
      /\ gotEvent' = gotEvent \/ gotEvent' = TRUE
      /\ view' = "error" \/ (gotFinal /\ view' = view)
  BY DEF StreamStops, Done, ErrorEvent, ConnectionLost, Ends
<1>2. /\ s \in 0 .. MaxSearches /\ gotEvent' \in BOOLEAN
      /\ staleTimer' \in BOOLEAN
      /\ view' \in {"idle", "connecting", "running", "final", "error"}
  <2>1. s \in 0 .. MaxSearches
    BY PageAssumption DEF Searches
  <2>2. /\ gotEvent \in BOOLEAN /\ staleTimer \in BOOLEAN
        /\ view \in {"idle", "connecting", "running", "final", "error"}
    BY DEF PageInv, PageTypeOK
  <2>3. gotEvent' \in BOOLEAN /\ staleTimer' \in BOOLEAN
    BY <1>1, <2>2
  <2>4. view' \in {"idle", "connecting", "running", "final", "error"}
    BY <1>1, <2>2
  <2> QED
    BY <2>1, <2>3, <2>4
<1>3. PageTypeOK'
  BY <1>1, <1>2, UnlockTypes
<1>4. givenUp = {} => Open \subseteq {s}
  BY <1>1 DEF PageInv, PageFollowsLatest, Open
<1>5. view' \in {"connecting", "running"} => gotFinal'
  BY <1>1
<1> QED
  BY <1>1, <1>2, <1>3, <1>4, <1>5, UnlockStep

\* All of it holds of every reachable state.
LEMMA PageCorrect == PageSpec => []PageInv
<1>1. PageInit => PageInv
  <2> SUFFICES ASSUME PageInit PROVE PageInv
    OBVIOUS
  <2>1. 0 \in 0 .. MaxSearches
    BY PageAssumption
  <2>2. /\ \A s \in Searches : stream[s] = "none"
        /\ stream \in [Searches -> {"none", "health", "open", "closed"}]
    BY DEF PageInit
  <2>3. PageTypeOK
    BY <2>1, <2>2 DEF PageInit, PageTypeOK
  <2>4. PageFollowsLatest
    BY <2>2 DEF PageInit, PageFollowsLatest, Open
  <2> QED
    BY <2>2, <2>3, <2>4 DEF PageInv
<1>2. PageInv /\ [PageNext]_pageVars => PageInv'
  <2> SUFFICES ASSUME PageInv, [PageNext]_pageVars PROVE PageInv'
    OBVIOUS
  <2>1. CASE UNCHANGED pageVars
    BY <2>1 DEF pageVars, refs, history, PageInv, PageTypeOK,
       PageFollowsLatest, Open
  <2>2. CASE PageNext
    BY <2>2, SearchStep, StopStep, ResetStep, HealthStep, TimerStep, EventStep,
       StopsStep DEF PageNext
  <2> QED
    BY <2>1, <2>2
<1> QED
  BY <1>1, <1>2, PTL DEF PageSpec

\* The page's state and refs are well typed.
THEOREM PageTypeCorrect == PageSpec => []PageTypeOK
<1>1. PageInv => PageTypeOK
  BY DEF PageInv
<1> QED
  BY <1>1, PageCorrect, PTL

\* Whatever the user does and however many searches there are, the page follows
\* its last search, unless one was given up while its health check was out
\* (handleSearch, stopRun and the callbacks of page.tsx).
THEOREM PageAlwaysFollows == PageSpec => []PageFollowsLatest
<1>1. PageInv => PageFollowsLatest
  BY DEF PageInv
<1> QED
  BY <1>1, PageCorrect, PTL

=============================================================================
