------------------------ MODULE RequestDispatchProofs ------------------------
(***************************************************************************)
(* Proofs about the dispatch of requests, for any set of requests and of   *)
(* tiers.                                                                  *)
(***************************************************************************)
EXTENDS RequestDispatch, TLAPS

Handling == {"probe", "dispatch", "wait", "fetch"}

\* Runs that the worker has begun for a request.
Taken(r) == IF task[r] \in {"none", "queued"} THEN 0 ELSE 1

\* The runs of a request are those its worker has begun and one more once
\* the handler has gone inline.
RunsCounted(r) ==
  /\ pc[r] \in {"new"} \cup Handling => runs[r] = Taken(r)
  /\ pc[r] = "inline" \/ answer[r] = "inline" => runs[r] = Taken(r) + 1
  /\ runs[r] \in {Taken(r), Taken(r) + 1}

\* A task exists only after the dispatch, and going inline past one is a
\* fallback that was announced.
FallBackKnown(r) ==
  /\ pc[r] \in {"new", "probe", "dispatch"} => task[r] = "none"
  /\ pc[r] \in Handling => asked[r].mode # "inline"
  /\ runs[r] = Taken(r) + 1 /\ task[r] # "none"
       => asked[r].mode = "auto" /\ reason[r]

StrictInv(r) ==
  asked[r].mode = "distributed"
    => pc[r] # "inline" /\ answer[r] \notin {"inline", "error"}

RealInv(r) == answer[r] = "distributed" => task[r] = "succeeded"

RequestInv(r) ==
  RunsCounted(r) /\ FallBackKnown(r) /\ StrictInv(r) /\ RealInv(r)

DispatchInv == \A r \in Requests : RequestInv(r)

\* The kinds of the variables, without the bound on the runs.
KindsOK ==
  /\ asked \in [Requests -> Asks]
  /\ celery \in BOOLEAN /\ broker \in BOOLEAN /\ worker \in BOOLEAN
  /\ pc \in [Requests -> {"new", "inline"} \cup Handling \cup Over]
  /\ task \in [Requests -> {"none", "queued", "running", "succeeded",
                            "failed", "lost"}]
  /\ answer \in [Requests -> {"none", "distributed", "inline", "refused",
                              "error"}]
  /\ reason \in [Requests -> BOOLEAN]
  /\ servedAs \in [Requests -> Tiers \cup {"nobody"}]
  /\ runs \in [Requests -> Nat]

-----------------------------------------------------------------------------

\* A request's mode is one of the three.
LEMMA AskedModes ==
  \A a \in Asks : a.mode \in Modes /\ a.tier \in Tiers
BY TierAssumption DEF Asks, Modes

\* The ways a handler leaves an action keep the variables well typed.
LEMMA OutcomeKinds ==
  ASSUME KindsOK, NEW r \in Requests,
         \/ FallBack(r) \/ Refuse(r)
         \/ Inline(r) /\ UNCHANGED reason
         \/ \E place \in Handling :
              GoTo(r, place) /\ UNCHANGED <<reply, reason, runs>>
         \/ \E how \in {"distributed", "inline", "error"},
               tier \in Tiers \cup {"nobody"} :
              Answer(r, how, tier) /\ UNCHANGED <<reason, runs>>
  PROVE  /\ pc' \in [Requests -> {"new", "inline"} \cup Handling \cup Over]
         /\ answer' \in [Requests -> {"none", "distributed", "inline",
                                      "refused", "error"}]
         /\ reason' \in [Requests -> BOOLEAN]
         /\ servedAs' \in [Requests -> Tiers \cup {"nobody"}]
         /\ runs' \in [Requests -> Nat]
<1> USE DEF KindsOK, Handling, Over
<1>1. CASE Refuse(r)
  BY <1>1 DEF Refuse, Answer, GoTo
<1>2. CASE Inline(r) /\ reason' \in [Requests -> BOOLEAN]
  BY <1>2 DEF Inline, BeginRun, GoTo, reply
<1>3. CASE FallBack(r)
  <2>1. CASE asked[r].mode = "distributed"
    BY <1>1, <1>3, <2>1 DEF FallBack
  <2>2. CASE asked[r].mode # "distributed"
    <3>1. Inline(r) /\ reason' = [reason EXCEPT ![r] = TRUE]
      BY <1>3, <2>2 DEF FallBack
    <3>2. reason' \in [Requests -> BOOLEAN]
      BY <3>1
    <3> QED
      BY <1>2, <3>1, <3>2
  <2> QED
    BY <2>1, <2>2
<1>4. CASE \E place \in Handling :
             GoTo(r, place) /\ UNCHANGED <<reply, reason, runs>>
  BY <1>4 DEF GoTo, reply
<1>5. CASE \E how \in {"distributed", "inline", "error"},
              tier \in Tiers \cup {"nobody"} :
             Answer(r, how, tier) /\ UNCHANGED <<reason, runs>>
  BY <1>5 DEF Answer, GoTo
<1>6. CASE Inline(r) /\ UNCHANGED reason
  BY <1>2, <1>6
<1> QED
  BY <1>1, <1>3, <1>4, <1>5, <1>6

\* Every step keeps the variables well typed.
LEMMA KindsStep == KindsOK /\ [Next]_vars => KindsOK'
<1> SUFFICES ASSUME KindsOK, [Next]_vars PROVE KindsOK'
  OBVIOUS
<1>1. ASSUME NEW r \in Requests,
             Accept(r) \/ Probe(r) \/ Poll(r) \/ TimesOut(r) \/ Fetch(r)
               \/ InlineEnds(r) \/ Dispatch(r)
      PROVE  KindsOK'
  <2>1. UNCHANGED <<asked, outside>>
    BY <1>1 DEF Accept, Probe, Poll, TimesOut, Fetch, InlineEnds, Dispatch
  <2>2. task' \in [Requests -> {"none", "queued", "running", "succeeded",
                                "failed", "lost"}]
    BY <1>1 DEF KindsOK, Accept, Probe, Poll, TimesOut, Fetch, InlineEnds,
       Dispatch
  <2>3. \/ FallBack(r) \/ Refuse(r)
        \/ Inline(r) /\ UNCHANGED reason
        \/ \E place \in Handling :
             GoTo(r, place) /\ UNCHANGED <<reply, reason, runs>>
        \/ \E how \in {"distributed", "inline", "error"},
              tier \in Tiers \cup {"nobody"} :
             Answer(r, how, tier) /\ UNCHANGED <<reason, runs>>
    <3>1. asked[r].tier \in Tiers /\ DefaultTier \in Tiers
      BY AskedModes, TierAssumption DEF KindsOK
    <3>2. CASE Accept(r)
      BY <3>2 DEF Accept, Handling
    <3>3. CASE Probe(r) \/ Poll(r) \/ TimesOut(r) \/ Dispatch(r)
      BY <3>3 DEF Probe, Poll, TimesOut, Dispatch, Handling
    <3>4. CASE Fetch(r) \/ InlineEnds(r)
      BY <3>1, <3>4 DEF Fetch, InlineEnds
    <3> QED
      BY <1>1, <3>2, <3>3, <3>4
  <2> QED
    BY <2>1, <2>2, <2>3, OutcomeKinds DEF KindsOK, outside
<1>2. ASSUME NEW r \in Requests, Leave(r) \/ TakeTask(r) \/ TaskEnds(r)
      PROVE  KindsOK'
  BY <1>2 DEF KindsOK, Leave, TakeTask, TaskEnds, GoTo, BeginRun, Ready,
     Over, Handling, outside, reply
<1>3. CASE WorkerDies
  BY <1>3 DEF KindsOK, WorkerDies, Orphaned, reply
<1>4. CASE WorkerStarts \/ BrokerFlips \/ UNCHANGED vars
  BY <1>4 DEF KindsOK, WorkerStarts, BrokerFlips, vars, outside, reply
<1> QED
  BY <1>1, <1>2, <1>3, <1>4 DEF Next, Handler

-----------------------------------------------------------------------------

\* What the handler does for a request keeps the request's facts.
LEMMA HandlerStep ==
  ASSUME KindsOK, NEW r \in Requests, RequestInv(r),
         Accept(r) \/ Handler(r) \/ Leave(r)
  PROVE  RequestInv(r)'
<1>1. asked[r].mode \in Modes
  BY AskedModes DEF KindsOK
<1> USE <1>1 DEF KindsOK, RequestInv, RunsCounted, FallBackKnown, StrictInv,
                 RealInv, Taken, Handling, Over, Modes
<1>2. CASE Accept(r)
  <2>1. asked' = asked /\ task' = task
    BY <1>2 DEF Accept
  <2>2. CASE Refuse(r)
    BY <1>2, <2>1, <2>2 DEF Accept, Refuse, Answer, GoTo
  <2>3. CASE Inline(r) /\ asked[r].mode # "distributed"
               /\ reason' \in [Requests -> BOOLEAN]
    BY <1>2, <2>1, <2>3 DEF Accept, Inline, BeginRun, GoTo, reply
  <2>4. CASE GoTo(r, "probe") /\ UNCHANGED <<reply, reason, runs>>
               /\ asked[r].mode # "inline"
    BY <1>2, <2>1, <2>4 DEF Accept, GoTo, reply
  <2>5. CASE FallBack(r)
    BY <2>2, <2>3, <2>5 DEF FallBack
  <2>6. \/ Refuse(r) \/ FallBack(r)
        \/ Inline(r) /\ UNCHANGED reason /\ asked[r].mode # "distributed"
        \/ GoTo(r, "probe") /\ UNCHANGED <<reply, reason, runs>>
             /\ asked[r].mode # "inline"
    BY <1>2 DEF Accept, UseDistributed
  <2> QED
    BY <2>2, <2>3, <2>4, <2>5, <2>6
<1>3. ASSUME pc[r] \in Handling, FallBack(r), UNCHANGED <<asked, task>>
      PROVE  RequestInv(r)'
  <2>1. CASE asked[r].mode = "distributed"
    BY <1>3, <2>1 DEF FallBack, Refuse, Answer, GoTo
  <2>2. CASE asked[r].mode # "distributed"
    BY <1>3, <2>2 DEF FallBack, Inline, BeginRun, GoTo, reply
  <2> QED
    BY <2>1, <2>2
<1>4. CASE Probe(r)
  <2>1. CASE FallBack(r)
    BY <1>3, <1>4, <2>1 DEF Probe
  <2>2. CASE GoTo(r, "dispatch") /\ UNCHANGED <<reply, reason, runs>>
    BY <1>4, <2>2 DEF Probe, GoTo, reply
  <2> QED
    BY <1>4, <2>1, <2>2 DEF Probe
<1>5. CASE Dispatch(r)
  <2>1. CASE FallBack(r) /\ UNCHANGED task
    BY <1>3, <1>5, <2>1 DEF Dispatch
  <2>2. CASE GoTo(r, "wait") /\ task' = [task EXCEPT ![r] = "queued"]
               /\ UNCHANGED <<reply, reason, runs>>
    BY <1>5, <2>2 DEF Dispatch, GoTo, reply
  <2> QED
    BY <1>5, <2>1, <2>2 DEF Dispatch
<1>6. CASE Poll(r)
  <2>1. CASE FallBack(r)
    BY <1>3, <1>6, <2>1 DEF Poll
  <2>2. CASE GoTo(r, "fetch") /\ UNCHANGED <<reply, reason, runs>>
    BY <1>6, <2>2 DEF Poll, GoTo, reply
  <2> QED
    BY <1>6, <2>1, <2>2 DEF Poll
<1>7. CASE TimesOut(r)
  BY <1>3, <1>7 DEF TimesOut
<1>8. CASE Fetch(r)
  <2>1. CASE FallBack(r)
    BY <1>3, <1>8, <2>1 DEF Fetch
  <2>2. CASE HasResult(r) /\ Answer(r, "distributed", DefaultTier)
               /\ UNCHANGED <<reason, runs>>
    BY <1>8, <2>2 DEF Fetch, HasResult, Answer, GoTo
  <2> QED
    BY <1>8, <2>1, <2>2 DEF Fetch
<1>9. CASE InlineEnds(r)
  BY <1>9 DEF InlineEnds, Answer, GoTo
<1>10. CASE Leave(r)
  BY <1>10 DEF Leave, GoTo, reply
<1> QED
  BY <1>2, <1>4, <1>5, <1>6, <1>7, <1>8, <1>9, <1>10 DEF Handler

\* So does what happens to its task.
LEMMA TaskStep ==
  ASSUME KindsOK, NEW r \in Requests, RequestInv(r),
         TakeTask(r) \/ TaskEnds(r) \/ WorkerDies
  PROVE  RequestInv(r)'
<1> USE DEF KindsOK, RequestInv, RunsCounted, FallBackKnown, StrictInv,
            RealInv, Taken, Handling, Over
<1>1. CASE TakeTask(r)
  BY <1>1 DEF TakeTask, BeginRun, reply
<1>2. CASE TaskEnds(r)
  BY <1>2 DEF TaskEnds, Ready, reply
<1>3. CASE WorkerDies
  BY <1>3 DEF WorkerDies, Orphaned, reply
<1> QED
  BY <1>1, <1>2, <1>3

\* A request that a step leaves alone keeps its facts.
LEMMA OthersStep ==
  ASSUME KindsOK, NEW q \in Requests, RequestInv(q),
         asked'[q] = asked[q], pc'[q] = pc[q], task'[q] = task[q],
         answer'[q] = answer[q], reason'[q] = reason[q], runs'[q] = runs[q]
  PROVE  RequestInv(q)'
BY DEF RequestInv, RunsCounted, FallBackKnown, StrictInv, RealInv, Taken

\* A step of one request leaves all others alone.
LEMMA OneAtATime ==
  ASSUME KindsOK, NEW r \in Requests, NEW q \in Requests, q # r,
         Accept(r) \/ Handler(r) \/ Leave(r) \/ TakeTask(r) \/ TaskEnds(r)
  PROVE  /\ asked'[q] = asked[q] /\ pc'[q] = pc[q] /\ task'[q] = task[q]
         /\ answer'[q] = answer[q] /\ reason'[q] = reason[q]
         /\ runs'[q] = runs[q]
<1> USE DEF KindsOK, GoTo, Answer, Refuse, BeginRun, Inline, FallBack, reply
<1>1. CASE Accept(r)
  BY <1>1 DEF Accept
<1>2. CASE Handler(r)
  BY <1>2 DEF Handler, Probe, Dispatch, Poll, TimesOut, Fetch, InlineEnds
<1>3. CASE Leave(r) \/ TakeTask(r) \/ TaskEnds(r)
  BY <1>3 DEF Leave, TakeTask, TaskEnds
<1> QED
  BY <1>1, <1>2, <1>3

\* Every step keeps the facts of every request.
LEMMA DispatchStep == KindsOK /\ DispatchInv /\ [Next]_vars => DispatchInv'
<1> SUFFICES ASSUME KindsOK, DispatchInv, [Next]_vars, NEW q \in Requests
             PROVE  RequestInv(q)'
  BY DEF DispatchInv
<1>1. RequestInv(q)
  BY DEF DispatchInv
<1>2. ASSUME NEW r \in Requests,
             Accept(r) \/ Handler(r) \/ Leave(r) \/ TakeTask(r) \/ TaskEnds(r)
      PROVE  RequestInv(q)'
  <2>1. CASE q = r
    BY <1>1, <1>2, <2>1, HandlerStep, TaskStep
  <2>2. CASE q # r
    BY <1>1, <1>2, <2>2, OneAtATime, OthersStep
  <2> QED
    BY <2>1, <2>2
<1>3. CASE WorkerDies
  BY <1>1, <1>3, TaskStep
<1>4. CASE WorkerStarts \/ BrokerFlips \/ UNCHANGED vars
  BY <1>1, <1>4, OthersStep DEF WorkerStarts, BrokerFlips, vars, reply
<1> QED
  BY <1>2, <1>3, <1>4 DEF Next

\* The kinds and the facts hold in every run.
LEMMA DispatchInvariant == Spec => [](KindsOK /\ DispatchInv)
<1>1. Init => KindsOK
  BY DEF Init, KindsOK
<1>2. Init => DispatchInv
  BY DEF Init, DispatchInv, RequestInv, RunsCounted, FallBackKnown,
     StrictInv, RealInv, Taken, Handling
<1> QED
  BY <1>1, <1>2, KindsStep, DispatchStep, PTL DEF Spec

-----------------------------------------------------------------------------

\* The variables are well typed, and no request is researched more than twice.
THEOREM TypeCorrect == Spec => []TypeOK
<1>1. KindsOK /\ DispatchInv => TypeOK
  <2> SUFFICES ASSUME KindsOK, DispatchInv PROVE TypeOK
    OBVIOUS
  <2>1. runs \in [Requests -> 0 .. 2]
    BY DEF KindsOK, DispatchInv, RequestInv, RunsCounted, Taken
  <2> QED
    BY <2>1 DEF KindsOK, TypeOK, Handling, Over
<1> QED
  BY <1>1, DispatchInvariant, PTL

\* Who asks for a distributed run is never served inline.
THEOREM StrictlyDistributed == Spec => []StrictDistributed
<1>1. DispatchInv => StrictDistributed
  BY DEF DispatchInv, RequestInv, StrictInv, StrictDistributed
<1> QED
  BY <1>1, DispatchInvariant, PTL

\* A distributed answer is the result of the request's own task.
THEOREM AnswersAreReal == Spec => []AnswerIsReal
<1>1. DispatchInv => AnswerIsReal
  BY DEF DispatchInv, RequestInv, RealInv, AnswerIsReal
<1> QED
  BY <1>1, DispatchInvariant, PTL

\* A second run is always an announced fallback in auto mode.
THEOREM SecondRunsExplained == Spec => []SecondRunExplained
<1>1. KindsOK /\ DispatchInv => SecondRunExplained
  BY DEF KindsOK, DispatchInv, RequestInv, RunsCounted, FallBackKnown, Taken,
     SecondRunExplained
<1> QED
  BY <1>1, DispatchInvariant, PTL

-----------------------------------------------------------------------------
(* Refinement.                                                             *)

ModeMap  == [r \in Requests |-> asked[r].mode]
StageMap == [r \in Requests |-> StageOf(pc[r])]
WorkMap  == [r \in Requests |-> WorkOf(task[r])]

\* A handler that goes on changes the stage of its own request only.
LEMMA StageMoves ==
  ASSUME KindsOK, NEW r \in Requests, NEW place, GoTo(r, place)
  PROVE  StageMap' = [StageMap EXCEPT ![r] = StageOf(place)]
BY DEF KindsOK, GoTo, StageMap

\* And a task that is sent the work of its own request.
LEMMA WorkMoves ==
  ASSUME KindsOK, NEW r \in Requests, NEW state,
         task' = [task EXCEPT ![r] = state]
  PROVE  WorkMap' = [WorkMap EXCEPT ![r] = WorkOf(state)]
BY DEF KindsOK, WorkMap

\* The stages of the places.
LEMMA Places ==
  /\ StageOf("new") = "new" /\ StageOf("inline") = "alone"
  /\ StageOf("answered") = "settled" /\ StageOf("gone") = "settled"
  /\ \A place \in Handling : StageOf(place) = "open"
BY DEF StageOf, Over, Handling

LEMMA States ==
  /\ WorkOf("none") = "none" /\ WorkOf("succeeded") = "done"
  /\ \A state \in {"queued", "running", "failed", "lost"} :
       WorkOf(state) = "sent"
BY DEF WorkOf

LEMMA SendingSends ==
  ASSUME KindsOK, NEW r \in Requests, task' = [task EXCEPT ![r] = "queued"]
  PROVE  WorkMap' = [WorkMap EXCEPT ![r] = "sent"]
<1>1. PICK state \in {"queued"} : task' = [task EXCEPT ![r] = state]
  OBVIOUS
<1>2. WorkMap' = [WorkMap EXCEPT ![r] = WorkOf(state)]
  BY <1>1, WorkMoves
<1> QED
  BY <1>2, States

\* Refusing settles a request, going inline leaves the service alone with it.
LEMMA RefuseSettles ==
  ASSUME KindsOK, NEW r \in Requests, Refuse(r), UNCHANGED task
  PROVE  Contract!Settle(r, "refused")
<1>1. StageMap' = [StageMap EXCEPT ![r] = "settled"]
  BY StageMoves, Places DEF Refuse, Answer
<1>2. /\ answer' = [answer EXCEPT ![r] = "refused"]
      /\ UNCHANGED <<reason, task>>
  BY DEF Refuse, Answer
<1>3. WorkMap' = WorkMap
  BY <1>2 DEF WorkMap
<1> QED
  BY <1>1, <1>2, <1>3
     DEF Contract!Settle, Contract!Enter, StageMap, WorkMap

LEMMA InlineGoesAlone ==
  ASSUME KindsOK, NEW r \in Requests, Inline(r), UNCHANGED task,
         asked[r].mode # "distributed",
         \/ UNCHANGED reason
         \/ asked[r].mode = "auto" /\ reason' = [reason EXCEPT ![r] = TRUE]
  PROVE  Contract!GoAlone(r)
<1>1. StageMap' = [StageMap EXCEPT ![r] = "alone"]
  BY StageMoves, Places DEF Inline
<1>2. answer' = answer
  BY DEF Inline, reply
<1>3. WorkMap' = WorkMap
  BY DEF WorkMap
<1>4. ModeMap[r] = asked[r].mode
  BY DEF ModeMap
<1> QED
  BY <1>1, <1>2, <1>3, <1>4
     DEF Contract!GoAlone, Contract!Enter, StageMap, WorkMap, ModeMap

\* A fallback gives the open request up, or goes alone with a new one.
LEMMA FallBackGivesUp ==
  ASSUME KindsOK, NEW r \in Requests, FallBack(r), UNCHANGED task,
         asked[r].mode # "inline"
  PROVE  /\ Contract!GoAlone(r) \/ Contract!Settle(r, "refused")
         /\ pc[r] \in Handling => Contract!GiveUp(r)
<1>1. asked[r].mode \in Modes
  BY AskedModes DEF KindsOK
<1>2. ModeMap[r] = asked[r].mode
  BY DEF ModeMap
<1>3. pc[r] \in Handling => StageMap[r] = "open"
  BY Places DEF StageMap
<1>4. CASE asked[r].mode = "distributed"
  <2>1. Contract!Settle(r, "refused")
    BY <1>4, RefuseSettles DEF FallBack
  <2> QED
    BY <1>2, <1>3, <1>4, <2>1 DEF Contract!GiveUp, StageMap, ModeMap
<1>5. CASE asked[r].mode # "distributed"
  <2>1. Inline(r) /\ reason' = [reason EXCEPT ![r] = TRUE]
    BY <1>5 DEF FallBack
  <2>2. asked[r].mode = "auto"
    BY <1>1, <1>5 DEF Modes
  <2>3. Contract!GoAlone(r)
    BY <1>5, <2>1, <2>2, InlineGoesAlone
  <2>4. reason'[r]
    BY <2>1 DEF KindsOK
  <2> QED
    BY <1>3, <2>3, <2>4 DEF Contract!GiveUp, StageMap
<1> QED
  BY <1>4, <1>5

\* What the contract says of one request.
Promise(r) ==
  \/ Contract!Ask(r) \/ Contract!Send(r) \/ Contract!Work(r)
  \/ Contract!Serve(r) \/ Contract!GiveUp(r) \/ Contract!Finish(r)
  \/ Contract!Leave(r)
  \/ UNCHANGED <<StageMap, WorkMap, reason, answer>>

LEMMA AcceptAsks ==
  ASSUME KindsOK, NEW r \in Requests, Accept(r)
  PROVE  Contract!Ask(r)
<1>1. /\ pc[r] = "new" /\ UNCHANGED <<asked, task>>
      /\ \/ Refuse(r)
         \/ FallBack(r) /\ asked[r].mode # "inline"
         \/ Inline(r) /\ UNCHANGED reason /\ asked[r].mode # "distributed"
         \/ /\ GoTo(r, "probe") /\ UNCHANGED <<reply, reason, runs>>
            /\ asked[r].mode # "inline"
  BY DEF Accept, UseDistributed
<1>2. StageMap[r] = "new"
  BY <1>1, Places DEF StageMap
<1>3. CASE Refuse(r)
  BY <1>1, <1>2, <1>3, RefuseSettles DEF Contract!Ask, StageMap
<1>4. CASE FallBack(r) /\ asked[r].mode # "inline"
  BY <1>1, <1>2, <1>4, FallBackGivesUp DEF Contract!Ask, StageMap
<1>5. CASE Inline(r) /\ UNCHANGED reason /\ asked[r].mode # "distributed"
  BY <1>1, <1>2, <1>5, InlineGoesAlone DEF Contract!Ask, StageMap
<1>6. CASE /\ GoTo(r, "probe") /\ UNCHANGED <<reply, reason, runs>>
           /\ asked[r].mode # "inline"
  <2>1. StageMap' = [StageMap EXCEPT ![r] = "open"]
    BY <1>6, StageMoves, Places DEF Handling
  <2>2. WorkMap' = WorkMap /\ ModeMap[r] = asked[r].mode
    BY <1>1 DEF WorkMap, ModeMap
  <2> QED
    BY <1>2, <1>6, <2>1, <2>2
       DEF Contract!Ask, Contract!Enter, StageMap, WorkMap, ModeMap, reply
<1> QED
  BY <1>1, <1>3, <1>4, <1>5, <1>6

\* A handler that stays open stutters, unless it sends the task.
LEMMA StaysOpen ==
  ASSUME KindsOK, NEW r \in Requests, pc[r] \in Handling,
         NEW place \in Handling, GoTo(r, place)
  PROVE  StageMap' = StageMap
<1>1. StageMap' = [StageMap EXCEPT ![r] = "open"] /\ StageMap[r] = "open"
  BY StageMoves, Places DEF StageMap
<1> QED
  BY <1>1 DEF StageMap

LEMMA HandlerKeeps ==
  ASSUME KindsOK, NEW r \in Requests, RequestInv(r), Handler(r)
  PROVE  Promise(r)
<1>1. asked[r].mode \in Modes
  BY AskedModes DEF KindsOK
<1>2. ASSUME pc[r] \in Handling, FallBack(r), UNCHANGED task
      PROVE  Promise(r)
  <2>1. asked[r].mode # "inline"
    BY <1>2 DEF RequestInv, FallBackKnown
  <2> QED
    BY <1>2, <2>1, FallBackGivesUp DEF Promise
<1>3. ASSUME pc[r] \in Handling, NEW place \in Handling, GoTo(r, place),
             UNCHANGED <<reply, reason, task>>
      PROVE  Promise(r)
  <2>1. StageMap' = StageMap
    BY <1>3, StaysOpen
  <2>2. WorkMap' = WorkMap /\ UNCHANGED <<reason, answer>>
    BY <1>3 DEF WorkMap, reply
  <2> QED
    BY <2>1, <2>2 DEF Promise
<1>4. CASE Probe(r)
  BY <1>2, <1>3, <1>4 DEF Probe, Handling
<1>5. CASE Dispatch(r)
  <2>1. CASE FallBack(r) /\ UNCHANGED task
    BY <1>2, <1>5, <2>1 DEF Dispatch, Handling
  <2>2. CASE GoTo(r, "wait") /\ task' = [task EXCEPT ![r] = "queued"]
               /\ UNCHANGED <<reply, reason, runs>>
    <3>1. pc[r] \in Handling /\ task[r] = "none"
      BY <1>5 DEF Dispatch, Handling, RequestInv, FallBackKnown
    <3>2. StageMap' = StageMap /\ StageMap[r] = "open"
      BY <2>2, <3>1, StaysOpen, Places DEF Handling, StageMap
    <3>3. WorkMap' = [WorkMap EXCEPT ![r] = "sent"] /\ WorkMap[r] = "none"
      BY <2>2, <3>1, SendingSends, States DEF WorkMap
    <3>4. Contract!Send(r)
      BY <2>2, <3>2, <3>3 DEF Contract!Send, StageMap, WorkMap, reply
    <3> QED
      BY <3>4 DEF Promise
  <2> QED
    BY <1>5, <2>1, <2>2 DEF Dispatch
<1>6. CASE Poll(r)
  BY <1>2, <1>3, <1>6 DEF Poll, Handling
<1>7. CASE TimesOut(r)
  BY <1>2, <1>7 DEF TimesOut, Handling
<1>8. CASE Fetch(r)
  <2>1. CASE FallBack(r)
    BY <1>2, <1>8, <2>1 DEF Fetch, Handling
  <2>2. CASE HasResult(r) /\ Answer(r, "distributed", DefaultTier)
               /\ UNCHANGED <<reason, runs>>
    <3>1. pc[r] \in Handling /\ task[r] = "succeeded" /\ task' = task
      BY <1>8, <2>2 DEF Fetch, Handling, HasResult
    <3>2. StageMap[r] = "open" /\ WorkMap[r] = "done" /\ WorkMap' = WorkMap
      BY <3>1, Places, States DEF StageMap, WorkMap
    <3>3. StageMap' = [StageMap EXCEPT ![r] = "settled"]
      BY <2>2, StageMoves, Places DEF Answer
    <3>4. Contract!Serve(r)
      BY <2>2, <3>2, <3>3 DEF Contract!Serve, Contract!Settle,
         Contract!Enter, StageMap, WorkMap, Answer
    <3> QED
      BY <3>4 DEF Promise
  <2> QED
    BY <1>8, <2>1, <2>2 DEF Fetch
<1>9. CASE InlineEnds(r)
  <2>1. PICK how \in {"inline", "error"}, tier \in {"nobody", asked[r].tier} :
          Answer(r, how, tier)
    BY <1>9 DEF InlineEnds
  <2>2. StageMap[r] = "alone" /\ WorkMap' = WorkMap /\ UNCHANGED reason
    BY <1>9, Places DEF InlineEnds, StageMap, WorkMap
  <2>3. StageMap' = [StageMap EXCEPT ![r] = "settled"]
    BY <2>1, StageMoves, Places DEF Answer
  <2>4. Contract!Finish(r)
    BY <2>1, <2>2, <2>3 DEF Contract!Finish, Contract!Settle,
       Contract!Enter, StageMap, WorkMap, Answer
  <2> QED
    BY <2>4 DEF Promise
<1> QED
  BY <1>4, <1>5, <1>6, <1>7, <1>8, <1>9 DEF Handler

LEMMA LeaveLeaves ==
  ASSUME KindsOK, NEW r \in Requests, RequestInv(r), Leave(r)
  PROVE  Contract!Leave(r)
<1>1. StageMap' = [StageMap EXCEPT ![r] = "settled"]
  BY StageMoves, Places DEF Leave
<1>2. pc[r] \in Handling \cup {"inline"} /\ UNCHANGED <<reason, answer>>
  BY DEF Leave, KindsOK, Over, reply
<1>3. StageMap[r] \in {"open", "alone"}
  BY <1>2, Places DEF StageMap
<1>4. CASE UNCHANGED task
  <2>1. WorkMap' = WorkMap
    BY <1>4 DEF WorkMap
  <2> QED
    BY <1>1, <1>2, <1>3, <2>1
       DEF Contract!Leave, Contract!Enter, StageMap, WorkMap
<1>5. CASE pc[r] = "dispatch" /\ task' = [task EXCEPT ![r] = "queued"]
  <2>1. task[r] = "none"
    BY <1>5 DEF RequestInv, FallBackKnown
  <2>2. StageMap[r] = "open" /\ WorkMap[r] = "none"
    BY <1>5, <2>1, Places, States DEF StageMap, WorkMap, Handling
  <2>3. WorkMap' = [WorkMap EXCEPT ![r] = "sent"]
    BY <1>5, SendingSends
  <2> QED
    BY <1>1, <1>2, <2>2, <2>3
       DEF Contract!Leave, Contract!Enter, StageMap, WorkMap
<1> QED
  BY <1>4, <1>5 DEF Leave

\* A task that is taken, fails or is lost is still sent; one that succeeds
\* is done.
LEMMA TaskWorks ==
  ASSUME KindsOK, NEW r \in Requests, TakeTask(r) \/ TaskEnds(r)
  PROVE  Promise(r)
<1>1. StageMap' = StageMap /\ UNCHANGED <<reason, answer>>
  BY DEF TakeTask, TaskEnds, StageMap, reply
<1>2. PICK state \in {"running", "succeeded", "failed"} :
        /\ task' = [task EXCEPT ![r] = state]
        /\ task[r] \in {"queued", "running"}
  BY DEF TakeTask, TaskEnds, Ready
<1>3. WorkMap' = [WorkMap EXCEPT ![r] = WorkOf(state)] /\ WorkMap[r] = "sent"
  BY <1>2, WorkMoves, States DEF WorkMap
<1>4. CASE state = "succeeded"
  <2>1. Contract!Work(r)
    BY <1>1, <1>3, <1>4, States DEF Contract!Work, StageMap, WorkMap
  <2> QED
    BY <2>1 DEF Promise
<1>5. CASE state # "succeeded"
  <2>1. WorkMap' = WorkMap
    BY <1>3, <1>5, States DEF WorkMap
  <2> QED
    BY <1>1, <2>1 DEF Promise
<1> QED
  BY <1>4, <1>5

\* The service implements the contract: whatever the worker, the broker and
\* the clock do, each request is settled once and as its mode allows.
THEOREM ContractKept == Spec => ImplementsContract
<1>1. Init => Contract!Init
  <2> SUFFICES ASSUME Init PROVE Contract!Init
    OBVIOUS
  <2>1. ModeMap \in [Requests -> {"auto", "inline", "distributed"}]
    BY AskedModes DEF Init, ModeMap, Modes
  <2>2. StageMap = [r \in Requests |-> "new"]
    BY Places DEF Init, StageMap
  <2>3. WorkMap = [r \in Requests |-> "none"]
    BY States DEF Init, WorkMap
  <2> QED
    BY <2>1, <2>2, <2>3 DEF Init, Contract!Init, ModeMap, StageMap, WorkMap
<1>2. KindsOK /\ DispatchInv /\ [Next]_vars => [Contract!Next]_Contract!vars
  <2> SUFFICES ASSUME KindsOK, DispatchInv, [Next]_vars
               PROVE  [Contract!Next]_Contract!vars
    OBVIOUS
  <2>1. ModeMap' = ModeMap
    BY DEF Next, Accept, Handler, Probe, Dispatch, Poll, TimesOut, Fetch,
       InlineEnds, Leave, TakeTask, TaskEnds, WorkerDies, WorkerStarts,
       BrokerFlips, vars, ModeMap
  <2>2. ASSUME NEW r \in Requests, Promise(r)
        PROVE  [Contract!Next]_Contract!vars
    BY <2>1, <2>2 DEF Promise, Contract!Next, Contract!vars, ModeMap,
       StageMap, WorkMap
  <2>3. ASSUME NEW r \in Requests,
               Accept(r) \/ Handler(r) \/ Leave(r) \/ TakeTask(r) \/ TaskEnds(r)
        PROVE  [Contract!Next]_Contract!vars
    <3>1. RequestInv(r)
      BY DEF DispatchInv
    <3>2. Promise(r)
      BY <2>3, <3>1, AcceptAsks, HandlerKeeps, LeaveLeaves, TaskWorks
         DEF Promise
    <3> QED
      BY <2>2, <3>2
  <2>4. CASE WorkerDies
    <3>1. StageMap' = StageMap /\ UNCHANGED <<reason, answer>>
      BY <2>4 DEF WorkerDies, StageMap, reply
    <3>2. WorkMap' = WorkMap
      BY <2>4, States DEF WorkerDies, Orphaned, WorkMap
    <3> QED
      BY <2>1, <3>1, <3>2 DEF Contract!vars, ModeMap, StageMap, WorkMap
  <2>5. CASE WorkerStarts \/ BrokerFlips \/ UNCHANGED vars
    <3>1. UNCHANGED <<asked, pc, task, reason, answer>>
      BY <2>5 DEF WorkerStarts, BrokerFlips, vars, reply
    <3>2. StageMap' = StageMap /\ WorkMap' = WorkMap
      BY <3>1 DEF StageMap, WorkMap
    <3> QED
      BY <2>1, <3>1, <3>2 DEF Contract!vars, ModeMap, StageMap, WorkMap
  <2> QED
    BY <2>3, <2>4, <2>5 DEF Next
<1> QED
  BY <1>1, <1>2, DispatchInvariant, PTL
     DEF Spec, ImplementsContract, Contract!Spec

-----------------------------------------------------------------------------
(* Progress.                                                               *)

\* How far a handler has come.
Rank(place) ==
  CASE place = "new"      -> 0
    [] place = "probe"    -> 1
    [] place = "dispatch" -> 2
    [] place = "wait"     -> 3
    [] place = "fetch"    -> 4
    [] place = "inline"   -> 5
    [] OTHER              -> 6

\* No step takes a handler back, and each of its own takes it forward.
OnlyForward ==
  \A r \in Requests :
    /\ Rank(pc[r]) <= Rank(pc'[r])
    /\ Handler(r) => Rank(pc[r]) < Rank(pc'[r])

\* The ways a handler leaves an action lead forward.
LEMMA OutcomeForward ==
  ASSUME KindsOK, NEW r \in Requests, pc[r] \in Handling,
         FallBack(r) \/ \E how, tier : Answer(r, how, tier)
  PROVE  Rank(pc[r]) < Rank(pc'[r])
<1> USE DEF KindsOK, Rank, Handling
<1>1. pc'[r] \in {"answered", "inline"}
  BY DEF FallBack, Refuse, Answer, Inline, GoTo
<1> QED
  BY <1>1

LEMMA HandlerForward ==
  ASSUME KindsOK, NEW r \in Requests, Handler(r)
  PROVE  Rank(pc[r]) < Rank(pc'[r])
<1>1. CASE Probe(r) \/ Dispatch(r) \/ Poll(r)
  <2>1. pc[r] \in Handling
    BY <1>1 DEF Probe, Dispatch, Poll, Handling
  <2>2. CASE FallBack(r)
    BY <2>1, <2>2, OutcomeForward
  <2>3. CASE ~ FallBack(r)
    <3>1. \/ pc[r] = "probe" /\ GoTo(r, "dispatch")
          \/ pc[r] = "dispatch" /\ GoTo(r, "wait")
          \/ pc[r] = "wait" /\ GoTo(r, "fetch")
      BY <1>1, <2>3 DEF Probe, Dispatch, Poll
    <3> QED
      BY <3>1 DEF KindsOK, GoTo, Rank
  <2> QED
    BY <2>2, <2>3
<1>2. CASE TimesOut(r) \/ Fetch(r)
  BY <1>2, OutcomeForward DEF TimesOut, Fetch, Handling
<1>3. CASE InlineEnds(r)
  <2>1. pc[r] = "inline" /\ pc'[r] = "answered"
    BY <1>3 DEF InlineEnds, Answer, GoTo, KindsOK
  <2> QED
    BY <2>1 DEF Rank
<1> QED
  BY <1>1, <1>2, <1>3 DEF Handler

\* Handlers never go back, so each takes at most six steps: it tries a worker
\* once, goes inline once, and an answer is final.
THEOREM HandlersAdvance == Spec => [][OnlyForward]_vars
<1>1. KindsOK /\ [Next]_vars => [OnlyForward]_vars
  <2> SUFFICES ASSUME KindsOK, Next, NEW q \in Requests
               PROVE  /\ Rank(pc[q]) <= Rank(pc'[q])
                      /\ Handler(q) => Rank(pc[q]) < Rank(pc'[q])
    BY DEF OnlyForward
  <2>1. Rank(pc[q]) \in Nat /\ Rank(pc'[q]) \in Nat
    BY DEF Rank
  <2>2. Handler(q) => Rank(pc[q]) < Rank(pc'[q])
    BY HandlerForward
  <2>3. pc'[q] = pc[q] => Rank(pc[q]) <= Rank(pc'[q])
    BY <2>1
  <2>4. ASSUME NEW r \in Requests,
               \/ Accept(r) \/ Handler(r) \/ Leave(r)
               \/ TakeTask(r) \/ TaskEnds(r)
        PROVE  Rank(pc[q]) <= Rank(pc'[q])
    <3>1. CASE q # r
      BY <2>3, <2>4, <3>1, OneAtATime
    <3>2. CASE Handler(q)
      BY <2>1, <2>2, <3>2
    <3>3. CASE q = r /\ Accept(r)
      <4>1. pc[q] = "new"
        BY <3>3 DEF Accept
      <4> QED
        BY <2>1, <4>1 DEF Rank
    <3>4. CASE q = r /\ Leave(r)
      <4>1. pc'[q] = "gone"
        BY <3>4 DEF Leave, GoTo, KindsOK
      <4> QED
        BY <2>1, <4>1 DEF Rank
    <3>5. CASE q = r /\ (TakeTask(r) \/ TaskEnds(r))
      BY <2>3, <3>5 DEF TakeTask, TaskEnds
    <3> QED
      BY <2>4, <3>1, <3>2, <3>3, <3>4, <3>5
  <2>5. CASE WorkerDies \/ WorkerStarts \/ BrokerFlips
    BY <2>2, <2>3, <2>5 DEF WorkerDies, WorkerStarts, BrokerFlips
  <2> QED
    BY <2>2, <2>4, <2>5 DEF Next
<1> QED
  BY <1>1, DispatchInvariant, PTL DEF Spec

=============================================================================
