-------------------------- MODULE McpTransportProofs --------------------------
(***************************************************************************)
(* Proofs about the transport sessions, for any set of calls, any timeouts *)
(* and any number of mishaps.                                              *)
(*                                                                         *)
(* The properties speak of sessions no thread of which outlived a wait.    *)
(* For these the inductive invariant says what the program relies on       *)
(* without a lock: an earlier thread has at most its end before it         *)
(* (Calm), the fields are those of the last start, and no start comes      *)
(* after the first call.                                                   *)
(***************************************************************************)
EXTENDS McpTransport, TLAPS

\* A thread that touches its session no more, and one that has connected.
Gone == {"exiting", "dead"}
Been == {"serving", "exiting", "dead"}

Closing == owner \in {"check", "signal", "join"}

\* The close that is under way has dealt with session s.
Past(s) ==
  \/ owner = "closed"
  \/ /\ Closing \/ owner = "broken"
     /\ at = "local" /\ s = "web"

\* A probe starts a session once at most, and there are two probes.
StartsInv(s) ==
  /\ started[s] <= probes
  /\ owner = "start" /\ at \in {"web", s} => started[s] < probes
  /\ owner = "wait" /\ at = "web" /\ s = "local" => started[s] < probes
  /\ owner \in {"wait", "signal", "broken"} /\ at = s => started[s] # 0

\* No field is of a start yet to come; a session that was closed has no
\* thread.
FieldsInv(s) ==
  /\ field[s].thread <= started[s] /\ field[s].loop <= started[s]
  /\ field[s].session <= started[s] /\ field[s].lock <= started[s]
  /\ field[s].shutdown <= started[s]
  /\ Past(s) => field[s].thread = 0

\* Threads exist from their start on, and no loop is closed that runs.
ThreadsInv(s) ==
  \A g \in Starts :
    /\ g > started[s] => life[s][g] = "none" /\ ~told[s][g]
    /\ g <= started[s] => life[s][g] # "none"
    /\ closed[s][g] => ~RunningLoop(s, g)

\* Only a close that goes on to the end is final.
FinalInv ==
  /\ final => Closing \/ owner \in {"closed", "broken"}
  /\ owner = "closed" => final /\ procs = {}

PlaceInv ==
  /\ FinalInv
  /\ \A s \in Servers : StartsInv(s) /\ FieldsInv(s) /\ ThreadsInv(s)

\* What start g of a session no thread of which outlived a wait has left:
\* nothing of an earlier start writes to the fields, and those of the last one
\* follow its life.
Calm(s, g) ==
  /\ g < started[s] => life[s][g] \in Gone
  /\ g = started[s] =>
       /\ field[s].thread \in {0, g} /\ field[s].loop = field[s].thread
       /\ field[s].session \in {0, g} /\ field[s].lock = field[s].session
       /\ field[s].shutdown = field[s].session
       /\ field[s].session # 0 => life[s][g] = "serving"
       /\ life[s][g] = "serving" /\ field[s].thread # 0 => field[s].session = g
       /\ field[s].ready => life[s][g] \in Been
       /\ field[s].thread = 0 /\ ~(final /\ Past(s)) => life[s][g] = "dead"
       /\ field[s].thread # 0 /\ ~field[s].ready =>
            \/ owner = "wait" /\ at = s
            \/ ~final /\ (Closing \/ owner = "broken")
       /\ told[s][g] => \/ life[s][g] \in Gone
                        \/ owner = "join" /\ at = s
                        \/ Past(s)
       /\ owner = "signal" /\ at = s =>
            field[s].thread = g /\ (field[s].session = g \/ s \in broke)
       /\ owner = "broken" /\ at = s => s \in broke
       /\ final /\ (Past(s) \/ (owner = "join" /\ at = s))
            => life[s][g] \in Gone \/ told[s][g]

CalmInv == \A s \in Servers \ late, g \in Starts : Calm(s, g)

\* A caller may give up, now and from now on.
Reason(k) ==
  \/ call[k].queued \/ call[k].server \in late
  \/ call[k].loop # 0 /\ life[call[k].server][call[k].loop] \in Gone

\* What is known of a call: it was made after the last start, its lock is the
\* session's, and while there is no reason to give it up its age is the time it
\* holds the lock.
CallInv(k) ==
  /\ call[k].where # "new" => owner = "open" \/ final
  /\ call[k].where \in {"queued", "holding"} =>
       /\ call[k].lock # 0
       /\ call[k].server \in late \/ call[k].lock = started[call[k].server]
  /\ call[k].where \in {"new", "posting"} => out[k] = "none" /\ call[k].age = 0
  /\ call[k].where \in {"new", "posting", "posted", "queued"} =>
       call[k].held = 0
  /\ out[k] = "timeout" => Reason(k)
  /\ Under(k) /\ ~Reason(k) =>
       /\ call[k].loop # 0 /\ life[call[k].server][call[k].loop] = "serving"
       /\ call[k].age = IF call[k].where = "holding" THEN call[k].held ELSE 0

\* A lock has one holder, running or not.
OneHolder ==
  \A j, k \in Calls :
    call[j].where = "holding" /\ call[k].where = "holding"
      /\ call[j].server = call[k].server /\ call[j].lock = call[k].lock => j = k

CallsInv == OneHolder /\ \A k \in Calls : CallInv(k)

IInv == PlaceInv /\ CalmInv /\ CallsInv

-----------------------------------------------------------------------------
\* The caller waits longer than the session.
LEMMA WaitsType == Waits \in Nat /\ CallTimeout < Waits
BY Assumption DEF Waits

\* The types of the fields of one session.
LEMMA FieldTypes ==
  ASSUME TypeOK, NEW s \in Servers
  PROVE  /\ field[s].thread \in Ref /\ field[s].loop \in Ref
         /\ field[s].session \in Ref /\ field[s].lock \in Ref
         /\ field[s].shutdown \in Ref /\ field[s].ready \in BOOLEAN
         /\ field[s].error \in BOOLEAN
BY DEF TypeOK, FieldType

\* Steps of the owner, of a thread, of a call and of the clock keep the types.
LEMMA OwnerTypes ==
  ASSUME TypeOK, PlaceInv, OwnerStep
  PROVE  TypeOK'
<1>0. /\ at \in Servers /\ probes \in 0 .. 2 /\ started \in [Servers -> Ref]
      /\ final \in BOOLEAN /\ owner \in Stages
      /\ \A s \in Servers : started[s] \in Ref
  BY DEF TypeOK
<1>a. /\ field \in [Servers -> FieldType]
      /\ \A s \in Servers : field[s] \in FieldType
  BY DEF TypeOK
<1>1. CASE Probe
  <2>1. procs' \subseteq Servers /\ probes' \in 0 .. 2
    BY <1>1, <1>0 DEF Probe
  <2>2. owner' \in Stages /\ at' \in Servers /\ final' \in BOOLEAN
    BY <1>1, <1>0 DEF Probe, GoTo, Fail, Stages, Servers
  <2>3. UNCHANGED <<sessions, call, out>>
    BY <1>1 DEF Probe
  <2> QED
    BY <2>1, <2>2, <2>3 DEF TypeOK, sessions
<1>2. CASE StartBegin
  <2>1. CASE IsRunning(at)
    BY <2>1, <1>2 DEF TypeOK, StartBegin, Opened, GoTo, sessions, Stages,
       Servers
  <2>2. CASE ~IsRunning(at)
    <3>1. started[at] < probes
      BY <1>2, <1>0 DEF PlaceInv, StartsInv, StartBegin, Servers
    <3>2. PICK n \in Starts : n = started[at] + 1
      BY <3>1, <1>0 DEF Starts, Ref
    <3>3. started' = [started EXCEPT ![at] = n] /\ started'[at] = n
      BY <3>2, <2>2, <1>2, <1>0 DEF StartBegin
    <3>4. started' \in [Servers -> Ref]
      BY <3>3, <1>0 DEF Ref
    <3>5. Fresh(at) \in FieldType
      <4>1. n \in Ref /\ field[at] \in FieldType
        BY <1>0, <1>a DEF Ref
      <4>2. Fresh(at) = [field[at] EXCEPT !.loop = n, !.thread = n,
                                          !.ready = FALSE, !.error = FALSE]
        BY <3>3 DEF Fresh
      <4> QED
        BY <4>1, <4>2 DEF FieldType
    <3>6. field' \in [Servers -> FieldType]
      BY <3>5, <2>2, <1>2, <1>a DEF StartBegin
    <3>7. life' \in [Servers -> [Starts -> Lives0]]
      <4>1. life' = [life EXCEPT ![at][n] = "spawned"]
        BY <3>3, <2>2, <1>2 DEF StartBegin
      <4>2. life \in [Servers -> [Starts -> Lives0]] /\ "spawned" \in Lives0
        BY DEF TypeOK, Lives0
      <4>3. QED
        BY <4>1, <4>2, <1>0
    <3>8. UNCHANGED <<told, closed, late, broke, mishaps, final, probes,
                      procs, call, out>>
      BY <2>2, <1>2 DEF StartBegin
    <3>9. owner' = "wait" /\ at' = at
      BY <2>2, <1>2 DEF StartBegin, GoTo
    <3>10. QED
      BY <3>4, <3>6, <3>7, <3>8, <3>9, <1>0 DEF TypeOK, Stages
  <2>3. QED
    BY <2>1, <2>2
<1>3. CASE StartReturns
  BY <1>3 DEF TypeOK, StartReturns, Opened, GoTo, Fail, sessions, Stages,
     Servers
<1>4. CASE StartTimesOut
  <2>1. /\ owner' \in Stages /\ at' \in Servers /\ final' = FALSE
        /\ UNCHANGED <<probes, procs, call, out,
                       started, field, life, told, closed, broke>>
    BY <1>4 DEF StartTimesOut, GoTo, Fail, Stages, Servers
  <2>2. late' \subseteq Servers
    BY <1>4, <1>0 DEF StartTimesOut, TypeOK
  <2>3. mishaps' \in 0 .. MaxMishaps
    BY <1>4, Assumption DEF StartTimesOut, TypeOK
  <2> QED
    BY <2>1, <2>2, <2>3 DEF TypeOK
<1>5. CASE Probed
  BY <1>5 DEF TypeOK, Probed, GoTo, Fail, sessions, Stages, Servers
<1>6. CASE CloseBegin
  BY <1>6 DEF TypeOK, CloseBegin, GoTo, sessions, Stages, Servers
<1>7. CASE CloseCheck
  BY <1>7 DEF TypeOK, CloseCheck, GoTo, sessions, Stages, Servers
<1>8. CASE CloseSignal
  <2>1. told' \in [Servers -> [Starts -> BOOLEAN]]
    <3>1. CASE UNCHANGED told
      BY <3>1 DEF TypeOK
    <3>2. CASE ~UNCHANGED told
      <4>1. PICK g \in Ref : g = field[at].shutdown
        BY FieldTypes, <1>0
      <4>2. /\ g # 0
            /\ told' = [told EXCEPT ![at][g] =
                                       @ \/ RunningLoop(at, field[at].loop)]
        BY <4>1, <3>2, <1>8 DEF CloseSignal
      <4>3. g \in Starts /\ told \in [Servers -> [Starts -> BOOLEAN]]
        BY <4>1, <4>2 DEF Ref, TypeOK
      <4>4. PICK r \in BOOLEAN :
              r = (told[at][g] \/ RunningLoop(at, field[at].loop))
        OBVIOUS
      <4>5. told' = [told EXCEPT ![at][g] = r]
        BY <4>2, <4>4, Zenon
      <4>6. QED
        BY <4>5, <4>3, <1>0
    <3>3. QED
      BY <3>1, <3>2
  <2>2. QED
    BY <2>1, <1>8 DEF TypeOK, CloseSignal, GoTo, Stages, Servers
<1>9. CASE CloseJoined
  <2>1. Cleared(at) \in FieldType
    BY <1>a, <1>0 DEF Cleared, NoFields, FieldType, Ref
  <2>2. field' \in [Servers -> FieldType]
    BY <2>1, <1>a, <1>9 DEF CloseJoined
  <2>3. QED
    BY <2>2, <1>9 DEF TypeOK, CloseJoined, GoTo, Stages, Servers
<1>10. QED
  BY <1>1, <1>2, <1>3, <1>4, <1>5, <1>6, <1>7, <1>8, <1>9 DEF OwnerStep

LEMMA ThreadTypes ==
  ASSUME TypeOK, NEW s \in Servers, NEW g \in Starts, ThreadStep(s, g)
  PROVE  TypeOK'
<1>0. /\ field \in [Servers -> FieldType] /\ field[s] \in FieldType
      /\ g \in Ref /\ 0 \in Ref /\ mishaps \in 0 .. MaxMishaps
  BY DEF TypeOK, Ref
<1>1. CASE Run(s, g)
  BY <1>1 DEF TypeOK, Run, Lives, runtime, Lives0
<1>2. CASE Publish(s, g)
  <2>1. [field[s] EXCEPT !.session = g, !.lock = g, !.shutdown = g,
                         !.ready = TRUE] \in FieldType
    BY <1>0 DEF FieldType
  <2>2. field' \in [Servers -> FieldType]
    BY <2>1, <1>0, <1>2 DEF Publish
  <2>3. QED
    BY <2>2, <1>2 DEF TypeOK, Publish, Lives, runtime, Lives0
<1>a. ASSUME NEW e \in BOOLEAN, field' = [field EXCEPT ![s] = Withdrawn(s, e)]
      PROVE  field' \in [Servers -> FieldType]
  <2>1. PICK x \in BOOLEAN : x = (field[s].error \/ e)
    OBVIOUS
  <2>2. Withdrawn(s, e) = [field[s] EXCEPT !.session = 0, !.lock = 0,
                             !.shutdown = 0, !.ready = TRUE, !.error = x]
    BY <2>1, <1>0 DEF Withdrawn, FieldType
  <2>3. Withdrawn(s, e) \in FieldType
    BY <2>2, <1>0 DEF FieldType
  <2>4. QED
    BY <2>3, <1>0, <1>a
<1>3. CASE Break(s, g)
  <2>1. field' \in [Servers -> FieldType]
    BY <1>3, <1>a DEF Break
  <2>2. mishaps' \in 0 .. MaxMishaps
    BY <1>3, <1>0, Assumption DEF Break
  <2>3. QED
    BY <2>1, <2>2, <1>3 DEF TypeOK, Break, Lives, runtime, Lives0
<1>4. CASE Stop(s, g)
  <2>1. field' \in [Servers -> FieldType]
    BY <1>4, <1>a DEF Stop
  <2>2. QED
    BY <2>1, <1>4 DEF TypeOK, Stop, Lives, runtime, Lives0
<1>5. CASE Exit(s, g)
  <2>1. field[s].loop \in Ref
    BY <1>0 DEF FieldType
  <2>2. closed' \in [Servers -> [Starts -> BOOLEAN]]
    BY <2>1, <1>5 DEF TypeOK, Exit, Ref
  <2>3. QED
    BY <2>2, <1>5 DEF TypeOK, Exit, Lives, runtime, Lives0
<1>6. QED
  BY <1>1, <1>2, <1>3, <1>4, <1>5 DEF ThreadStep

LEMMA CallTypes ==
  ASSUME TypeOK, NEW k \in Calls, CallStep(k)
  PROVE  TypeOK'
<1>0. /\ call \in [Calls -> CallType] /\ call[k] \in CallType
      /\ out \in [Calls -> Outcomes] /\ out[k] \in Outcomes
      /\ Called \subseteq Servers
  BY Assumption DEF TypeOK, Servers
<1>a. ASSUME NEW w \in Wheres
      PROVE  [call[k] EXCEPT !.where = w] \in CallType
  BY <1>0 DEF CallType
<1>b. ASSUME NEW o \in Outcomes
      PROVE  [out EXCEPT ![k] = IF @ = "none" THEN o ELSE @]
               \in [Calls -> Outcomes]
  BY <1>0
<1>c. ASSUME NEW o \in Outcomes, Done(k, o)
      PROVE  call' \in [Calls -> CallType] /\ out' \in [Calls -> Outcomes]
  BY <1>c, <1>a, <1>b, <1>0 DEF Done, Wheres
<1>d. ASSUME call' \in [Calls -> CallType], out' \in [Calls -> Outcomes],
             UNCHANGED <<runtime, sessions>>
      PROVE  TypeOK'
  BY <1>d DEF TypeOK, runtime, sessions
<1>e. {"answer", "error", "timeout"} \subseteq Outcomes
  BY DEF Outcomes
<1>1. ASSUME NEW s \in Called, Begin(k, s) PROVE TypeOK'
  <2>1. s \in Servers
    BY <1>0
  <2>2. [call[k] EXCEPT !.where = "posting", !.server = s] \in CallType
    BY <2>1, <1>0 DEF CallType, Wheres
  <2>3. QED
    BY <2>2, <1>1, <1>c, <1>d, <1>e, <1>0 DEF Begin
<1>2. CASE Post(k)
  <2>1. field[call[k].server].loop \in Ref
    BY <1>0, FieldTypes DEF CallType
  <2>2. [call[k] EXCEPT !.where = "posted", !.loop = field[call[k].server].loop]
          \in CallType
    BY <2>1, <1>0 DEF CallType, Wheres
  <2>3. QED
    BY <2>2, <1>2, <1>c, <1>d, <1>e, <1>0 DEF Post
<1>3. CASE Arrive(k)
  <2>1. field[call[k].server].lock \in Ref
    BY <1>0, FieldTypes DEF CallType
  <2>2. [call[k] EXCEPT !.where = "queued", !.lock = field[call[k].server].lock]
          \in CallType
    BY <2>1, <1>0 DEF CallType, Wheres
  <2>3. QED
    BY <2>2, <1>3, <1>c, <1>d, <1>e, <1>0 DEF Arrive
<1>4. CASE Acquire(k)
  <2>1. field[call[k].server].session \in Ref
    BY <1>0, FieldTypes DEF CallType
  <2>2. [call[k] EXCEPT !.where = "holding",
                        !.session = field[call[k].server].session] \in CallType
    BY <2>1, <1>0 DEF CallType, Wheres
  <2>3. QED
    BY <2>2, <1>4, <1>c, <1>d, <1>e, <1>0 DEF Acquire
<1>5. CASE Answer(k)
  BY <1>5, <1>c, <1>d, <1>e DEF Answer
<1>6. CASE CallFails(k)
  BY <1>6, <1>c, <1>d, <1>e DEF CallFails
<1>7. CASE GiveUp(k)
  BY <1>7, <1>d, <1>e, <1>0 DEF GiveUp
<1>8. QED
  BY <1>1, <1>2, <1>3, <1>4, <1>5, <1>6, <1>7 DEF CallStep

LEMMA TickTypes ==
  ASSUME TypeOK, Tick
  PROVE  TypeOK'
<1>1. \A k \in Calls : call'[k] \in CallType
  <2>. SUFFICES ASSUME NEW k \in Calls
                PROVE  call'[k] \in CallType
    OBVIOUS
  <2>1. call[k] \in CallType
    BY DEF TypeOK
  <2>2. PICK q \in BOOLEAN : q = (call[k].queued \/ call[k].where = "queued")
    OBVIOUS
  <2>3. CASE Under(k)
    <3>1. call'[k] = [call[k] EXCEPT
                  !.age = IF @ < Waits THEN @ + 1 ELSE @,
                  !.held = IF call[k].where = "holding" /\ @ < CallTimeout
                           THEN @ + 1 ELSE @,
                  !.queued = q]
      BY <2>1, <2>2, <2>3 DEF Tick, CallType
    <3>2. PICK a \in 0 .. Waits :
            a = IF call[k].age < Waits THEN call[k].age + 1 ELSE call[k].age
      BY <2>1, WaitsType DEF CallType
    <3>3. PICK h \in 0 .. CallTimeout :
            h = IF call[k].where = "holding" /\ call[k].held < CallTimeout
                THEN call[k].held + 1 ELSE call[k].held
      BY <2>1, Assumption DEF CallType
    <3>4. call'[k] = [call[k] EXCEPT !.age = a, !.held = h, !.queued = q]
      BY <3>1, <3>2, <3>3, <2>1 DEF CallType
    <3>5. QED
      BY <3>4, <2>1 DEF CallType
  <2>4. CASE ~Under(k)
    BY <2>1, <2>4 DEF Tick
  <2>5. QED
    BY <2>3, <2>4
<1>2. call' \in [Calls -> CallType]
  BY <1>1 DEF Tick
<1>3. QED
  BY <1>2 DEF TypeOK, Tick, runtime, sessions

LEMMA InitTypes == Init => TypeOK
<1>1. 0 \in Ref /\ 0 \in 0 .. Waits /\ 0 \in 0 .. CallTimeout
  BY WaitsType, Assumption DEF Ref
<1>2. NoFields \in FieldType /\ NotMade \in CallType
  BY <1>1 DEF NoFields, NotMade, FieldType, CallType, Wheres, Servers
<1>3. "out" \in Stages /\ "none" \in Lives0 /\ "none" \in Outcomes
  BY DEF Stages, Lives0, Outcomes
<1>4. 0 \in 0 .. MaxMishaps /\ "web" \in Servers
  BY Assumption DEF Servers
<1> SUFFICES ASSUME Init PROVE TypeOK
  OBVIOUS
<1>5. /\ owner \in Stages /\ at \in Servers /\ final = FALSE
      /\ probes = 0 /\ procs = {} /\ late = {} /\ broke = {}
      /\ mishaps \in 0 .. MaxMishaps
  BY <1>3, <1>4 DEF Init
<1>6. /\ started \in [Servers -> Ref] /\ field \in [Servers -> FieldType]
      /\ call \in [Calls -> CallType] /\ out \in [Calls -> Outcomes]
  BY <1>1, <1>2, <1>3 DEF Init
<1>7. /\ life \in [Servers -> [Starts -> Lives0]]
      /\ told \in [Servers -> [Starts -> BOOLEAN]]
      /\ closed \in [Servers -> [Starts -> BOOLEAN]]
  BY <1>3 DEF Init
<1>8. /\ procs \subseteq Servers /\ late \subseteq Servers
      /\ broke \subseteq Servers
  BY <1>5
<1>9. final \in BOOLEAN
  BY <1>5
<1>10. probes \in 0 .. 2
  BY <1>5
<1> QED
  BY <1>5, <1>6, <1>7, <1>8, <1>9, <1>10 DEF TypeOK

LEMMA TypeStep ==
  ASSUME TypeOK, PlaceInv, [Next]_vars
  PROVE  TypeOK'
<1>1. CASE OwnerStep
  BY <1>1, OwnerTypes
<1>2. CASE Tick
  BY <1>2, TickTypes
<1>3. CASE UNCHANGED vars
  BY <1>3 DEF vars, runtime, sessions, TypeOK
<1>4. CASE \E s \in Servers, g \in Starts : ThreadStep(s, g)
  BY <1>4, ThreadTypes
<1>5. CASE \E k \in Calls : CallStep(k)
  BY <1>5, CallTypes
<1> QED
  BY <1>1, <1>2, <1>3, <1>4, <1>5 DEF Next, Over

-----------------------------------------------------------------------------
\* The place of the owner and what it has started, through every step.
LEMMA PlaceInit == Init => PlaceInv
BY DEF Init, PlaceInv, FinalInv, StartsInv, FieldsInv, ThreadsInv, NoFields,
       Closing, Past, Starts, RunningLoop

LEMMA PlaceFrame ==
  ASSUME PlaceInv, UNCHANGED <<runtime, sessions>>
  PROVE  PlaceInv'
BY DEF PlaceInv, FinalInv, StartsInv, FieldsInv, ThreadsInv, Closing, Past,
       RunningLoop, runtime, sessions

LEMMA PlaceOwner ==
  ASSUME TypeOK, TypeOK', PlaceInv, OwnerStep
  PROVE  PlaceInv'
<1>0. /\ at \in Servers /\ at' \in Servers /\ owner \in Stages
      /\ owner' \in Stages
      /\ probes \in 0 .. 2 /\ started \in [Servers -> Ref]
      /\ field \in [Servers -> FieldType] /\ final \in BOOLEAN
  BY DEF TypeOK
<1>1. FinalInv'
  BY <1>0 DEF PlaceInv, FinalInv, Closing, OwnerStep, Probe, StartBegin,
     StartReturns,
     StartTimesOut, Probed, CloseBegin, CloseCheck, CloseSignal, CloseJoined,
     GoTo, Fail, Opened
<1> SUFFICES ASSUME NEW s \in Servers
             PROVE  StartsInv(s)' /\ FieldsInv(s)' /\ ThreadsInv(s)'
  BY <1>1 DEF PlaceInv
<1>a. /\ started[s] \in Ref /\ started'[s] \in Ref
      /\ field[s] \in FieldType
  BY <1>0 DEF TypeOK
<1>b. StartsInv(s) /\ FieldsInv(s) /\ ThreadsInv(s)
  BY DEF PlaceInv
<1>c. /\ field[s].thread \in Ref /\ field[s].loop \in Ref
      /\ field[s].session \in Ref /\ field[s].lock \in Ref
      /\ field[s].shutdown \in Ref
  BY <1>a DEF FieldType
<1>2. StartsInv(s)'
  <2>1. CASE CloseCheck
    BY <2>1, <1>0, <1>a, <1>b, <1>c DEF StartsInv, FieldsInv, CloseCheck, GoTo,
       sessions, Ref, Starts
  <2>2. CASE ~CloseCheck
    BY <2>2, <1>0, <1>a, <1>b DEF StartsInv, OwnerStep, Probe, StartBegin,
       StartReturns, StartTimesOut, Probed, CloseBegin, CloseSignal,
       CloseJoined,
       GoTo, Fail, Opened, Servers, sessions, Ref, Starts, Stages
  <2> QED
    BY <2>1, <2>2
<1>3. FieldsInv(s)' /\ ThreadsInv(s)'
  <2>1. CASE StartBegin /\ ~IsRunning(at)
    <3>1. CASE at = s
      <4>1. PICK n \in Starts : n = started[s] + 1
        BY <3>1, <2>1, <1>0, <1>a, <1>b DEF StartsInv, StartBegin, Starts, Ref
      <4>2. /\ started'[s] = n /\ field'[s] = Fresh(s)
            /\ life' = [life EXCEPT ![s][n] = "spawned"]
            /\ UNCHANGED <<told, closed>> /\ owner' = "wait"
        BY <4>1, <3>1, <2>1, <1>0 DEF StartBegin, GoTo, TypeOK
      <4>3. /\ field'[s].thread = n /\ field'[s].loop = n
            /\ field'[s].session = field[s].session
            /\ field'[s].lock = field[s].lock
            /\ field'[s].shutdown = field[s].shutdown
        BY <4>2, <1>a DEF Fresh, FieldType
      <4>4. FieldsInv(s)'
        BY <4>1, <4>2, <4>3, <1>a, <1>b, <1>c
           DEF FieldsInv, Past, Closing, Starts, Ref
      <4>5. \A g \in Starts :
              life'[s][g] = IF g = n THEN "spawned" ELSE life[s][g]
        BY <4>2 DEF TypeOK
      <4>6. ThreadsInv(s)'
        BY <4>1, <4>2, <4>5, <1>a, <1>b DEF ThreadsInv, RunningLoop, Starts, Ref
      <4> QED
        BY <4>4, <4>6
    <3>2. CASE at # s
      BY <3>2, <2>1, <1>0, <1>b DEF StartBegin, GoTo, FieldsInv, ThreadsInv,
         Past, Closing, RunningLoop, TypeOK
    <3> QED
      BY <3>1, <3>2
  <2>2. CASE CloseSignal
    <3>1. UNCHANGED <<started, field, life, closed>>
      BY <2>2 DEF CloseSignal
    <3>2. FieldsInv(s)'
      BY <3>1, <2>2, <1>0, <1>b DEF CloseSignal, GoTo, FieldsInv, Past, Closing
    <3>3. \A g \in Starts : g > started[s] => ~told'[s][g]
      BY <2>2, <1>a, <1>b, <1>c DEF CloseSignal, GoTo, ThreadsInv, FieldsInv,
         TypeOK,
         Starts, Ref
    <3> QED
      BY <3>1, <3>2, <3>3, <1>b DEF ThreadsInv, RunningLoop
  <2>3. CASE CloseJoined
    <3>1. UNCHANGED <<started, life, told, closed>>
      BY <2>3 DEF CloseJoined
    <3>2. CASE at = s
      <4>1. field'[s] = Cleared(s)
        BY <3>2, <2>3, <1>0 DEF CloseJoined
      <4>2. /\ field'[s].thread = 0 /\ field'[s].loop = 0
            /\ field'[s].session = 0 /\ field'[s].lock = 0
            /\ field'[s].shutdown = 0
        BY <4>1 DEF Cleared, NoFields
      <4> QED
        BY <4>2, <3>1, <1>a, <1>b DEF FieldsInv, ThreadsInv, RunningLoop, Ref,
           Starts
    <3>3. CASE at # s
      BY <3>3, <3>1, <2>3, <1>0, <1>b DEF CloseJoined, GoTo, FieldsInv,
         ThreadsInv,
         Past, Closing, RunningLoop, Servers
    <3> QED
      BY <3>2, <3>3
  <2>4. CASE StartTimesOut
    BY <2>4, <1>b DEF StartTimesOut, GoTo, Fail, FieldsInv, ThreadsInv, Past,
       Closing, RunningLoop
  <2>5. CASE Probe \/ (StartBegin /\ IsRunning(at)) \/ StartReturns \/ Probed
             \/ CloseBegin \/ CloseCheck
    BY <2>5, <1>b, <1>0 DEF Probe, StartBegin, StartReturns, Probed, CloseBegin,
       CloseCheck, Opened, GoTo, Fail, sessions, FieldsInv, ThreadsInv, Past,
       Closing, RunningLoop
  <2> QED
    BY <2>1, <2>2, <2>3, <2>4, <2>5 DEF OwnerStep
<1> QED
  BY <1>2, <1>3

\* A step of a thread changes nothing of another thread or session, and its
\* own life to l.
LEMMA ThreadEffect ==
  ASSUME TypeOK, NEW t \in Servers, NEW h \in Starts, ThreadStep(t, h)
  PROVE  /\ UNCHANGED <<runtime, call, out, started, told, late>>
         /\ \E l \in Lives0 \ {"none"} : life' = [life EXCEPT ![t][h] = l]
         /\ \A s \in Servers \ {t} : /\ field'[s] = field[s]
                                     /\ life'[s] = life[s]
                                     /\ closed'[s] = closed[s]
         /\ \A g \in Starts \ {h} : life'[t][g] = life[t][g]
         /\ life'[t][h] # "none" /\ life[t][h] # "none"
<1>1. /\ UNCHANGED <<runtime, call, out, started, told, late>>
      /\ life[t][h] # "none"
  BY DEF ThreadStep, Run, Publish, Break, Stop, Exit
<1>2. PICK l \in Lives0 \ {"none"} : life' = [life EXCEPT ![t][h] = l]
  <2>1. {"connecting", "serving", "exiting", "dead"} \subseteq Lives0 \ {"none"}
    BY DEF Lives0
  <2>2. \E l \in {"connecting", "serving", "exiting", "dead"} : Lives(t, h, l)
    BY DEF ThreadStep, Run, Publish, Break, Stop, Exit
  <2> QED
    BY <2>1, <2>2 DEF Lives
<1>3. /\ \A s \in Servers \ {t} : life'[s] = life[s]
      /\ \A g \in Starts \ {h} : life'[t][g] = life[t][g]
      /\ life'[t][h] # "none"
  BY <1>2 DEF TypeOK
<1>4. \A s \in Servers \ {t} : field'[s] = field[s]
  <2>1. UNCHANGED field \/ \E f : field' = [field EXCEPT ![t] = f]
    <3>1. CASE Publish(t, h)
      BY <3>1 DEF Publish
    <3>2. CASE Break(t, h)
      BY <3>2 DEF Break
    <3>3. CASE Stop(t, h)
      BY <3>3 DEF Stop
    <3>4. CASE Run(t, h) \/ Exit(t, h)
      BY <3>4 DEF Run, Exit
    <3> QED
      BY <3>1, <3>2, <3>3, <3>4 DEF ThreadStep
  <2> QED
    BY <2>1 DEF TypeOK
<1>5. \A s \in Servers \ {t} : closed'[s] = closed[s]
  BY DEF ThreadStep, Run, Publish, Break, Stop, Exit, TypeOK
<1> QED
  BY <1>1, <1>2, <1>3, <1>4, <1>5

\* A session's own values come from the thread that steps, or are taken away.
LEMMA ThreadFields ==
  ASSUME TypeOK, NEW t \in Servers, NEW h \in Starts, ThreadStep(t, h)
  PROVE  LET f == field[t]
             u == field'[t]
         IN /\ u.thread = f.thread /\ u.loop = f.loop
            /\ u.session \in {f.session, 0, h} /\ u.lock \in {f.lock, 0, h}
            /\ u.shutdown \in {f.shutdown, 0, h}
<1>1. field[t] \in FieldType
  BY DEF TypeOK
<1>2. CASE Publish(t, h)
  <2>1. field'[t] = [field[t] EXCEPT !.session = h, !.lock = h,
                                     !.shutdown = h, !.ready = TRUE]
    BY <1>2 DEF Publish, TypeOK
  <2> QED
    BY <2>1, <1>1 DEF FieldType
<1>3. ASSUME NEW e, field'[t] = Withdrawn(t, e)
      PROVE  /\ field'[t].thread = field[t].thread
             /\ field'[t].loop = field[t].loop
             /\ field'[t].session = 0 /\ field'[t].lock = 0
             /\ field'[t].shutdown = 0
  BY <1>3, <1>1 DEF Withdrawn, FieldType
<1>4. CASE Break(t, h)
  BY <1>4, <1>3 DEF Break, TypeOK
<1>5. CASE Stop(t, h)
  BY <1>5, <1>3 DEF Stop, TypeOK
<1>6. CASE Run(t, h) \/ Exit(t, h)
  BY <1>6 DEF Run, Exit
<1> QED
  BY <1>2, <1>4, <1>5, <1>6 DEF ThreadStep

LEMMA PlaceThread ==
  ASSUME TypeOK, PlaceInv, NEW t \in Servers, NEW h \in Starts,
         ThreadStep(t, h)
  PROVE  PlaceInv'
<1>0. /\ UNCHANGED <<owner, at, probes, final, procs, started, told>>
      /\ \A s \in Servers \ {t} : /\ field'[s] = field[s]
                                  /\ life'[s] = life[s]
                                  /\ closed'[s] = closed[s]
      /\ \A g \in Starts \ {h} : life'[t][g] = life[t][g]
      /\ life'[t][h] # "none" /\ life[t][h] # "none"
  BY ThreadEffect DEF runtime
<1>1. FinalInv'
  BY <1>0 DEF PlaceInv, FinalInv, Closing
<1> SUFFICES ASSUME NEW s \in Servers
             PROVE  StartsInv(s)' /\ FieldsInv(s)' /\ ThreadsInv(s)'
  BY <1>1 DEF PlaceInv
<1>b. StartsInv(s) /\ FieldsInv(s) /\ ThreadsInv(s)
  BY DEF PlaceInv
<1>2. StartsInv(s)'
  BY <1>0, <1>b DEF StartsInv
<1>3. CASE s # t
  BY <1>3, <1>0, <1>2, <1>b DEF FieldsInv, ThreadsInv, Past, Closing,
     RunningLoop
<1>4. CASE s = t
  <2>1. started[s] \in Ref /\ h <= started[s] /\ field[s].loop \in Ref
    <3>1. started[s] \in Ref
      BY DEF TypeOK
    <3>2. field[s].loop \in Ref
      BY FieldTypes
    <3>3. started[s] \in Nat /\ h \in Nat
      BY <3>1 DEF Ref, Starts
    <3>4. h > started[s] => life[s][h] = "none"
      BY <1>b DEF ThreadsInv
    <3>5. h <= started[s]
      BY <1>0, <1>4, <3>3, <3>4
    <3> QED
      BY <3>1, <3>2, <3>5
  <2>2. FieldsInv(s)'
    <3>1. /\ field'[s].thread = field[s].thread
          /\ field'[s].loop = field[s].loop
          /\ field'[s].session \in {field[s].session, 0, h}
          /\ field'[s].lock \in {field[s].lock, 0, h}
          /\ field'[s].shutdown \in {field[s].shutdown, 0, h}
      BY <1>4, ThreadFields
    <3> QED
      BY <3>1, <1>0, <1>4, <1>b, <2>1 DEF FieldsInv, Past, Closing, Ref, Starts
  <2>3. ASSUME NEW g \in Starts
        PROVE  /\ g > started[s] => life'[s][g] = "none" /\ ~told'[s][g]
               /\ g <= started[s] => life'[s][g] # "none"
    BY <1>0, <1>4, <1>b, <2>1 DEF ThreadsInv, Starts, Ref
  <2>4. ASSUME NEW g \in Starts
        PROVE  closed'[s][g] => ~RunningLoop(s, g)'
    <3> SUFFICES ASSUME closed'[s][g]
                 PROVE  ~RunningLoop(s, g)'
      OBVIOUS
    <3>1. CASE Exit(t, h)
      <4>1. life'[s][h] = "dead"
        BY <3>1, <1>4 DEF Exit, Lives, TypeOK
      <4>2. closed[s][g] \/ (g = field[s].loop /\ (g = h \/ ~RunningLoop(s, g)))
        BY <3>1, <2>1, <1>4 DEF Exit, TypeOK
      <4> QED
        BY <4>1, <4>2, <1>0, <1>4, <1>b DEF ThreadsInv, RunningLoop
    <3>2. CASE Run(t, h)
      BY <3>2, <1>0, <1>4, <1>b DEF Run, Lives, ThreadsInv, RunningLoop, TypeOK
    <3>3. CASE Publish(t, h)
      BY <3>3, <1>0, <1>4, <1>b DEF Publish, ThreadsInv, RunningLoop
    <3>4. CASE Break(t, h)
      BY <3>4, <1>0, <1>4, <1>b DEF Break, ThreadsInv, RunningLoop
    <3>5. CASE Stop(t, h)
      BY <3>5, <1>0, <1>4, <1>b DEF Stop, ThreadsInv, RunningLoop
    <3> QED
      BY <3>1, <3>2, <3>3, <3>4, <3>5 DEF ThreadStep
  <2> QED
    BY <1>0, <1>2, <2>2, <2>3, <2>4 DEF ThreadsInv, RunningLoop
<1> QED
  BY <1>3, <1>4

LEMMA PlaceStep ==
  ASSUME TypeOK, TypeOK', PlaceInv, [Next]_vars
  PROVE  PlaceInv'
<1>1. CASE OwnerStep
  BY <1>1, PlaceOwner
<1>2. CASE \E s \in Servers, g \in Starts : ThreadStep(s, g)
  BY <1>2, PlaceThread
<1>3. CASE UNCHANGED <<runtime, sessions>>
  BY <1>3, PlaceFrame
<1>4. Tick \/ Over \/ UNCHANGED vars => UNCHANGED <<runtime, sessions>>
  BY DEF Tick, Over, vars
<1>5. (\E k \in Calls : CallStep(k)) => UNCHANGED <<runtime, sessions>>
  BY DEF CallStep, Begin, Post, Arrive, Acquire, Answer, CallFails, GiveUp
<1> QED
  BY <1>1, <1>2, <1>3, <1>4, <1>5 DEF Next

-----------------------------------------------------------------------------
\* What is left of each start, through every step.
LEMMA CalmInit == Init => CalmInv
BY DEF Init, CalmInv, Calm, Starts

LEMMA CalmFrame ==
  ASSUME CalmInv, UNCHANGED <<runtime, sessions>>
  PROVE  CalmInv'
BY DEF CalmInv, Calm, Closing, Past, runtime, sessions

LEMMA CalmOwner ==
  ASSUME TypeOK, TypeOK', PlaceInv, CalmInv, OwnerStep
  PROVE  CalmInv'
<1>0. /\ at \in Servers /\ owner \in Stages /\ final \in BOOLEAN
      /\ late \subseteq late' /\ UNCHANGED broke
  BY DEF TypeOK, OwnerStep, Probe, StartBegin, StartReturns, StartTimesOut,
     Probed, CloseBegin, CloseCheck, CloseSignal, CloseJoined, sessions
<1> SUFFICES ASSUME NEW s \in Servers, NEW g \in Starts, s \notin late'
             PROVE  Calm(s, g)'
  BY DEF CalmInv
<1>a. /\ Calm(s, g) /\ StartsInv(s) /\ FieldsInv(s) /\ ThreadsInv(s) /\ FinalInv
      /\ started[s] \in Ref /\ field[s] \in FieldType
      /\ s \notin late /\ g # 0 /\ g \in Int
  BY <1>0 DEF CalmInv, PlaceInv, TypeOK, Starts
<1>1. CASE Probe \/ StartReturns \/ Probed \/ CloseBegin
  <2>1. UNCHANGED sessions
    BY <1>1 DEF Probe, StartReturns, Probed, CloseBegin
  <2> QED
    BY <1>1, <2>1, <1>0, <1>a DEF Calm, Past, Closing, FinalInv, Probe,
       StartReturns,
       Probed, CloseBegin, sessions, GoTo, Opened, Fail
<1>2. CASE StartTimesOut
  BY <1>2, <1>0, <1>a DEF Calm, Past, Closing, StartTimesOut, GoTo, Fail
<1>3. CASE StartBegin /\ IsRunning(at)
  BY <1>3, <1>0, <1>a DEF Calm, Past, Closing, StartBegin, sessions, GoTo,
     Opened
<1>4. CASE StartBegin /\ ~IsRunning(at)
  <2>1. CASE at # s
    BY <2>1, <1>4, <1>0, <1>a DEF Calm, Past, Closing, StartBegin, GoTo, TypeOK
  <2>2. CASE at = s
    <3>1. PICK n \in Starts : n = started[s] + 1
      BY <2>2, <1>4, <1>a DEF StartsInv, StartBegin, Starts, Ref, TypeOK
    <3>2. /\ started'[s] = n /\ field'[s] = Fresh(s)
          /\ life' = [life EXCEPT ![s][n] = "spawned"]
          /\ UNCHANGED <<told, closed, final>> /\ owner' = "wait" /\ at' = s
      BY <3>1, <2>2, <1>4, <1>0 DEF StartBegin, GoTo, TypeOK
    <3>3. /\ field'[s].thread = n /\ field'[s].loop = n
          /\ field'[s].session = field[s].session
          /\ field'[s].lock = field[s].lock
          /\ field'[s].shutdown = field[s].shutdown
          /\ field'[s].ready = FALSE
      BY <3>2, <1>a DEF Fresh, FieldType
    <3>4. life'[s][g] = IF g = n THEN "spawned" ELSE life[s][g]
      BY <3>2 DEF TypeOK
    <3>a. ASSUME NEW e \in Starts, e < n
          PROVE  life[s][e] \in Gone
      <4>1. e = started[s]
        BY <3>1, <3>a, <1>a DEF Starts, Ref
      <4>2. ~final
        BY <1>4, <1>a DEF StartBegin, FinalInv, Closing
      <4>3. Calm(s, e)
        BY <1>a DEF CalmInv
      <4>4. CASE field[s].thread = 0
        BY <4>1, <4>2, <4>3, <4>4 DEF Calm, Gone
      <4>5. CASE field[s].thread # 0
        <5>1. life[s][e] \in Been
          BY <4>1, <4>3, <4>5, <1>4 DEF Calm, StartBegin, Closing
        <5>2. ASSUME life[s][e] = "serving" PROVE FALSE
          <6>1. field[s].thread = e /\ field[s].loop = e /\ field[s].session = e
            BY <4>1, <4>3, <4>5, <5>2 DEF Calm
          <6> QED
            BY <6>1, <5>2, <4>5, <2>2, <1>4 DEF IsRunning, Alive, RunningLoop
        <5> QED
          BY <5>1, <5>2 DEF Been, Gone
      <4> QED
        BY <4>4, <4>5
    <3>5. CASE g < n
      BY <3>a, <3>1, <3>2, <3>4, <3>5 DEF Calm, Starts
    <3>6. CASE g = n
      <4>1. field[s].session = 0 /\ field[s].lock = 0 /\ field[s].shutdown = 0
        <5>1. CASE started[s] = 0
          BY <5>1, <1>a DEF FieldsInv, FieldType, Ref, Starts
        <5>2. CASE started[s] # 0
          <6>1. PICK e \in Starts : e = started[s]
            BY <5>2, <1>a DEF Ref
          <6>2. e < n
            BY <6>1, <3>1 DEF Starts
          <6>3. life[s][e] \in Gone
            BY <6>1, <6>2, <3>a DEF Starts
          <6>4. Calm(s, e)
            BY <1>a DEF CalmInv
          <6> QED
            BY <6>1, <6>3, <6>4 DEF Calm, Gone
        <5> QED
          BY <5>1, <5>2
      <4>2. ~told[s][g]
        BY <3>1, <3>6, <1>a DEF ThreadsInv, Starts, Ref
      <4> QED
        BY <4>1, <4>2, <3>2, <3>3, <3>4, <3>6, <1>a DEF Calm, Past, Closing
    <3>7. CASE g > n
      BY <3>2, <3>7, <1>a, <3>1 DEF Calm, Starts
    <3> QED
      BY <3>5, <3>6, <3>7, <3>1 DEF Starts
  <2> QED
    BY <2>1, <2>2
<1>5. CASE CloseCheck
  BY <1>5, <1>0, <1>a DEF Calm, Past, Closing, CloseCheck, sessions, GoTo,
     Been, Gone
<1>6. CASE CloseSignal
  <2>1. UNCHANGED <<started, field, life, broke, final>> /\ owner = "signal"
    BY <1>6 DEF CloseSignal
  <2>2. CASE at # s
    <3>1. told'[s] = told[s]
      BY <2>2, <1>6 DEF CloseSignal, TypeOK
    <3>2. at' = at /\ owner' \in {"broken", "join"}
      BY <1>6 DEF CloseSignal, GoTo
    <3> QED
      BY <3>1, <3>2, <2>1, <2>2, <1>0, <1>a DEF Calm, Past, Closing
  <2>3. CASE at = s
    <3>1. CASE g # started[s]
      BY <3>1, <2>1, <1>a DEF Calm
    <3>2. CASE g = started[s]
      <4>0. /\ field[s].shutdown = field[s].session
            /\ field[s].session \in {0, g}
            /\ at' = at /\ owner' \in {"broken", "join"}
            /\ ~Past(s) /\ ~Past(s)'
        BY <2>1, <2>3, <3>2, <1>6, <1>a DEF Calm, CloseSignal, GoTo, Past,
           Closing
      <4>1. CASE field[s].session = g
        <5>1. life[s][g] = "serving" /\ ~closed[s][g]
          BY <4>1, <3>2, <1>a DEF Calm, ThreadsInv, RunningLoop
        <5>2. field[s].loop = g /\ field[s].thread = g
          BY <2>1, <2>3, <3>2, <1>a DEF Calm
        <5>3. owner' = "join" /\ told'[s][g]
          <6>1. RunningLoop(s, g)
            BY <5>1 DEF RunningLoop
          <6> QED
            BY <6>1, <5>1, <5>2, <4>0, <4>1, <2>3, <1>6, <1>a
               DEF CloseSignal, GoTo, TypeOK
        <5> QED
          BY <5>1, <5>2, <5>3, <4>0, <2>1, <2>3, <3>2, <1>a DEF Calm, Closing
      <4>2. CASE field[s].session = 0
        <5>1. s \in broke /\ owner' = "broken" /\ UNCHANGED told
          BY <4>0, <4>2, <2>1, <2>3, <3>2, <1>6, <1>a DEF Calm, CloseSignal,
             GoTo
        <5> QED
          BY <5>1, <4>0, <2>1, <2>3, <3>2, <1>a DEF Calm, Closing
      <4> QED
        BY <4>0, <4>1, <4>2
    <3> QED
      BY <3>1, <3>2
  <2> QED
    BY <2>2, <2>3
<1>7. CASE CloseJoined
  <2>1. UNCHANGED <<started, life, told, broke, final>> /\ owner = "join"
    BY <1>7 DEF CloseJoined
  <2>2. CASE at # s
    <3>1. field'[s] = field[s]
      BY <2>2, <1>7 DEF CloseJoined, TypeOK
    <3>2. CASE at = "web"
      <4>1. owner' = "check" /\ at' = "local" /\ s = "local"
        BY <3>2, <2>2, <1>7 DEF CloseJoined, GoTo, Servers
      <4> QED
        BY <4>1, <3>1, <3>2, <2>1, <1>a DEF Calm, Past, Closing
    <3>3. CASE at # "web"
      <4>1. /\ owner' = IF final THEN "closed" ELSE "out"
            /\ at = "local" /\ at' = "web" /\ s = "web"
        BY <3>3, <2>2, <1>0, <1>7 DEF CloseJoined, GoTo, Servers
      <4>2. Past(s) /\ field[s].thread = 0
        BY <4>1, <2>1, <1>a DEF Past, Closing, FieldsInv
      <4>3. CASE final
        <5>1. Past(s)' /\ owner' = "closed"
          BY <4>1, <4>3 DEF Past
        <5> QED
          BY <4>2, <4>3, <5>1, <3>1, <2>1, <1>a DEF Calm
      <4>4. CASE ~final
        <5>1. ~Past(s)' /\ owner' = "out"
          BY <4>1, <4>4 DEF Past, Closing
        <5> QED
          BY <4>2, <4>4, <5>1, <3>1, <2>1, <1>a DEF Calm, Gone
      <4> QED
        BY <4>3, <4>4
    <3> QED
      BY <3>2, <3>3
  <2>3. CASE at = s
    <3>1. field'[s] = Cleared(s)
      BY <2>3, <1>7, <1>0 DEF CloseJoined, TypeOK
    <3>2. /\ field'[s].thread = 0 /\ field'[s].loop = 0
          /\ field'[s].session = 0 /\ field'[s].lock = 0
          /\ field'[s].shutdown = 0 /\ field'[s].ready = field[s].ready
      BY <3>1 DEF Cleared, NoFields
    <3>3. ~Past(s) /\ owner' # "signal" /\ owner' # "broken" /\ owner' # "join"
      BY <2>1, <2>3, <1>7 DEF Past, Closing, CloseJoined, GoTo
    <3>4. CASE g # started[s]
      BY <3>4, <2>1, <1>a DEF Calm
    <3>5. CASE g = started[s]
      <4>1. field[s].thread \in {0, g}
        BY <3>5, <1>a DEF Calm
      <4>2. field[s].thread = 0 => life[s][g] = "dead"
        BY <3>3, <3>5, <1>a DEF Calm
      <4>3. ~final => life[s][g] = "dead"
        <5> SUFFICES ASSUME ~final, field[s].thread = g
                     PROVE  life[s][g] = "dead"
          BY <4>1, <4>2
        <5>1. ~Alive(s, g)
          BY <2>3, <1>7, <1>a DEF CloseJoined
        <5>2. life[s][g] # "none" /\ life[s][g] \in Lives0
          BY <3>5, <1>a DEF ThreadsInv, TypeOK
        <5> QED
          BY <5>1, <5>2 DEF Alive, RunningLoop, Lives0
      <4>4. final => life[s][g] \in Gone \/ told[s][g]
        BY <2>1, <2>3, <3>5, <1>a DEF Calm
      <4>5. final => Past(s)'
        BY <2>1, <2>3, <1>7, <1>0 DEF CloseJoined, GoTo, Past, Closing, Servers
      <4>6. field[s].ready => life[s][g] \in Been
        BY <3>5, <1>a DEF Calm
      <4>8. CASE final
        <5>1. ~(g < started'[s])
          BY <2>1, <3>5, <1>a
        <5> QED
          BY <3>2, <3>3, <3>5, <4>4, <4>5, <4>6, <4>8, <5>1, <2>1 DEF Calm
      <4>9. CASE ~final
        BY <3>2, <3>3, <3>5, <4>3, <4>6, <4>9, <2>1 DEF Calm, Gone
      <4> QED
        BY <4>8, <4>9
    <3> QED
      BY <3>4, <3>5
  <2> QED
    BY <2>2, <2>3
<1> QED
  BY <1>1, <1>2, <1>3, <1>4, <1>5, <1>6, <1>7 DEF OwnerStep

LEMMA CalmThread ==
  ASSUME TypeOK, PlaceInv, CalmInv, NEW t \in Servers, NEW h \in Starts,
         ThreadStep(t, h)
  PROVE  CalmInv'
<1>0. /\ UNCHANGED <<owner, at, probes, final, started, told, late>>
      /\ \A s \in Servers \ {t} : field'[s] = field[s] /\ life'[s] = life[s]
      /\ \A g \in Starts \ {h} : life'[t][g] = life[t][g]
      /\ life[t][h] # "none"
  BY ThreadEffect DEF runtime
<1>1. broke \subseteq broke'
  BY DEF ThreadStep, Run, Publish, Break, Stop, Exit
<1> SUFFICES ASSUME NEW s \in Servers, NEW g \in Starts, s \notin late
             PROVE  Calm(s, g)'
  BY <1>0 DEF CalmInv
<1>a. /\ Calm(s, g) /\ StartsInv(s) /\ FieldsInv(s) /\ ThreadsInv(s) /\ FinalInv
      /\ started[s] \in Ref /\ field[s] \in FieldType
      /\ g # 0 /\ g \in Int
  BY DEF CalmInv, PlaceInv, TypeOK, Starts
<1>2. CASE s # t
  BY <1>0, <1>1, <1>2, <1>a DEF Calm, Past, Closing
<1>3. CASE s = t
  <2>1. h <= started[s] /\ Calm(s, h)
    BY <1>0, <1>3, <1>a DEF CalmInv, ThreadsInv, Starts, Ref
  <2>2. CASE h < started[s]
    \* Nothing of an earlier thread is left but its end.
    <3>1. Exit(t, h)
      BY <2>1, <2>2, <1>3 DEF Calm, Gone, ThreadStep, Run, Publish, Break, Stop
    <3>2. UNCHANGED <<field, broke>> /\ life'[s][h] = "dead"
      BY <3>1, <1>3 DEF Exit, Lives, TypeOK
    <3> QED
      BY <3>2, <2>2, <1>0, <1>3, <1>a DEF Calm, Past, Closing, Gone
  <2>3. CASE h = started[s]
    <3>1. CASE g # h
      BY <3>1, <2>3, <1>0, <1>3, <1>a DEF Calm
    <3>2. CASE g = h
      <4>0. ~(g < started'[s]) /\ g = started[s] /\ Past(s)' = Past(s)
        BY <3>2, <2>3, <1>0, <1>a DEF Past, Closing
      <4>1. CASE Run(t, h)
        <5>1. /\ life[s][g] = "spawned" /\ UNCHANGED <<field, broke>>
              /\ life'[s][g] = IF field[s].loop = 0 \/ closed[s][g]
                               THEN "dead" ELSE "connecting"
          BY <4>1, <3>2, <1>3 DEF Run, Lives, TypeOK
        <5> QED
          BY <5>1, <4>0, <1>0, <1>a DEF Calm, Gone, Been, Closing
      <4>2. CASE Publish(t, h)
        <5>1. /\ life[s][g] = "connecting" /\ life'[s][g] = "serving"
              /\ UNCHANGED broke
          BY <4>2, <3>2, <1>3 DEF Publish, Lives, TypeOK
        <5>2. /\ field'[s].thread = field[s].thread
              /\ field'[s].loop = field[s].loop
              /\ field'[s].session = g /\ field'[s].lock = g
              /\ field'[s].shutdown = g /\ field'[s].ready = TRUE
          BY <4>2, <3>2, <1>3, <1>a DEF Publish, TypeOK, FieldType
        <5> QED
          BY <5>1, <5>2, <4>0, <1>0, <1>a DEF Calm, Gone, Been, Closing
      <4>3. ASSUME NEW e, field'[s] = Withdrawn(s, e), life'[s][g] = "exiting",
                   life[s][g] \in {"connecting", "serving"},
                   s \in broke' \/ told[s][g]
            PROVE  Calm(s, g)'
        <5>1. /\ field'[s].thread = field[s].thread
              /\ field'[s].loop = field[s].loop
              /\ field'[s].session = 0 /\ field'[s].lock = 0
              /\ field'[s].shutdown = 0 /\ field'[s].ready = TRUE
          BY <4>3, <1>a DEF Withdrawn, FieldType
        <5> QED
          BY <5>1, <4>3, <4>0, <1>0, <1>1, <1>a DEF Calm, Gone, Been, Closing,
             Past
      <4>4. CASE Break(t, h)
        BY <4>3, <4>4, <3>2, <1>3 DEF Break, Lives, TypeOK
      <4>5. CASE Stop(t, h)
        BY <4>3, <4>5, <3>2, <1>3 DEF Stop, Lives, TypeOK
      <4>6. CASE Exit(t, h)
        <5>1. /\ life[s][g] = "exiting" /\ life'[s][g] = "dead"
              /\ UNCHANGED <<field, broke>>
          BY <4>6, <3>2, <1>3 DEF Exit, Lives, TypeOK
        <5> QED
          BY <5>1, <4>0, <1>0, <1>a DEF Calm, Gone, Been, Closing
      <4> QED
        BY <4>1, <4>2, <4>4, <4>5, <4>6 DEF ThreadStep
    <3> QED
      BY <3>1, <3>2
  <2> QED
    BY <2>1, <2>2, <2>3, <1>a DEF Ref, Starts
<1> QED
  BY <1>2, <1>3

LEMMA CalmStep ==
  ASSUME TypeOK, TypeOK', PlaceInv, CalmInv, [Next]_vars
  PROVE  CalmInv'
<1>1. CASE OwnerStep
  BY <1>1, CalmOwner
<1>2. CASE \E s \in Servers, g \in Starts : ThreadStep(s, g)
  BY <1>2, CalmThread
<1>3. CASE UNCHANGED <<runtime, sessions>>
  BY <1>3, CalmFrame
<1>4. Tick \/ Over \/ UNCHANGED vars => UNCHANGED <<runtime, sessions>>
  BY DEF Tick, Over, vars
<1>5. (\E k \in Calls : CallStep(k)) => UNCHANGED <<runtime, sessions>>
  BY DEF CallStep, Begin, Post, Arrive, Acquire, Answer, CallFails, GiveUp
<1> QED
  BY <1>1, <1>2, <1>3, <1>4, <1>5 DEF Next

-----------------------------------------------------------------------------
\* The calls, through every step.
LEMMA CallsInit == Init => CallsInv
BY DEF Init, CallsInv, OneHolder, CallInv, Under, NotMade

LEMMA CallsFrame ==
  ASSUME CallsInv, UNCHANGED vars
  PROVE  CallsInv'
BY DEF CallsInv, OneHolder, CallInv, Under, Reason, vars, runtime, sessions

\* A call that has a reason to be given up keeps it, and one that has none
\* keeps its session.
LEMMA ReasonKept ==
  ASSUME TypeOK, TypeOK', PlaceInv, OwnerStep \/
           \E s \in Servers, g \in Starts : ThreadStep(s, g),
         NEW k \in Calls, call[k].where # "new", CallInv(k)
  PROVE  /\ Reason(k) => Reason(k)'
         /\ call[k].loop # 0 /\ ~Reason(k)'
              /\ life[call[k].server][call[k].loop] = "serving"
              => life'[call[k].server][call[k].loop] = "serving"
         /\ owner' = "open" \/ final'
         /\ UNCHANGED started /\ late \subseteq late'
<1>0. /\ call[k].server \in Servers /\ call[k].loop \in Ref
      /\ owner = "open" \/ final
      /\ FinalInv
  BY DEF CallInv, PlaceInv, TypeOK, CallType
<1>1. CASE OwnerStep
  <2>1. CloseBegin \/ CloseCheck \/ CloseSignal \/ CloseJoined
    BY <1>1, <1>0 DEF FinalInv, Closing, OwnerStep, Probe, StartBegin,
       StartReturns, StartTimesOut, Probed
  <2>2. UNCHANGED <<started, life, call>> /\ late \subseteq late'
    BY <2>1 DEF CloseBegin, CloseCheck, CloseSignal, CloseJoined, sessions
  <2>3. owner' = "open" \/ final'
    BY <2>1, <1>0 DEF CloseBegin, CloseCheck, CloseSignal, CloseJoined,
       FinalInv,
       Closing
  <2> QED
    BY <2>2, <2>3 DEF Reason
<1>2. ASSUME NEW t \in Servers, NEW h \in Starts, ThreadStep(t, h)
      PROVE  /\ Reason(k) => Reason(k)'
             /\ call[k].loop # 0 /\ ~Reason(k)'
                  /\ life[call[k].server][call[k].loop] = "serving"
                  => life'[call[k].server][call[k].loop] = "serving"
             /\ owner' = "open" \/ final'
             /\ UNCHANGED started /\ late \subseteq late'
  <2>1. UNCHANGED <<owner, final, call, started, late>>
    BY <1>2, ThreadEffect DEF runtime
  <2>2. ASSUME NEW s \in Servers, NEW g \in Starts
        PROVE  /\ life[s][g] \in Gone => life'[s][g] \in Gone
               /\ life[s][g] = "serving" =>
                    life'[s][g] \in Gone \cup {"serving"}
    <3>1. CASE s = t /\ g = h
      <4>1. CASE Break(t, h) \/ Stop(t, h)
        <5>1. life' = [life EXCEPT ![t][h] = "exiting"]
          BY <4>1 DEF Break, Stop, Lives
        <5>2. life'[s][g] = "exiting"
          BY <5>1, <3>1 DEF TypeOK
        <5> QED
          BY <5>2 DEF Gone
      <4>2. CASE Exit(t, h)
        BY <4>2, <3>1 DEF Exit, Lives, Gone, TypeOK
      <4>3. CASE Run(t, h) \/ Publish(t, h)
        BY <4>3, <3>1 DEF Run, Publish, Gone
      <4> QED
        BY <1>2, <4>1, <4>2, <4>3 DEF ThreadStep
    <3>2. CASE s # t \/ g # h
      <4>1. life'[s][g] = life[s][g]
        BY <1>2, <3>2, ThreadEffect
      <4> QED
        BY <4>1
    <3> QED
      BY <3>1, <3>2
  <2>3. call[k].loop # 0 => call[k].loop \in Starts
    BY <1>0 DEF Ref
  <2> QED
    BY <2>1, <2>2, <2>3, <1>0 DEF Reason
<1> QED
  BY <1>1, <1>2

LEMMA CallsSession ==
  ASSUME TypeOK, TypeOK', PlaceInv, CallsInv, OwnerStep \/
           \E s \in Servers, g \in Starts : ThreadStep(s, g)
  PROVE  CallsInv'
<1>1. UNCHANGED <<call, out>>
  <2>1. CASE OwnerStep
    BY <2>1 DEF OwnerStep, Probe, StartBegin, StartReturns, StartTimesOut,
       Probed, CloseBegin, CloseCheck, CloseSignal, CloseJoined
  <2>2. CASE \E s \in Servers, g \in Starts : ThreadStep(s, g)
    BY <2>2, ThreadEffect
  <2> QED
    BY <2>1, <2>2
<1>2. OneHolder'
  BY <1>1 DEF CallsInv, OneHolder
<1>3. ASSUME NEW k \in Calls
      PROVE  CallInv(k)'
  <2>1. CallInv(k)
    BY DEF CallsInv
  <2>2. CASE call[k].where = "new"
    BY <2>1, <2>2, <1>1 DEF CallInv, Under
  <2>3. CASE call[k].where # "new"
    BY <2>1, <2>3, <1>1, ReasonKept DEF CallInv, Under
  <2> QED
    BY <2>2, <2>3
<1> QED
  BY <1>2, <1>3 DEF CallsInv

LEMMA CallsTick ==
  ASSUME TypeOK, TypeOK', CallsInv, Tick
  PROVE  CallsInv'
<1>1. UNCHANGED <<owner, final, started, life, late, out>>
  BY DEF Tick, runtime, sessions
<1>2. ASSUME NEW k \in Calls
      PROVE  /\ call'[k].where = call[k].where
             /\ call'[k].server = call[k].server
             /\ call'[k].loop = call[k].loop /\ call'[k].lock = call[k].lock
             /\ Under(k) \/ call'[k] = call[k]
             /\ Under(k) =>
                  /\ call'[k].age =
                       IF call[k].age < Waits THEN call[k].age + 1
                       ELSE call[k].age
                  /\ call'[k].held =
                       IF /\ call[k].where = "holding"
                          /\ call[k].held < CallTimeout
                       THEN call[k].held + 1 ELSE call[k].held
                  /\ call'[k].queued =
                       (call[k].queued \/ call[k].where = "queued")
  <2>1. call[k] \in CallType
    BY DEF TypeOK
  <2>2. CASE Under(k)
    <3>1. call'[k] = [call[k] EXCEPT
                  !.age = IF @ < Waits THEN @ + 1 ELSE @,
                  !.held = IF call[k].where = "holding" /\ @ < CallTimeout
                           THEN @ + 1 ELSE @,
                  !.queued = @ \/ call[k].where = "queued"]
      BY <2>2 DEF Tick
    <3> QED
      BY <3>1, <2>1, <2>2 DEF CallType
  <2>3. CASE ~Under(k)
    BY <2>3 DEF Tick
  <2> QED
    BY <2>2, <2>3
<1>3. OneHolder'
  BY <1>2 DEF CallsInv, OneHolder
<1>4. ASSUME NEW k \in Calls
      PROVE  CallInv(k)'
  <2>0. CallInv(k) /\ call[k] \in CallType
    BY DEF CallsInv, TypeOK
  <2>1. CASE ~Under(k)
    BY <2>0, <2>1, <1>1, <1>2 DEF CallInv, Under, Reason
  <2>2. CASE Under(k)
    <3>1. Reason(k) => Reason(k)'
      BY <2>2, <1>1, <1>2 DEF Reason
    <3>2. ASSUME ~Reason(k)'
          PROVE  /\ call[k].where = "holding" /\ call[k].held < CallTimeout
                 /\ ~Reason(k)
      <4>1. ~Reason(k) /\ call[k].where # "queued"
        BY <3>1, <3>2, <2>2, <1>2 DEF Reason
      <4>2. CanRun(k)
        BY <4>1, <2>0, <2>2 DEF CallInv, CanRun, RunningLoop
      <4> QED
        BY <4>1, <4>2, <2>2 DEF Tick, Under
    <3>3. ~Reason(k)' =>
            /\ call'[k].loop # 0
            /\ life'[call'[k].server][call'[k].loop] = "serving"
            /\ call'[k].where = "holding" /\ call'[k].age = call'[k].held
      <4> SUFFICES ASSUME ~Reason(k)'
                   PROVE  /\ call'[k].loop # 0
                          /\ life'[call'[k].server][call'[k].loop] = "serving"
                          /\ call'[k].where = "holding"
                          /\ call'[k].age = call'[k].held
        OBVIOUS
      <4>1. /\ call[k].age = call[k].held /\ call[k].loop # 0
            /\ life[call[k].server][call[k].loop] = "serving"
        BY <3>2, <2>0, <2>2 DEF CallInv
      <4>2. call[k].age < Waits /\ call[k].held \in Nat
        BY <4>1, <3>2, <2>0, WaitsType, Assumption DEF CallType
      <4> QED
        BY <4>1, <4>2, <3>2, <2>2, <1>1, <1>2
    <3>4. call'[k].where # "holding" => call'[k].held = call[k].held
      BY <1>2, <2>2
    <3> QED
      BY <3>1, <3>3, <3>4, <2>0, <2>2, <1>1, <1>2 DEF CallInv, Under
  <2> QED
    BY <2>1, <2>2
<1> QED
  BY <1>3, <1>4 DEF CallsInv

LEMMA CallsCall ==
  ASSUME TypeOK, TypeOK', PlaceInv, CalmInv, CallsInv,
         NEW k \in Calls, CallStep(k)
  PROVE  CallsInv'
<1>0. /\ call \in [Calls -> CallType] /\ call[k] \in CallType
      /\ out \in [Calls -> Outcomes] /\ CallInv(k) /\ FinalInv
      /\ Called \subseteq Servers
  BY Assumption DEF TypeOK, CallsInv, PlaceInv, Servers
<1>1. UNCHANGED <<owner, final, started, life, late, field>>
  BY DEF CallStep, Begin, Post, Arrive, Acquire, Answer, CallFails, GiveUp,
     runtime, sessions
<1>2. ASSUME NEW j \in Calls \ {k}
      PROVE  call'[j] = call[j] /\ out'[j] = out[j]
  BY <1>0 DEF CallStep, Begin, Post, Arrive, Acquire, Answer, CallFails,
     GiveUp, Done
\* It is enough to look at the call that makes the step.
<1>a. ASSUME CallInv(k)',
             call'[k].where = "holding" =>
               \/ /\ call[k].where = "holding" /\ call'[k].lock = call[k].lock
                  /\ call'[k].server = call[k].server
               \/ \A j \in Calls \ {k} :
                    ~ /\ call[j].where = "holding"
                      /\ call[j].server = call'[k].server
                      /\ call[j].lock = call'[k].lock
      PROVE  CallsInv'
  <2>1. OneHolder'
    BY <1>a, <1>2 DEF CallsInv, OneHolder
  <2>2. ASSUME NEW j \in Calls \ {k}
        PROVE  CallInv(j)'
    BY <1>1, <1>2 DEF CallsInv, CallInv, Under, Reason
  <2> QED
    BY <2>1, <2>2, <1>a DEF CallsInv
<1>b. ASSUME NEW o \in {"error", "answer"}, Done(k, o),
             owner = "open" \/ final
      PROVE  CallsInv'
  <2>1. /\ call'[k].where = "done" /\ call'[k].server = call[k].server
        /\ call'[k].queued = call[k].queued /\ call'[k].loop = call[k].loop
        /\ out'[k] = IF out[k] = "none" THEN o ELSE out[k]
    BY <1>b, <1>0 DEF Done, CallType
  <2>2. CallInv(k)'
    BY <2>1, <1>b, <1>0, <1>1 DEF CallInv, Under, Reason
  <2> QED
    BY <2>1, <2>2, <1>a
<1>c. call[k].where # "new" => owner = "open" \/ final
  BY <1>0 DEF CallInv
<1>3. ASSUME NEW s \in Called, Begin(k, s)
      PROVE  CallsInv'
  <2>1. owner = "open" \/ final
    BY <1>3 DEF Begin
  <2>2. CASE IsRunning(s)
    <3>1. /\ call'[k].where = "posting" /\ call'[k].age = call[k].age
          /\ call'[k].held = call[k].held /\ out'[k] = out[k]
      BY <2>2, <1>3, <1>0 DEF Begin, CallType
    <3>2. CallInv(k)'
      BY <3>1, <2>1, <1>3, <1>0, <1>1 DEF Begin, CallInv, Under
    <3> QED
      BY <3>1, <3>2, <1>a
  <2>3. CASE ~IsRunning(s)
    BY <2>1, <2>3, <1>3, <1>b DEF Begin
  <2> QED
    BY <2>2, <2>3
<1>4. CASE Post(k)
  <2> DEFINE s == call[k].server
  <2>1. CASE field[s].loop = 0 \/ closed[s][field[s].loop]
    BY <2>1, <1>4, <1>b, <1>c DEF Post
  <2>2. CASE ~(field[s].loop = 0 \/ closed[s][field[s].loop])
    <3>1. PICK g \in Starts : g = field[s].loop
      BY <2>2, <1>0, FieldTypes DEF CallType, Ref
    <3>2. /\ call'[k].where = "posted" /\ call'[k].age = call[k].age
          /\ call'[k].held = call[k].held /\ out'[k] = out[k]
          /\ call'[k].queued = call[k].queued /\ call'[k].loop = g
          /\ call'[k].server = s
      BY <3>1, <2>2, <1>4, <1>0 DEF Post, CallType
    <3>3. s \in late \/ life[s][g] \in Been
      <4> SUFFICES ASSUME s \notin late PROVE life[s][g] \in Been
        OBVIOUS
      <4>1. s \in Servers /\ started[s] \in Ref /\ g <= started[s]
        BY <3>1, <1>0 DEF CallType, PlaceInv, FieldsInv, TypeOK
      <4>2. PICK e \in Starts : e = started[s]
        BY <4>1 DEF Ref, Starts
      <4>3. Calm(s, e)
        BY <4>1 DEF CalmInv
      <4>4. field[s].thread = g /\ e = g
        BY <4>2, <4>3, <3>1 DEF Calm, Starts
      <4>5. owner = "open" \/ final
        BY <1>4, <1>c DEF Post
      <4> QED
        BY <4>2, <4>3, <4>4, <4>5, <1>0 DEF Calm, FinalInv, Closing, Starts
    <3>4. CallInv(k)'
      BY <3>2, <3>3, <1>4, <1>0, <1>1, <1>c
         DEF Post, CallInv, Under, Reason, Been, Gone, Starts
    <3> QED
      BY <3>2, <3>4, <1>a
  <2> QED
    BY <2>1, <2>2
<1>5. CASE Arrive(k)
  <2> DEFINE s == call[k].server
  <2>1. CASE field[s].session = 0 \/ field[s].lock = 0
    BY <2>1, <1>5, <1>b, <1>c DEF Arrive
  <2>2. CASE ~(field[s].session = 0 \/ field[s].lock = 0)
    <3>1. /\ call'[k].where = "queued" /\ call'[k].age = call[k].age
          /\ call'[k].held = call[k].held /\ out'[k] = out[k]
          /\ call'[k].queued = call[k].queued /\ call'[k].loop = call[k].loop
          /\ call'[k].server = s /\ call'[k].lock = field[s].lock
      BY <2>2, <1>5, <1>0 DEF Arrive, CallType
    <3>2. s \in late \/ field[s].lock = started[s]
      <4> SUFFICES ASSUME s \notin late PROVE field[s].lock = started[s]
        OBVIOUS
      <4>1. /\ s \in Servers /\ started[s] \in Ref
            /\ field[s].lock \in Ref /\ field[s].lock <= started[s]
        BY <1>0, FieldTypes DEF CallType, PlaceInv, FieldsInv, TypeOK
      <4>2. PICK e \in Starts : e = started[s]
        BY <4>1, <2>2 DEF Ref, Starts
      <4>3. Calm(s, e)
        BY <4>1 DEF CalmInv
      <4> QED
        BY <4>2, <4>3, <2>2 DEF Calm
    <3>3. CallInv(k)'
      BY <3>1, <3>2, <2>2, <1>5, <1>0, <1>1, <1>c
         DEF Arrive, CallInv, Under, Reason
    <3> QED
      BY <3>1, <3>3, <1>a
  <2> QED
    BY <2>1, <2>2
<1>6. CASE Acquire(k)
  <2> DEFINE g == field[call[k].server].session
  <2>1. CASE g = 0
    BY <2>1, <1>6, <1>b, <1>c DEF Acquire
  <2>2. CASE g # 0
    <3>1. /\ call'[k].where = "holding" /\ call'[k].age = call[k].age
          /\ call'[k].held = call[k].held /\ out'[k] = out[k]
          /\ call'[k].queued = call[k].queued /\ call'[k].loop = call[k].loop
          /\ call'[k].server = call[k].server /\ call'[k].lock = call[k].lock
      BY <2>2, <1>6, <1>0 DEF Acquire, CallType
    <3>2. CallInv(k)'
      BY <3>1, <1>6, <1>0, <1>1, <1>c DEF Acquire, CallInv, Under, Reason
    <3>3. \A j \in Calls \ {k} :
            ~ /\ call[j].where = "holding"
              /\ call[j].server = call'[k].server
              /\ call[j].lock = call'[k].lock
      BY <3>1, <1>6 DEF Acquire, Holders
    <3> QED
      BY <3>2, <3>3, <1>a
  <2> QED
    BY <2>1, <2>2
<1>7. CASE Answer(k) \/ CallFails(k)
  BY <1>7, <1>b, <1>c DEF Answer, CallFails
<1>8. CASE GiveUp(k)
  <2>1. call'[k] = call[k] /\ out'[k] = "timeout"
    BY <1>8, <1>0 DEF GiveUp
  <2>2. ASSUME ~Reason(k) PROVE FALSE
    <3>1. call[k].age \in 0 .. CallTimeout
      BY <2>2, <1>8, <1>0, Assumption DEF GiveUp, CallInv, CallType
    <3> QED
      BY <3>1, <1>8, WaitsType, Assumption DEF GiveUp
  <2>3. Reason(k)'
    BY <2>1, <2>2, <1>1 DEF Reason
  <2>4. CallInv(k)'
    BY <2>1, <2>3, <1>8, <1>0, <1>1 DEF GiveUp, CallInv, Under
  <2> QED
    BY <2>1, <2>4, <1>a
<1> QED
  BY <1>3, <1>4, <1>5, <1>6, <1>7, <1>8 DEF CallStep

\* The inductive invariant holds.
LEMMA Inductive == Spec => [](TypeOK /\ IInv)
<1>1. Init => TypeOK /\ IInv
  BY InitTypes, PlaceInit, CalmInit, CallsInit DEF IInv
<1>2. TypeOK /\ IInv /\ [Next]_vars => (TypeOK /\ IInv)'
  <2> SUFFICES ASSUME TypeOK, IInv, [Next]_vars
               PROVE  (TypeOK /\ IInv)'
    OBVIOUS
  <2>1. TypeOK' /\ PlaceInv'
    BY TypeStep, PlaceStep DEF IInv
  <2>2. CalmInv'
    BY <2>1, CalmStep DEF IInv
  <2>3. CallsInv'
    BY <2>1, CallsSession, CallsTick, CallsCall, CallsFrame DEF IInv, Next, Over
  <2> QED
    BY <2>1, <2>2, <2>3 DEF IInv
<1> QED
  BY <1>1, <1>2, PTL DEF Spec

-----------------------------------------------------------------------------
\* Every variable holds a value of its kind, and no session is started a third
\* time (transport_runtime.py:150).
THEOREM TypeCorrect == Spec => []TypeOK
BY Inductive, PTL

\* The last start of a session that is calm.
LEMMA CurrentCalm ==
  ASSUME TypeOK, PlaceInv, CalmInv, NEW s \in Servers \ late
  PROVE  /\ started[s] \in Ref
         /\ started[s] # 0 => started[s] \in Starts /\ Calm(s, started[s])
BY DEF TypeOK, Ref, CalmInv

\* The fields are of the last start and one call at a time holds a session, in
\* any interleaving of threads, restarts and calls (transport_runtime.py:150,
\* 172).
THEOREM SessionsKeptApart == Spec => []SessionsApart
<1>1. TypeOK /\ IInv => OwnFields
  <2> SUFFICES ASSUME TypeOK, IInv, NEW s \in Servers \ late
               PROVE  /\ field[s].session \in {0, started[s]}
                      /\ field[s].session # 0 =>
                           field[s].session = field[s].loop \/ field[s].loop = 0
    BY DEF OwnFields
  <2>1. CASE started[s] = 0
    BY <2>1, FieldTypes DEF IInv, PlaceInv, FieldsInv, Ref, Starts
  <2>2. CASE started[s] # 0
    BY <2>2, CurrentCalm DEF IInv, Calm
  <2> QED
    BY <2>1, <2>2
<1>2. TypeOK /\ IInv => OneCallAtATime
  <2> SUFFICES ASSUME IInv, NEW j \in Calls, NEW k \in Calls, j # k,
                      call[j].where = "holding", call[k].where = "holding",
                      call[j].server = call[k].server,
                      call[j].server \notin late
               PROVE  FALSE
    BY DEF OneCallAtATime
  <2>1. call[j].lock = call[k].lock
    BY DEF IInv, CallsInv, CallInv
  <2> QED
    BY <2>1 DEF IInv, CallsInv, OneHolder
<1> QED
  BY <1>1, <1>2, Inductive, PTL DEF SessionsApart

\* With a margin above zero no caller gives up a call that its session serves
\* at once (transport_runtime.py:231).
THEOREM GivenUpOnlyForAReason == Spec => []GivenUpForAReason
<1>1. IInv => GivenUpForAReason
  BY DEF IInv, CallsInv, CallInv, Reason, Gone, GivenUpForAReason
<1> QED
  BY <1>1, Inductive, PTL

\* A close that leaves something behind, or fails, does so because of a thread
\* that outlived a wait or a session that ended by itself
\* (transport_runtime.py:235, 385).
THEOREM ClosesExplained == Spec => []CloseExplained
<1>1. TypeOK /\ IInv => BrokenCloseExplained
  <2> SUFFICES ASSUME TypeOK, IInv, owner = "broken", at \notin late
               PROVE  at \in broke
    BY DEF BrokenCloseExplained
  <2>1. at \in Servers \ late /\ started[at] # 0
    BY DEF TypeOK, IInv, PlaceInv, StartsInv
  <2> QED
    BY <2>1, CurrentCalm DEF IInv, Calm
<1>2. TypeOK /\ IInv => CloseIsComplete
  <2> SUFFICES ASSUME TypeOK, IInv, owner = "closed", NEW s \in Servers \ late,
                      NEW g \in Starts, RunningLoop(s, g)
               PROVE  told[s][g] \/ life[s][g] = "exiting"
    BY DEF CloseIsComplete, IInv, PlaceInv, FinalInv
  <2>0. /\ Calm(s, g) /\ final /\ Past(s)
        /\ g > started[s] => life[s][g] = "none"
    BY DEF IInv, CalmInv, PlaceInv, FinalInv, Past, ThreadsInv
  <2>3. started[s] \in Nat /\ g \in Nat
    BY DEF TypeOK, Starts, Ref
  <2>1. /\ Calm(s, g) /\ final /\ Past(s) /\ g <= started[s]
    BY <2>0, <2>3 DEF RunningLoop
  <2>2. life[s][g] \in Gone \/ told[s][g]
    BY <2>1, <2>3 DEF Calm
  <2> QED
    BY <2>2 DEF RunningLoop, Gone
<1> QED
  BY <1>1, <1>2, Inductive, PTL DEF CloseExplained

=============================================================================
