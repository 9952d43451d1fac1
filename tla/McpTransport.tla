----------------------------- MODULE McpTransport -----------------------------
(***************************************************************************)
(* The transport sessions behind the tool client                           *)
(* (mcp_server/transport_runtime.py): one session per server, each in a    *)
(* daemon thread with an event loop of its own, opened and closed by the   *)
(* thread that owns the run and called from the threads of the graph.      *)
(*                                                                         *)
(* A session object is reused: every start puts a new thread behind the    *)
(* same fields, and a thread that outlived its start or its close writes   *)
(* to them as if it were the only one.  A field holds the number of the    *)
(* start its value comes from, 0 when it is None.                          *)
(*                                                                         *)
(* Abstracted: tools, arguments and results; the connection, which may     *)
(* fail or end at any time; time, except that of the calls.  A new thread  *)
(* gets going before its start gives up on it.                             *)
(***************************************************************************)
EXTENDS Integers, FiniteSets

CONSTANTS
  Managed,      \* the HTTP servers are processes of this run
  Calls,        \* bound: the tool calls, each of which is made once
  Called,       \* bound: the servers they are made to
  CallTimeout,  \* call_timeout_seconds, what the session waits for an answer
  Margin,       \* seconds that the caller waits on top of that
  MaxMishaps    \* bound: starts that time out and connections that end

ASSUME Assumption ==
  /\ Managed \in BOOLEAN /\ Called \subseteq {"web", "local"}
  /\ CallTimeout \in Nat \ {0} /\ Margin \in Nat \ {0}
  /\ MaxMishaps \in Nat

Servers == {"web", "local"}

\* A run probes its transport when the client is built and once more when
\* the graph starts, and each probe starts a session at most once.
Starts == 1 .. 2

VARIABLES
  owner,    \* where the owning thread is
  at,       \* the session it is working on
  probes,   \* startup probes made
  final,    \* this close is the last
  procs,    \* server processes that are running
  started,  \* [Servers -> starts so far]
  field,    \* [Servers -> the fields of the session object]
  life,     \* [Servers -> [Starts -> life of that start's thread and loop]]
  told,     \* [Servers -> [Starts -> its shutdown event is set]]
  closed,   \* [Servers -> [Starts -> its loop is closed]]
  call,     \* [Calls -> the coroutine of the call]
  out,      \* [Calls -> what its caller got]
  late,     \* history: sessions a thread of which outlived the wait for it
            \* in a start, or in a close that another start may follow
  broke,    \* history: sessions of which one ended on its own
  mishaps   \* starts that timed out and connections that ended

sessions == <<started, field, life, told, closed, late, broke, mishaps>>
runtime  == <<owner, at, probes, final, procs>>
vars     == <<runtime, sessions, call, out>>

NoFields == [thread |-> 0, loop |-> 0, session |-> 0, lock |-> 0,
             shutdown |-> 0, ready |-> FALSE, error |-> FALSE]
NotMade  == [where |-> "new", server |-> "web", loop |-> 0, lock |-> 0,
             session |-> 0, age |-> 0, held |-> 0, queued |-> FALSE]

Init ==
  /\ owner = "out" /\ at = "web" /\ probes = 0 /\ final = FALSE /\ procs = {}
  /\ started = [s \in Servers |-> 0]
  /\ field = [s \in Servers |-> NoFields]
  /\ life = [s \in Servers |-> [g \in Starts |-> "none"]]
  /\ told = [s \in Servers |-> [g \in Starts |-> FALSE]]
  /\ closed = told
  /\ call = [k \in Calls |-> NotMade]
  /\ out = [k \in Calls |-> "none"]
  /\ late = {} /\ broke = {} /\ mishaps = 0

RunningLoop(s, g) == life[s][g] \in {"connecting", "serving", "exiting"}
Alive(s, g) == life[s][g] = "spawned" \/ RunningLoop(s, g)

IsRunning(s) ==
  /\ field[s].thread # 0 /\ Alive(s, field[s].thread)
  /\ field[s].loop # 0 /\ field[s].session # 0

-----------------------------------------------------------------------------
(* The owning thread.                                                      *)

GoTo(place, s) == owner' = place /\ at' = s

\* The client closes whatever a failed start has left.
Fail == GoTo("check", "web") /\ final' = FALSE

\* A probe; the processes of both servers have to listen before a session
\* is opened.
Probe ==
  /\ owner \in {"out", "open"} /\ probes < 2
  /\ \A k \in Calls : call[k].where = "new"
  /\ probes' = probes + 1
  /\ procs' = IF Managed THEN Servers ELSE {}
  /\ \/ GoTo("start", "web") /\ UNCHANGED final
     \/ Managed /\ Fail
  /\ UNCHANGED <<sessions, call, out>>

\* Both are started in turn, and then asked for their tools.
Opened(s) ==
  /\ IF s = "web" THEN GoTo("start", "local") ELSE GoTo("probe", "web")
  /\ UNCHANGED final

Fresh(s) == [field[s] EXCEPT !.loop = started'[s], !.thread = started'[s],
                             !.ready = FALSE, !.error = FALSE]

StartBegin ==
  /\ owner = "start"
  /\ IF IsRunning(at) THEN Opened(at) /\ UNCHANGED sessions
     ELSE /\ started' = [started EXCEPT ![at] = @ + 1]
          /\ field' = [field EXCEPT ![at] = Fresh(at)]
          /\ life' = [life EXCEPT ![at][started'[at]] = "spawned"]
          /\ GoTo("wait", at)
          /\ UNCHANGED <<told, closed, late, broke, mishaps, final>>
  /\ UNCHANGED <<probes, procs, call, out>>

StartReturns ==
  /\ owner = "wait" /\ field[at].ready
  /\ IF field[at].error \/ field[at].session = 0 THEN Fail ELSE Opened(at)
  /\ UNCHANGED <<probes, procs, sessions, call, out>>

\* Mutant: a start that timed out is tried again.
TriesAgain ==
  /\ owner = "wait" /\ ~field[at].ready
  /\ life[at][started[at]] # "spawned"
  /\ GoTo("start", at) /\ UNCHANGED final
  /\ IF Alive(at, started[at])
     THEN /\ mishaps < MaxMishaps /\ mishaps' = mishaps + 1
          /\ late' = late \cup {at}
     ELSE UNCHANGED <<mishaps, late>>
  /\ UNCHANGED <<probes, procs, call, out,
                 started, field, life, told, closed, broke>>

\* Nobody reports a thread that died before its connection was tried, as one
\* whose loop an earlier thread has closed.
StartTimesOut ==
  /\ owner = "wait" /\ ~field[at].ready
  /\ life[at][started[at]] # "spawned"
  /\ Fail
  /\ IF Alive(at, started[at])
     THEN /\ mishaps < MaxMishaps /\ mishaps' = mishaps + 1
          /\ late' = late \cup {at}
     ELSE UNCHANGED <<mishaps, late>>
  /\ UNCHANGED <<probes, procs, call, out,
                 started, field, life, told, closed, broke>>

\* list_tools on both sessions.
Probed ==
  /\ owner = "probe"
  /\ \/ GoTo("open", "web") /\ UNCHANGED final
     \/ Fail
  /\ UNCHANGED <<probes, procs, sessions, call, out>>

CloseBegin ==
  /\ owner \in {"open", "out"} /\ probes > 0
  /\ GoTo("check", "web") /\ final' = TRUE
  /\ UNCHANGED <<probes, procs, sessions, call, out>>

\* Mutant: close waits for the thread without telling it to stop.
OnlyJoin ==
  /\ owner = "check"
  /\ GoTo("join", at)
  /\ UNCHANGED <<probes, procs, final, sessions, call, out>>

CloseCheck ==
  /\ owner = "check"
  /\ GoTo(IF field[at].loop # 0 /\ field[at].shutdown # 0
          THEN "signal" ELSE "join", at)
  /\ UNCHANGED <<probes, procs, final, sessions, call, out>>

\* The event is looked up again.  If its thread has cleared the field, or the
\* loop is closed, close raises and nothing after it is closed.
CloseSignal ==
  LET g == field[at].shutdown
      l == field[at].loop
  IN
  /\ owner = "signal"
  /\ IF g = 0 \/ closed[at][l]
     THEN GoTo("broken", at) /\ UNCHANGED told
     ELSE GoTo("join", at)
          /\ told' = [told EXCEPT ![at][g] = @ \/ RunningLoop(at, l)]
  /\ UNCHANGED <<probes, procs, final, call, out,
                 started, field, life, closed, late, broke, mishaps>>

\* _ready_event is the one that is not reset.
Cleared(s) == [NoFields EXCEPT !.ready = field[s].ready]

\* The thread has ended, or the wait for it is over.  The processes go last.
CloseJoined ==
  /\ owner = "join"
  /\ field' = [field EXCEPT ![at] = Cleared(at)]
  /\ IF at = "web" THEN GoTo("check", "local") /\ UNCHANGED procs
     ELSE GoTo(IF final THEN "closed" ELSE "out", "web") /\ procs' = {}
  /\ late' = IF ~final /\ field[at].thread # 0 /\ Alive(at, field[at].thread)
             THEN late \cup {at} ELSE late
  /\ UNCHANGED <<probes, final, call, out,
                 started, life, told, closed, broke, mishaps>>

-----------------------------------------------------------------------------
(* The thread of start g of session s.                                     *)

Lives(s, g, l) == life' = [life EXCEPT ![s][g] = l]

\* The thread finds its loop in the field; one that is closed cannot run.
Run(s, g) ==
  /\ life[s][g] = "spawned"
  /\ Lives(s, g, IF field[s].loop = 0 \/ closed[s][g]
                 THEN "dead" ELSE "connecting")
  /\ UNCHANGED <<runtime, call, out,
                 started, field, told, closed, late, broke, mishaps>>

Publish(s, g) ==
  /\ life[s][g] = "connecting"
  /\ Lives(s, g, "serving")
  /\ field' = [field EXCEPT ![s].session = g, ![s].lock = g,
                            ![s].shutdown = g, ![s].ready = TRUE]
  /\ UNCHANGED <<runtime, call, out,
                 started, told, closed, late, broke, mishaps>>

\* The finally clause of _session_main, whoever's the values are.
Withdrawn(s, error) ==
  [field[s] EXCEPT !.session = 0, !.lock = 0, !.shutdown = 0,
                   !.ready = TRUE, !.error = @ \/ error]

\* The connection cannot be opened, or ends under a session that serves.
Break(s, g) ==
  /\ life[s][g] \in {"connecting", "serving"}
  /\ mishaps < MaxMishaps /\ mishaps' = mishaps + 1
  /\ Lives(s, g, "exiting")
  /\ field' = [field EXCEPT ![s] = Withdrawn(s, TRUE)]
  /\ broke' = broke \cup {s}
  /\ UNCHANGED <<runtime, call, out, started, told, closed, late>>

Stop(s, g) ==
  /\ life[s][g] = "serving" /\ told[s][g]
  /\ Lives(s, g, "exiting")
  /\ field' = [field EXCEPT ![s] = Withdrawn(s, FALSE)]
  /\ UNCHANGED <<runtime, call, out,
                 started, told, closed, late, broke, mishaps>>

\* The thread closes the loop that the field holds now, unless it runs.
Exit(s, g) ==
  LET l == field[s].loop IN
  /\ life[s][g] = "exiting"
  /\ Lives(s, g, "dead")
  /\ closed' = IF l = 0 \/ (l # g /\ RunningLoop(s, l)) THEN closed
               ELSE [closed EXCEPT ![s][l] = TRUE]
  /\ UNCHANGED <<runtime, call, out,
                 started, field, told, late, broke, mishaps>>

ThreadStep(s, g) ==
  Run(s, g) \/ Publish(s, g) \/ Break(s, g) \/ Stop(s, g) \/ Exit(s, g)

-----------------------------------------------------------------------------
(* A call.  Its coroutine goes on when the caller has stopped waiting.      *)

Under(k) == call[k].where \in {"posted", "queued", "holding"}
CanRun(k) == RunningLoop(call[k].server, call[k].loop)

Done(k, o) ==
  /\ call' = [call EXCEPT ![k].where = "done"]
  /\ out'  = [out EXCEPT ![k] = IF @ = "none" THEN o ELSE @]

\* A client that is being closed still takes calls.
Begin(k, s) ==
  /\ call[k].where = "new"
  /\ owner = "open" \/ (final /\ owner \in {"check", "signal", "join"})
  /\ IF IsRunning(s)
     THEN call' = [call EXCEPT ![k].where = "posting", ![k].server = s]
          /\ UNCHANGED out
     ELSE Done(k, "error")
  /\ UNCHANGED <<runtime, sessions>>

Post(k) ==
  LET s == call[k].server
      l == field[s].loop
  IN
  /\ call[k].where = "posting"
  /\ IF l = 0 \/ closed[s][l] THEN Done(k, "error")
     ELSE call' = [call EXCEPT ![k].where = "posted", ![k].loop = l]
          /\ UNCHANGED out
  /\ UNCHANGED <<runtime, sessions>>

\* Its assertions: there are a session and a lock when it gets to run.
Arrive(k) ==
  LET f == field[call[k].server] IN
  /\ call[k].where = "posted" /\ CanRun(k)
  /\ IF f.session = 0 \/ f.lock = 0 THEN Done(k, "error")
     ELSE call' = [call EXCEPT ![k].where = "queued", ![k].lock = f.lock]
          /\ UNCHANGED out
  /\ UNCHANGED <<runtime, sessions>>

\* Mutant: calls do not wait for each other.
NoLock(k) == {}

Holders(k) == {j \in Calls \ {k} :
                 /\ call[j].where = "holding"
                 /\ call[j].server = call[k].server
                 /\ call[j].lock = call[k].lock}

\* The session is looked up again under the lock.
Acquire(k) ==
  LET g == field[call[k].server].session IN
  /\ call[k].where = "queued" /\ CanRun(k) /\ Holders(k) = {}
  /\ IF g = 0 THEN Done(k, "error")
     ELSE call' = [call EXCEPT ![k].where = "holding", ![k].session = g]
          /\ UNCHANGED out
  /\ UNCHANGED <<runtime, sessions>>

Answer(k) ==
  /\ call[k].where = "holding" /\ CanRun(k)
  /\ life[call[k].server][call[k].session] = "serving"
  /\ Done(k, "answer")
  /\ UNCHANGED <<runtime, sessions>>

\* The tool reports an error, or the session's read timeout has passed.
CallFails(k) ==
  /\ call[k].where = "holding" /\ CanRun(k)
  /\ Done(k, "error")
  /\ UNCHANGED <<runtime, sessions>>

\* Mutant: the caller waits no longer than the session does.
WaitsAsLong == CallTimeout - 1
Waits == CallTimeout + Margin

\* The caller stops waiting; nothing cancels the coroutine.
GiveUp(k) ==
  /\ Under(k) /\ out[k] = "none" /\ call[k].age = Waits
  /\ out' = [out EXCEPT ![k] = "timeout"]
  /\ UNCHANGED <<runtime, sessions, call>>

\* A second passes when nothing is due: loops that run are prompt.
Tick ==
  /\ \E k \in Calls : Under(k) /\ out[k] = "none"
  /\ \A k \in Calls : Under(k) =>
       /\ out[k] = "none" => call[k].age < Waits
       /\ CanRun(k) =>
            /\ call[k].where # "posted"
            /\ call[k].where = "queued" => Holders(k) # {}
            /\ call[k].where = "holding" => call[k].held < CallTimeout
  /\ call' = [k \in Calls |->
                IF ~Under(k) THEN call[k]
                ELSE [call[k] EXCEPT
                  !.age = IF @ < Waits THEN @ + 1 ELSE @,
                  !.held = IF call[k].where = "holding" /\ @ < CallTimeout
                           THEN @ + 1 ELSE @,
                  !.queued = @ \/ call[k].where = "queued"]]
  /\ UNCHANGED <<runtime, sessions, out>>

CallStep(k) ==
  \/ \E s \in Called : Begin(k, s)
  \/ Post(k) \/ Arrive(k) \/ Acquire(k) \/ Answer(k) \/ CallFails(k)
  \/ GiveUp(k)

OwnerStep ==
  \/ Probe \/ StartBegin \/ StartReturns \/ StartTimesOut \/ Probed
  \/ CloseBegin \/ CloseCheck \/ CloseSignal \/ CloseJoined

\* The system may stop only here: no caller waits for a result and no thread
\* that was told to stop still runs.  A run that hangs anywhere is a deadlock,
\* since every step but this one uses up something.
Over ==
  /\ owner \in {"closed", "broken"}
  /\ \A k \in Calls : out[k] # "none" \/ call[k].where = "new"
  /\ \A s \in Servers, g \in Starts : told[s][g] => ~RunningLoop(s, g)
  /\ UNCHANGED vars

Next ==
  \/ OwnerStep \/ Tick \/ Over
  \/ \E s \in Servers, g \in Starts : ThreadStep(s, g)
  \/ \E k \in Calls : CallStep(k)

Spec == Init /\ [][Next]_vars

-----------------------------------------------------------------------------
(* Properties.                                                             *)

Lives0   == {"none", "spawned", "connecting", "serving", "exiting", "dead"}
Stages   == {"out", "start", "wait", "probe", "open", "check", "signal",
             "join", "closed", "broken"}
Ref      == Starts \cup {0}
Outcomes == {"none", "answer", "error", "timeout"}
Wheres   == {"new", "posting", "posted", "queued", "holding", "done"}

FieldType == [thread : Ref, loop : Ref, session : Ref, lock : Ref,
              shutdown : Ref, ready : BOOLEAN, error : BOOLEAN]
CallType  == [where : Wheres, server : Servers, loop : Ref, lock : Ref,
              session : Ref, age : 0 .. Waits, held : 0 .. CallTimeout,
              queued : BOOLEAN]

\* Every variable holds a value of its kind; in particular two probes never
\* start a session a third time.
TypeOK ==
  /\ final \in BOOLEAN
  /\ owner \in Stages /\ at \in Servers /\ probes \in 0 .. 2
  /\ procs \subseteq Servers
  /\ started \in [Servers -> Ref]
  /\ field \in [Servers -> FieldType]
  /\ life \in [Servers -> [Starts -> Lives0]]
  /\ told \in [Servers -> [Starts -> BOOLEAN]]
  /\ closed \in [Servers -> [Starts -> BOOLEAN]]
  /\ call \in [Calls -> CallType]
  /\ out \in [Calls -> Outcomes]
  /\ late \subseteq Servers /\ broke \subseteq Servers
  /\ mishaps \in 0 .. MaxMishaps

\* The two parts of SessionsApart.  The fields of a session object are those
\* of its last start (start, _session_main), unless an earlier thread outlived
\* the wait for it: only such a thread can put its values, or the lack of
\* them, under another one.
OwnFields ==
  \A s \in Servers \ late :
    /\ field[s].session \in {0, started[s]}
    /\ field[s].session # 0 => field[s].session = field[s].loop
                               \/ field[s].loop = 0

\* The lock of a session lets one call at a time through to the server
\* (_call_tool_async), for calls of several threads and across restarts.
OneCallAtATime ==
  \A j, k \in Calls :
    /\ j # k
    /\ call[j].where = "holding" /\ call[k].where = "holding"
    /\ call[j].server = call[k].server
    /\ call[j].server \notin late
    => ~(CanRun(j) /\ CanRun(k))

\* Threads, restarts and calls of one session do not mix, though they share an
\* object without a lock.
SessionsApart == OwnFields /\ OneCallAtATime

\* The caller's limit leaves the session the time to report its own: a caller
\* gives up (future.result) only on a call that had to wait for another one,
\* or whose session ended under it, or whose loop was not the session's.
GivenUpForAReason ==
  \A k \in Calls :
    out[k] = "timeout" =>
      \/ call[k].queued
      \/ life[call[k].server][call[k].loop] # "serving"
      \/ call[k].server \in late

\* The two parts of CloseExplained.  After the client has been closed no
\* thread, server process or session is left that nobody told to stop, unless
\* a thread outlived the wait for it: one that is still connecting has no event
\* that close could set.
CloseIsComplete ==
  owner = "closed" =>
    /\ procs = {}
    /\ \A s \in Servers \ late, g \in Starts :
         RunningLoop(s, g) => told[s][g] \/ life[s][g] = "exiting"

\* Closing fails half way only when a session ended on its own while it was
\* being closed, or its thread is one of two.
BrokenCloseExplained == owner = "broken" => at \in broke \cup late

\* Every way in which a close leaves something behind (transport_runtime.py:235,
\* 385).
CloseExplained == CloseIsComplete /\ BrokenCloseExplained

=============================================================================
