------------------------------ MODULE McpClient ------------------------------
(***************************************************************************)
(* The tool client of one run (mcp_server/client.py): transport first,     *)
(* in-process server behind a circuit breaker (core/rate_limit.py) as a    *)
(* fallback, placeholders behind that.  Its callers are graph nodes, which *)
(* LangGraph runs in parallel threads; the client has no lock of its own,  *)
(* only the breakers have.                                                 *)
(*                                                                         *)
(* Abstracted: what a tool returns, down to where the answer came from.    *)
(* The web server's tools are searches.  Of the local server only the      *)
(* writing of the report is called.                                        *)
(***************************************************************************)
EXTENDS Integers, FiniteSets

CONSTANTS
  Threads,    \* threads that call tools
  Threshold,  \* failures in a row that open a circuit
  Recovery,   \* seconds it stays open
  MaxCalls,   \* bound: calls made in a run
  MaxTime     \* bound: where the clock stops

ASSUME Assumption ==
  /\ IsFiniteSet(Threads)
  /\ Threshold \in Nat \ {0} /\ Recovery \in Nat \ {0}
  /\ MaxCalls \in Nat /\ MaxTime \in Nat

Modes   == {"auto", "transport", "inprocess"}
Servers == {"web", "local"}

VARIABLES
  mode,      \* config.mcp_mode
  phase,     \* "new", "started", "ready", "refused" or "closed"
  active,    \* transport_active
  fallback,  \* fallback_active
  failures,  \* [Servers -> failures counted by the server's breaker]
  openUntil, \* [Servers -> open_until]
  now,       \* the monotonic clock
  pc,        \* [Threads -> where its call is, or what the last one returned]
  server,    \* [Threads -> the server it calls]
  calls,     \* calls made
  openedAt   \* history: `failures' when the circuit last opened

breaker == <<failures, openUntil, openedAt>>
client  == <<mode, phase, active, fallback>>
vars    == <<client, breaker, now, pc, server, calls>>

Init ==
  /\ mode \in Modes
  /\ phase = "new"
  /\ active = FALSE
  /\ fallback = IF mode = "inprocess" THEN TRUE ELSE FALSE
  /\ failures = [s \in Servers |-> 0] /\ openUntil = [s \in Servers |-> 0]
  /\ now = 1
  /\ pc = [t \in Threads |-> "idle"]
  /\ server = [t \in Threads |-> "web"]
  /\ calls = 0
  /\ openedAt = failures

GoTo(t, place) == pc' = [pc EXCEPT ![t] = place]

-----------------------------------------------------------------------------
(* Startup and shutdown.                                                   *)

\* Starting the sessions and listing the tools succeeds, or the sessions are
\* closed again and everything but strict mode falls back.
Probe ==
  IF mode = "inprocess" THEN active' = FALSE /\ fallback' = TRUE
  ELSE \/ active' = TRUE /\ fallback' = FALSE
       \/ active' = FALSE /\ fallback' = (fallback \/ mode = "auto")

\* A runtime in strict mode does not start without its transport.
Start ==
  /\ phase = "new"
  /\ Probe
  /\ phase' = IF mode = "transport" /\ ~active' THEN "refused" ELSE "started"
  /\ UNCHANGED <<mode, breaker, now, pc, server, calls>>

\* run_research probes again, only to report; the streaming endpoint does not.
Ready ==
  /\ phase = "started"
  /\ Probe \/ UNCHANGED <<active, fallback>>
  /\ phase' = "ready"
  /\ UNCHANGED <<mode, breaker, now, pc, server, calls>>

\* A stream that is stopped closes the client under the nodes still running.
Close ==
  /\ phase = "ready"
  /\ phase' = "closed"
  /\ active' = FALSE
  /\ UNCHANGED <<mode, fallback, breaker, now, pc, server, calls>>

-----------------------------------------------------------------------------
(* A call.                                                                 *)

\* Mutant: the flag is only set when the client starts.
QuietFallBack(t) == UNCHANGED fallback /\ GoTo(t, "admit")
FallBack(t) == fallback' = TRUE /\ GoTo(t, "admit")

Waiting(t) == pc[t] \in {"idle", "remote", "inprocess", "placeholder", "raised"}

Call(t, s) ==
  /\ phase \in {"ready", "closed"}
  /\ Waiting(t) /\ calls < MaxCalls
  /\ calls' = calls + 1
  /\ server' = [server EXCEPT ![t] = s]
  /\ \/ mode = "inprocess" /\ GoTo(t, "admit") /\ UNCHANGED fallback
     \/ mode # "inprocess" /\ active /\ GoTo(t, "transport")
          /\ UNCHANGED fallback
     \/ mode = "transport" /\ ~active /\ GoTo(t, "raised")
          /\ UNCHANGED fallback
     \/ mode = "auto" /\ ~active /\ FallBack(t)
  /\ UNCHANGED <<mode, phase, active, breaker, now>>

TransportAnswers(t) ==
  /\ pc[t] = "transport"
  /\ GoTo(t, "remote")
  /\ UNCHANGED <<client, breaker, now, server, calls>>

\* Mutants: strict mode falls back as well; or a client falls back once.
FallBackAnyway == active
FallBackOnce   == active /\ mode # "transport" /\ ~fallback

\* Looked up when the call has failed, not when it was made.
MayFallBack == active /\ mode # "transport"

TransportFails(t) ==
  /\ pc[t] = "transport"
  /\ IF MayFallBack THEN FallBack(t)
     ELSE GoTo(t, "raised") /\ UNCHANGED fallback
  /\ UNCHANGED <<mode, phase, active, breaker, now, server, calls>>

\* Mutant: the breaker counts instead of looking at the clock.
AllowByCount(s) == failures[s] <= Threshold
Allow(s) == now >= openUntil[s]

\* The fallback of a search is a placeholder without a URL.  The fallback of
\* the report is to write it, circuit or not.
Fallback(s) == IF s = "web" THEN "placeholder" ELSE "repeat"

Admit(t) ==
  /\ pc[t] = "admit"
  /\ GoTo(t, IF Allow(server[t]) THEN "primary" ELSE Fallback(server[t]))
  /\ UNCHANGED <<client, breaker, now, server, calls>>

\* Mutant: a success forgets the failures and leaves the circuit open.
ForgetFailures(s) ==
  failures' = [failures EXCEPT ![s] = 0] /\ UNCHANGED openUntil

Success(s) ==
  /\ failures'  = [failures EXCEPT ![s] = 0]
  /\ openUntil' = [openUntil EXCEPT ![s] = 0]

\* A failure counts, and from the threshold on opens the circuit or keeps it
\* open for longer.
Failure(s) ==
  LET opens == failures'[s] >= Threshold IN
  /\ failures'  = [failures EXCEPT ![s] = @ + 1]
  /\ openUntil' = [openUntil EXCEPT ![s] = IF opens THEN now + Recovery ELSE @]
  /\ openedAt'  = [openedAt EXCEPT ![s] =
                     IF opens /\ Allow(s) THEN failures'[s] ELSE @]

PrimaryAnswers(t) ==
  /\ pc[t] = "primary"
  /\ Success(server[t])
  /\ GoTo(t, "inprocess")
  /\ UNCHANGED <<client, openedAt, now, server, calls>>

PrimaryRaises(t) ==
  /\ pc[t] = "primary"
  /\ Failure(server[t])
  /\ GoTo(t, Fallback(server[t]))
  /\ UNCHANGED <<client, now, server, calls>>

\* The report is written again outside the breaker, and may fail again.
Repeat(t) ==
  /\ pc[t] = "repeat"
  /\ \/ GoTo(t, "inprocess")
     \/ GoTo(t, "raised")
  /\ UNCHANGED <<client, breaker, now, server, calls>>

-----------------------------------------------------------------------------

Tick ==
  /\ now < MaxTime
  /\ now' = now + 1
  /\ UNCHANGED <<client, breaker, pc, server, calls>>

ThreadStep(t) ==
  \/ \E s \in Servers : Call(t, s)
  \/ TransportAnswers(t) \/ TransportFails(t)
  \/ Admit(t) \/ PrimaryAnswers(t) \/ PrimaryRaises(t) \/ Repeat(t)

\* A client that was refused or closed, with no call under way.
Over ==
  /\ phase \in {"refused", "closed"}
  /\ \A t \in Threads : Waiting(t)
  /\ UNCHANGED vars

Next ==
  \/ Start \/ Ready \/ Close \/ Tick \/ Over
  \/ \E t \in Threads : ThreadStep(t)

Spec == Init /\ [][Next]_vars

-----------------------------------------------------------------------------
(* Properties.                                                             *)

Fallen == {"admit", "primary", "repeat", "inprocess", "placeholder"}
Places == {"idle", "transport", "remote", "raised"} \cup Fallen

\* Every variable holds a value of its kind.
TypeOK ==
  /\ mode \in Modes
  /\ phase \in {"new", "started", "ready", "refused", "closed"}
  /\ active \in BOOLEAN /\ fallback \in BOOLEAN
  /\ failures \in [Servers -> Nat] /\ openUntil \in [Servers -> Nat]
  /\ openedAt \in [Servers -> Nat]
  /\ now \in Nat /\ calls \in 0 .. MaxCalls
  /\ pc \in [Threads -> Places]
  /\ server \in [Threads -> Servers]

\* docs/PHASE7_CORE.md: strict mode never degrades to the in-process servers
\* and in-process mode never goes out, whatever fails and whenever the client
\* is closed.
ModeRespected ==
  \A t \in Threads :
    /\ mode = "transport" => pc[t] \notin Fallen
    /\ mode = "inprocess" => pc[t] \notin {"transport", "remote"}

\* docs/PHASE7_CORE.md "auto: try selected transport, then degrade": with
\* either fallback mode a search raises into the graph only when the client
\* has been closed under it.
SearchesDegrade ==
  \A t \in Threads :
    pc[t] = "raised" /\ server[t] = "web" /\ mode # "transport"
      => phase = "closed"

\* Nobody is served by the in-process servers behind the report's back: the
\* run's diagnostics say that the fallback is in use.
FallbackReported == (\E t \in Threads : pc[t] \in Fallen) => fallback

\* The two fields of a breaker agree under any interleaving of successes and
\* failures: a circuit has a time to recover exactly when the failures in a
\* row have reached the threshold.
BreakerConsistent ==
  \A s \in Servers : failures[s] >= Threshold <=> openUntil[s] > 0

Primaries(s) == {t \in Threads : pc[t] = "primary" /\ server[t] = s}

\* An open circuit lets nobody in: all that can still reach the failing
\* server are the calls that were under way when it opened.
OpenLetsNobodyIn ==
  \A s \in Servers :
    openUntil[s] > now =>
      Cardinality(Primaries(s)) + failures[s] - openedAt[s]
        < Cardinality(Threads)

\* The client implements the contract of its breakers.  A breaker has two
\* fields where the contract has one circuit: open_until is zero exactly when
\* the circuit is closed, and the count goes on when it is tripped.
Circuit ==
  [s \in Servers |->
     IF openUntil[s] = 0 THEN [state |-> "closed", failures |-> failures[s]]
     ELSE [state |-> "tripped", until |-> openUntil[s]]]

Breakers == INSTANCE CircuitBreaker WITH
  Services <- Servers, Callers <- Threads,
  circuit <- Circuit, inside <- [s \in Servers |-> Primaries(s)]

\* core/rate_limit.py CircuitBreaker and mcp_server/client.py _invoke: under
\* any interleaving of the threads a circuit trips at the threshold, lets
\* nobody in before its time, and is closed by any success, a late one too.
ImplementsBreakers == Breakers!Spec

=============================================================================
