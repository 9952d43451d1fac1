------------------------------- MODULE ToolProofs -----------------------------
(***************************************************************************)
(* Proofs about both ends of a tool call: the tool client, for any set of  *)
(* threads, any threshold and any recovery time, and the web tool server,  *)
(* for any number of threads, any size and refill of the token buckets and *)
(* any number of retries.                                                  *)
(***************************************************************************)
EXTENDS McpClient, WebTools, FiniteSetTheorems, TLAPS

-----------------------------------------------------------------------------
(* The tool client.                                                        *)

\* No call is made before the client is ready; a call is out on the transport
\* of an open client only while the transport is active; only the report is
\* written a second time; in-process mode counts as a fallback.
CallInv ==
  /\ phase \in {"new", "started", "refused"} =>
       \A t \in Threads : pc[t] = "idle"
  /\ \A t \in Threads : pc[t] = "transport" /\ phase # "closed" => active
  /\ \A t \in Threads : pc[t] = "repeat" => server[t] = "local"
  /\ mode = "inprocess" => fallback

ClientInv ==
  /\ CallInv
  /\ ModeRespected /\ SearchesDegrade /\ FallbackReported
  /\ BreakerConsistent

-----------------------------------------------------------------------------

\* Every step keeps the client well typed.
LEMMA TypeStep == TypeOK /\ [Next]_vars => TypeOK'
<1> SUFFICES ASSUME TypeOK, [Next]_vars PROVE TypeOK'
  OBVIOUS
<1> USE Assumption DEF TypeOK, Modes, Servers, Places, Fallen
<1>1. CASE Start
  BY <1>1 DEF Start, Probe, breaker
<1>2. CASE Ready
  BY <1>2 DEF Ready, Probe, breaker
<1>3. CASE Close
  BY <1>3 DEF Close, breaker
<1>4. CASE Tick
  BY <1>4 DEF Tick, client, breaker
<1>5. ASSUME NEW t \in Threads, ThreadStep(t)
      PROVE  TypeOK'
  <2>1. ASSUME NEW s \in Servers, Call(t, s) PROVE TypeOK'
    <3>1. calls' \in 0 .. MaxCalls /\ server' \in [Threads -> Servers]
      BY <2>1 DEF Call
    <3>2. UNCHANGED <<mode, phase, active, breaker, now>>
      BY <2>1 DEF Call
    <3>3. pc' \in [Threads -> Places] /\ fallback' \in BOOLEAN
      <4>1. CASE FallBack(t)
        BY <4>1 DEF FallBack, GoTo
      <4>2. CASE UNCHANGED fallback /\
                 \E p \in {"admit", "transport", "raised"} : GoTo(t, p)
        BY <4>2 DEF GoTo
      <4> QED
        BY <2>1, <4>1, <4>2 DEF Call
    <3> QED
      BY <3>1, <3>2, <3>3 DEF breaker
  <2>2. CASE TransportAnswers(t)
    BY <2>2 DEF TransportAnswers, GoTo, client, breaker
  <2>3. CASE TransportFails(t)
    <3>1. UNCHANGED <<mode, phase, active, breaker, now, server, calls>>
      BY <2>3 DEF TransportFails
    <3>2. pc' \in [Threads -> Places] /\ fallback' \in BOOLEAN
      <4>1. CASE FallBack(t)
        BY <4>1 DEF FallBack, GoTo
      <4>2. CASE GoTo(t, "raised") /\ UNCHANGED fallback
        BY <4>2 DEF GoTo
      <4> QED
        BY <2>3, <4>1, <4>2 DEF TransportFails
    <3> QED
      BY <3>1, <3>2 DEF breaker
  <2>4. CASE Admit(t)
    BY <2>4 DEF Admit, Fallback, GoTo, client, breaker
  <2>5. CASE PrimaryAnswers(t)
    BY <2>5 DEF PrimaryAnswers, Success, GoTo, client
  <2>6. CASE PrimaryRaises(t)
    BY <2>6 DEF PrimaryRaises, Failure, Fallback, GoTo, client
  <2>7. CASE Repeat(t)
    BY <2>7 DEF Repeat, GoTo, client, breaker
  <2> QED
    BY <1>5, <2>1, <2>2, <2>3, <2>4, <2>5, <2>6, <2>7 DEF ThreadStep
<1>6. CASE Over \/ UNCHANGED vars
  BY <1>6 DEF Over, vars, client, breaker
<1> QED
  BY <1>1, <1>2, <1>3, <1>4, <1>5, <1>6 DEF Next

\* The client is well typed in every run.
THEOREM TypeCorrect == Spec => []TypeOK
<1>1. Init => TypeOK
  <2> SUFFICES ASSUME Init PROVE TypeOK
    OBVIOUS
  <2>1. /\ failures \in [Servers -> Nat] /\ openUntil \in [Servers -> Nat]
        /\ openedAt \in [Servers -> Nat]
        /\ server \in [Threads -> Servers] /\ pc \in [Threads -> Places]
    BY DEF Init, Servers, Places
  <2>2. mode \in Modes /\ active \in BOOLEAN /\ fallback \in BOOLEAN
    BY DEF Init
  <2>3. now \in Nat /\ calls \in 0 .. MaxCalls
    BY Assumption DEF Init
  <2>4. phase = "new"
    BY DEF Init
  <2> QED
    BY <2>1, <2>2, <2>3, <2>4 DEF TypeOK
<1> QED
  BY <1>1, TypeStep, PTL DEF Spec

-----------------------------------------------------------------------------

\* A breaker whose fields agree keeps agreeing, whoever reports to it next:
\* a success clears both, and a failure sets the time when it reaches the
\* threshold.
LEMMA BreakerStep ==
  ASSUME TypeOK, BreakerConsistent, NEW s \in Servers,
         Success(s) \/ Failure(s)
  PROVE  BreakerConsistent'
<1> USE Assumption DEF TypeOK, BreakerConsistent
<1>1. CASE Success(s)
  BY <1>1 DEF Success
<1>2. CASE Failure(s)
  <2>1. \A r \in Servers \ {s} :
          failures'[r] = failures[r] /\ openUntil'[r] = openUntil[r]
    BY <1>2 DEF Failure
  <2>2. failures'[s] = failures[s] + 1
    BY <1>2 DEF Failure
  <2>3. failures'[s] >= Threshold <=> openUntil'[s] > 0
    BY <1>2, <2>2 DEF Failure
  <2> QED
    BY <2>1, <2>3
<1> QED
  BY <1>1, <1>2

\* Every step keeps the facts a call relies on.
LEMMA ClientStep == TypeOK /\ ClientInv /\ [Next]_vars => ClientInv'
<1> SUFFICES ASSUME TypeOK, ClientInv, [Next]_vars PROVE ClientInv'
  OBVIOUS
<1> USE DEF ClientInv, CallInv, ModeRespected, SearchesDegrade,
            FallbackReported, Fallen
<1>1. CASE Start
  BY <1>1 DEF Start, Probe, breaker, BreakerConsistent
<1>2. CASE Ready
  BY <1>2 DEF Ready, Probe, breaker, BreakerConsistent
<1>3. CASE Close
  BY <1>3 DEF Close, breaker, BreakerConsistent
<1>4. CASE Tick
  BY <1>4 DEF Tick, client, breaker, BreakerConsistent
<1>5. ASSUME NEW t \in Threads, ThreadStep(t)
      PROVE  ClientInv'
  <2> USE DEF TypeOK, GoTo
  <2>1. ASSUME NEW s \in Servers, Call(t, s) PROVE ClientInv'
    BY <2>1 DEF Call, FallBack, Waiting, breaker, BreakerConsistent
  <2>2. CASE TransportAnswers(t)
    BY <2>2 DEF TransportAnswers, client, breaker, BreakerConsistent
  <2>3. CASE TransportFails(t)
    BY <2>3 DEF TransportFails, MayFallBack, FallBack, breaker,
                BreakerConsistent, Modes
  <2>4. CASE Admit(t)
    BY <2>4 DEF Admit, Fallback, client, breaker, BreakerConsistent, Servers
  <2>5. CASE PrimaryAnswers(t)
    BY <2>5, BreakerStep DEF PrimaryAnswers, client
  <2>6. CASE PrimaryRaises(t)
    BY <2>6, BreakerStep DEF PrimaryRaises, Fallback, client, Servers
  <2>7. CASE Repeat(t)
    BY <2>7 DEF Repeat, client, breaker, BreakerConsistent
  <2> QED
    BY <1>5, <2>1, <2>2, <2>3, <2>4, <2>5, <2>6, <2>7 DEF ThreadStep
<1>6. CASE Over \/ UNCHANGED vars
  BY <1>6 DEF Over, vars, client, breaker, BreakerConsistent
<1> QED
  BY <1>1, <1>2, <1>3, <1>4, <1>5, <1>6 DEF Next

\* The facts a call relies on hold in every run.
LEMMA ClientInvariant == Spec => []ClientInv
<1>1. Init => ClientInv
  <2> SUFFICES ASSUME Init PROVE ClientInv
    OBVIOUS
  <2>1. BreakerConsistent
    BY Assumption DEF Init, BreakerConsistent
  <2>2. \A t \in Threads : pc[t] = "idle"
    BY DEF Init
  <2>3. phase = "new" /\ (mode = "inprocess" => fallback)
    BY DEF Init
  <2> QED
    BY <2>1, <2>2, <2>3 DEF ClientInv, CallInv, ModeRespected,
       SearchesDegrade, FallbackReported, Fallen
<1> QED
  BY <1>1, TypeCorrect, ClientStep, PTL DEF Spec

\* Strict mode never uses the in-process servers, in-process mode never the
\* transport.
THEOREM ModesRespected == Spec => []ModeRespected
<1>1. ClientInv => ModeRespected
  BY DEF ClientInv
<1> QED
  BY <1>1, ClientInvariant, PTL

\* A search raises only in strict mode, or when its client has been closed.
THEOREM SearchesAlwaysDegrade == Spec => []SearchesDegrade
<1>1. ClientInv => SearchesDegrade
  BY DEF ClientInv
<1> QED
  BY <1>1, ClientInvariant, PTL

\* The diagnostics report the in-process fallback whenever it is in use.
THEOREM FallbackAlwaysReported == Spec => []FallbackReported
<1>1. ClientInv => FallbackReported
  BY DEF ClientInv
<1> QED
  BY <1>1, ClientInvariant, PTL

\* The count and the recovery time of a breaker agree, whatever the threads
\* report and in whichever order.
THEOREM BreakersConsistent == Spec => []BreakerConsistent
<1>1. ClientInv => BreakerConsistent
  BY DEF ClientInv
<1> QED
  BY <1>1, ClientInvariant, PTL

-----------------------------------------------------------------------------

\* The calls under way to a server are finitely many, no more than threads,
\* and fewer when some thread is elsewhere.
LEMMA PrimariesFinite ==
  ASSUME NEW s
  PROVE  /\ IsFiniteSet(Primaries(s)) /\ Cardinality(Primaries(s)) \in Nat
         /\ Cardinality(Threads) \in Nat
         /\ \A t \in Threads : t \notin Primaries(s) =>
              Cardinality(Primaries(s)) < Cardinality(Threads)
<1>1. Primaries(s) \subseteq Threads
  BY DEF Primaries
<1>2. /\ IsFiniteSet(Primaries(s)) /\ Cardinality(Primaries(s)) \in Nat
      /\ Cardinality(Threads) \in Nat
  BY <1>1, Assumption, FS_Subset, FS_CardinalityType DEF Assumption
<1>3. ASSUME NEW t \in Threads, t \notin Primaries(s)
      PROVE  Cardinality(Primaries(s)) < Cardinality(Threads)
  <2>1. /\ Cardinality(Primaries(s)) <= Cardinality(Threads)
        /\ Cardinality(Primaries(s)) = Cardinality(Threads)
             => Primaries(s) = Threads
    BY <1>1, Assumption, FS_Subset DEF Assumption
  <2> QED
    BY <2>1, <1>2, <1>3
<1> QED
  BY <1>2, <1>3

\* A step that admits no call to a server, touches neither its breaker nor
\* turns the clock back, lets nobody in.
LEMMA NobodyIn ==
  ASSUME TypeOK, TypeOK', NEW s \in Servers,
         openUntil[s] > now =>
           Cardinality(Primaries(s)) + failures[s] - openedAt[s]
             < Cardinality(Threads),
         openUntil'[s] > now' => Primaries(s)' \subseteq Primaries(s),
         failures'[s] = failures[s], openUntil'[s] = openUntil[s],
         openedAt'[s] = openedAt[s], now' >= now
  PROVE  openUntil'[s] > now' =>
           Cardinality(Primaries(s)') + failures'[s] - openedAt'[s]
             < Cardinality(Threads)
<1> SUFFICES ASSUME openUntil'[s] > now'
             PROVE  Cardinality(Primaries(s)') + failures'[s] - openedAt'[s]
                      < Cardinality(Threads)
  OBVIOUS
<1>1. openUntil[s] > now
  BY DEF TypeOK
<1>2. /\ Cardinality(Primaries(s)') \in Nat
      /\ Cardinality(Primaries(s)') <= Cardinality(Primaries(s))
  BY PrimariesFinite, FS_Subset, FS_CardinalityType
<1>3. Cardinality(Primaries(s)) \in Nat /\ Cardinality(Threads) \in Nat
  BY PrimariesFinite
<1>4. failures[s] \in Nat /\ openedAt[s] \in Nat
  BY DEF TypeOK
<1> QED
  BY <1>1, <1>2, <1>3, <1>4

\* A call that fails while its circuit is open takes the place of the call it
\* was; one that opens the circuit is no longer under way.
LEMMA FailureLetsNobodyIn ==
  ASSUME TypeOK, BreakerConsistent, OpenLetsNobodyIn,
         NEW t \in Threads, PrimaryRaises(t)
  PROVE  OpenLetsNobodyIn'
<1> USE Assumption DEF TypeOK
<1> PICK s \in Servers : s = server[t]
  OBVIOUS
<1>1. /\ Threshold \in Nat /\ Recovery \in Nat
      /\ failures[s] \in Nat /\ openUntil[s] \in Nat /\ openedAt[s] \in Nat
      /\ now \in Nat /\ now' = now
  BY DEF PrimaryRaises
<1>2. t \in Primaries(s)
  BY DEF PrimaryRaises, Primaries
<1>3. Primaries(s)' = Primaries(s) \ {t}
  BY DEF PrimaryRaises, GoTo, Primaries, Fallback
<1>4. \A r \in Servers \ {s} : Primaries(r)' = Primaries(r)
  BY DEF PrimaryRaises, GoTo, Primaries, Fallback
<1>5. /\ Cardinality(Primaries(s)) \in Nat /\ Cardinality(Threads) \in Nat
      /\ Cardinality(Primaries(s)') = Cardinality(Primaries(s)) - 1
      /\ Cardinality(Primaries(s)) <= Cardinality(Threads)
  <2>1. Primaries(s) \subseteq Threads
    BY DEF Primaries
  <2> QED
    BY <1>2, <1>3, <2>1, PrimariesFinite, FS_RemoveElement, FS_Subset
<1>6. failures'[s] = failures[s] + 1
  BY <1>1 DEF PrimaryRaises, Failure
<1>7. openUntil[s] > 0 => failures'[s] >= Threshold
  BY <1>1, <1>6 DEF BreakerConsistent
<1>8. openUntil'[s] > now' =>
        Cardinality(Primaries(s)') + failures'[s] - openedAt'[s]
          < Cardinality(Threads)
  <2>1. CASE openUntil[s] > now
    <3>1. openedAt'[s] = openedAt[s]
      BY <1>1, <2>1 DEF PrimaryRaises, Failure, Allow
    <3>2. Cardinality(Primaries(s)) + failures[s] - openedAt[s]
            < Cardinality(Threads)
      BY <1>1, <2>1 DEF OpenLetsNobodyIn
    <3> QED
      BY <1>1, <1>5, <1>6, <3>1, <3>2
  <2>2. CASE ~(openUntil[s] > now) /\ failures'[s] >= Threshold
    <3>1. openedAt'[s] = failures'[s]
      BY <1>1, <2>2 DEF PrimaryRaises, Failure, Allow
    <3> QED
      BY <1>1, <1>5, <1>6, <3>1
  <2>3. CASE ~(openUntil[s] > now) /\ ~(failures'[s] >= Threshold)
    BY <1>1, <2>3 DEF PrimaryRaises, Failure
  <2> QED
    BY <2>1, <2>2, <2>3
<1>9. ASSUME NEW r \in Servers \ {s}
      PROVE  /\ failures'[r] = failures[r] /\ openUntil'[r] = openUntil[r]
             /\ openedAt'[r] = openedAt[r]
  BY DEF PrimaryRaises, Failure
<1>10. ASSUME NEW r \in Servers, r # s, openUntil'[r] > now'
       PROVE  Cardinality(Primaries(r)') + failures'[r] - openedAt'[r]
                < Cardinality(Threads)
  <2>1. openUntil[r] > now
    BY <1>1, <1>9, <1>10
  <2> QED
    BY <1>4, <1>9, <1>10, <2>1 DEF OpenLetsNobodyIn
<1>11. \A r \in Servers :
         openUntil'[r] > now' =>
           Cardinality(Primaries(r)') + failures'[r] - openedAt'[r]
             < Cardinality(Threads)
  BY <1>8, <1>10
<1> QED
  BY <1>11 DEF OpenLetsNobodyIn

\* Every step keeps the doors of open circuits shut.
LEMMA NobodyInStep ==
  TypeOK /\ TypeOK' /\ BreakerConsistent /\ OpenLetsNobodyIn /\ [Next]_vars
    => OpenLetsNobodyIn'
<1> SUFFICES ASSUME TypeOK, TypeOK', BreakerConsistent, OpenLetsNobodyIn,
                    [Next]_vars
             PROVE  OpenLetsNobodyIn'
  OBVIOUS
<1>1. CASE \E t \in Threads : PrimaryRaises(t)
  BY <1>1, FailureLetsNobodyIn
<1>2. ASSUME NEW t \in Threads, PrimaryAnswers(t) PROVE OpenLetsNobodyIn'
  <2> DEFINE s == server[t]
  <2>1. openUntil'[s] = 0 /\ now' \in Nat
    BY <1>2 DEF TypeOK, PrimaryAnswers, Success
  <2>2. ASSUME NEW r \in Servers \ {s}
        PROVE  /\ Primaries(r)' = Primaries(r) /\ failures'[r] = failures[r]
               /\ openUntil'[r] = openUntil[r]
               /\ openedAt'[r] = openedAt[r] /\ now' = now
    BY <1>2 DEF TypeOK, PrimaryAnswers, Success, GoTo, Primaries, client
  <2> QED
    BY <2>1, <2>2 DEF OpenLetsNobodyIn
<1>3. ASSUME UNCHANGED breaker, now' \in Nat, now' >= now,
             \A s \in Servers : openUntil'[s] > now' =>
               Primaries(s)' \subseteq Primaries(s)
      PROVE  OpenLetsNobodyIn'
  BY <1>3, NobodyIn DEF OpenLetsNobodyIn, breaker
<1>4. CASE Start \/ Ready \/ Close \/ Tick \/ Over \/ UNCHANGED vars
  <2>1. UNCHANGED <<breaker, pc, server>> /\ now' \in Nat /\ now' >= now
    BY <1>4 DEF TypeOK, Start, Ready, Close, Tick, Over, vars, client
  <2> QED
    BY <1>3, <2>1 DEF Primaries
<1>5. ASSUME NEW t \in Threads,
             \/ \E s \in Servers : Call(t, s)
             \/ TransportAnswers(t) \/ TransportFails(t) \/ Repeat(t)
      PROVE  OpenLetsNobodyIn'
  <2>1. UNCHANGED <<breaker, now>> /\ now' \in Nat /\ now' >= now
    BY <1>5 DEF TypeOK, Call, TransportAnswers, TransportFails, Repeat
  <2>2. \A s \in Servers : Primaries(s)' \subseteq Primaries(s)
    BY <1>5 DEF TypeOK, Call, TransportAnswers, TransportFails, Repeat,
       FallBack, GoTo, Primaries
  <2> QED
    BY <1>3, <2>1, <2>2
<1>6. ASSUME NEW t \in Threads, Admit(t) PROVE OpenLetsNobodyIn'
  <2>1. UNCHANGED <<breaker, now>> /\ now' \in Nat /\ now' >= now
    BY <1>6 DEF TypeOK, Admit
  <2>2. ASSUME NEW s \in Servers, openUntil'[s] > now'
        PROVE  Primaries(s)' \subseteq Primaries(s)
    <3>1. ~Allow(s)
      BY <2>1, <2>2 DEF TypeOK, Allow, breaker
    <3> QED
      BY <1>6, <3>1 DEF TypeOK, Admit, Fallback, GoTo, Primaries
  <2> QED
    BY <1>3, <2>1, <2>2
<1> QED
  BY <1>1, <1>2, <1>4, <1>5, <1>6 DEF Next, ThreadStep

\* An open circuit lets nobody in: whatever the threads do, the calls that
\* can still fail were under way when it opened.
THEOREM OpenCircuitsShut == Spec => []OpenLetsNobodyIn
<1>1. Init => OpenLetsNobodyIn
  BY DEF Init, OpenLetsNobodyIn
<1>2. ClientInv => BreakerConsistent
  BY DEF ClientInv
<1> QED
  BY <1>1, <1>2, TypeCorrect, ClientInvariant, NobodyInStep, PTL DEF Spec

-----------------------------------------------------------------------------
(* The contract of the breakers.                                           *)

\* Who is inside changes only by a thread that comes to or leaves "primary".
LEMMA InsideSame ==
  ASSUME NEW s,
         \A t \in Threads :
           (pc'[t] = "primary" /\ server'[t] = s)
             <=> (pc[t] = "primary" /\ server[t] = s)
  PROVE  Primaries(s)' = Primaries(s)
BY DEF Primaries

\* The steps of a thread that are not about its breaker.
LEMMA Outside ==
  ASSUME TypeOK, NEW t \in Threads, pc[t] # "primary",
         NEW p \in Places \ {"primary"}, GoTo(t, p),
         \A u \in Threads \ {t} : server'[u] = server[u]
  PROVE  \A s \in Servers : Primaries(s)' = Primaries(s)
<1> SUFFICES ASSUME NEW s \in Servers PROVE Primaries(s)' = Primaries(s)
  OBVIOUS
<1>1. pc'[t] = p /\ \A u \in Threads \ {t} : pc'[u] = pc[u]
  BY DEF GoTo, TypeOK
<1> QED
  BY <1>1, InsideSame

\* A thread that is let in, and one that reports.
LEMMA ComesIn ==
  ASSUME TypeOK, NEW t \in Threads, pc[t] # "primary", GoTo(t, "primary"),
         UNCHANGED server
  PROVE  \A s \in Servers :
           Primaries(s)' = IF s = server[t] THEN Primaries(s) \cup {t}
                           ELSE Primaries(s)
<1>1. pc'[t] = "primary" /\ \A u \in Threads \ {t} : pc'[u] = pc[u]
  BY DEF GoTo, TypeOK
<1> QED
  BY <1>1 DEF Primaries

LEMMA GoesOut ==
  ASSUME TypeOK, NEW t \in Threads, pc[t] = "primary",
         NEW p \in Places \ {"primary"}, GoTo(t, p), UNCHANGED server
  PROVE  \A s \in Servers :
           Primaries(s)' = IF s = server[t] THEN Primaries(s) \ {t}
                           ELSE Primaries(s)
<1>1. pc'[t] = p /\ \A u \in Threads \ {t} : pc'[u] = pc[u]
  BY DEF GoTo, TypeOK
<1> QED
  BY <1>1 DEF Primaries

Inside == [s \in Servers |-> Primaries(s)]

\* A step that leaves the breakers, who is inside and the clock alone is a
\* stutter of the contract.
LEMMA Stutters ==
  ASSUME UNCHANGED <<openUntil, failures, now>>,
         \A s \in Servers : Primaries(s)' = Primaries(s)
  PROVE  UNCHANGED Breakers!vars
<1>1. Inside' = Inside
  BY DEF Inside
<1>2. Circuit' = Circuit
  BY DEF Circuit
<1> QED
  BY <1>1, <1>2 DEF Breakers!vars, Inside

\* What a report makes of a circuit.
LEMMA CircuitAfter ==
  ASSUME TypeOK, BreakerConsistent, NEW s \in Servers
  PROVE  /\ Success(s) =>
              Circuit' = [Circuit EXCEPT ![s] = Breakers!Closed(0)]
         /\ Failure(s) =>
              Circuit' = [Circuit EXCEPT ![s] =
                IF Circuit[s].state = "closed"
                     /\ Circuit[s].failures + 1 < Threshold
                THEN Breakers!Closed(Circuit[s].failures + 1)
                ELSE Breakers!Tripped(now + Recovery)]
<1> USE DEF TypeOK, Breakers!Closed, Breakers!Tripped
<1>1. ASSUME Success(s)
      PROVE  Circuit' = [Circuit EXCEPT ![s] = Breakers!Closed(0)]
  BY <1>1 DEF Success, Circuit
<1>2. ASSUME Failure(s)
      PROVE  Circuit' = [Circuit EXCEPT ![s] =
               IF Circuit[s].state = "closed"
                    /\ Circuit[s].failures + 1 < Threshold
               THEN Breakers!Closed(Circuit[s].failures + 1)
               ELSE Breakers!Tripped(now + Recovery)]
  <2>1. /\ failures' = [failures EXCEPT ![s] = failures[s] + 1]
        /\ openUntil' = [openUntil EXCEPT ![s] =
             IF failures[s] + 1 >= Threshold THEN now + Recovery ELSE @]
    BY <1>2 DEF Failure
  <2>2. failures[s] \in Nat /\ openUntil[s] \in Nat /\ Threshold \in Nat
        /\ now + Recovery # 0
    BY Assumption
  <2>3. CASE failures[s] + 1 >= Threshold
    <3>1. Circuit[s].state = "closed" =>
            ~ (Circuit[s].failures + 1 < Threshold)
      BY <2>2, <2>3 DEF Circuit
    <3>2. Circuit' = [Circuit EXCEPT ![s] = Breakers!Tripped(now + Recovery)]
      BY <2>1, <2>2, <2>3 DEF Circuit
    <3> QED
      BY <3>1, <3>2
  <2>4. CASE ~ (failures[s] + 1 >= Threshold)
    <3>1. openUntil[s] = 0
      BY <2>2, <2>4 DEF BreakerConsistent
    <3>2. Circuit[s] = Breakers!Closed(failures[s])
      BY <3>1 DEF Circuit
    <3>3. Circuit' = [Circuit EXCEPT ![s] = Breakers!Closed(failures[s] + 1)]
      BY <2>1, <2>2, <2>4, <3>1 DEF Circuit
    <3>4. /\ Circuit[s].state = "closed" /\ Circuit[s].failures = failures[s]
          /\ Circuit[s].failures + 1 < Threshold
      BY <2>2, <2>4, <3>2
    <3> HIDE DEF Breakers!Closed, Breakers!Tripped
    <3> QED
      BY <3>3, <3>4
  <2> QED
    BY <2>3, <2>4
<1> QED
  BY <1>1, <1>2

\* An admitted call enters the contract.
LEMMA AdmitEnters ==
  ASSUME TypeOK, NEW t \in Threads, Admit(t)
  PROVE  [Breakers!Next]_Breakers!vars
<1>1. /\ pc[t] = "admit" /\ UNCHANGED <<failures, openUntil, now, server>>
      /\ GoTo(t, IF Allow(server[t]) THEN "primary" ELSE Fallback(server[t]))
      /\ server[t] \in Servers
  BY DEF Admit, breaker, TypeOK
<1>2. CASE Allow(server[t])
  <2>1. \A s \in Servers :
          Primaries(s)' = IF s = server[t] THEN Primaries(s) \cup {t}
                          ELSE Primaries(s)
    BY <1>1, <1>2, ComesIn
  <2>2. Inside' = [Inside EXCEPT ![server[t]] = @ \cup {t}]
    BY <1>1, <2>1 DEF Inside
  <2>3. Circuit' = Circuit
    BY <1>1 DEF Circuit
  <2>4. Breakers!LetsIn(server[t])
    BY <1>1, <1>2 DEF Breakers!LetsIn, Allow, Circuit
  <2>5. \A r \in Servers : t \notin Inside[r]
    BY <1>1 DEF Inside, Primaries
  <2> QED
    BY <1>1, <2>2, <2>3, <2>4, <2>5 DEF Breakers!Next, Breakers!Enter, Inside
<1>3. CASE ~ Allow(server[t])
  <2>1. Fallback(server[t]) \in Places \ {"primary"}
    BY DEF Fallback, Places, Fallen
  <2>2. \A s \in Servers : Primaries(s)' = Primaries(s)
    BY <1>1, <1>3, <2>1, Outside
  <2> QED
    BY <1>1, <2>2, Stutters
<1> QED
  BY <1>2, <1>3

\* A report leaves it.
LEMMA ReportLeaves ==
  ASSUME TypeOK, BreakerConsistent, NEW t \in Threads,
         PrimaryAnswers(t) \/ PrimaryRaises(t)
  PROVE  [Breakers!Next]_Breakers!vars
<1>1. /\ pc[t] = "primary" /\ UNCHANGED <<now, server>>
      /\ server[t] \in Servers
      /\ t \in Inside[server[t]]
  BY DEF PrimaryAnswers, PrimaryRaises, TypeOK, Inside, Primaries
<1>2. PICK p \in Places \ {"primary"} : GoTo(t, p)
  BY DEF PrimaryAnswers, PrimaryRaises, Places, Fallen, Fallback
<1>3. Inside' = [Inside EXCEPT ![server[t]] = @ \ {t}]
  BY <1>1, <1>2, GoesOut DEF Inside
<1>4. CASE PrimaryAnswers(t)
  <2>1. Circuit' = [Circuit EXCEPT ![server[t]] = Breakers!Closed(0)]
    BY <1>1, <1>4, CircuitAfter DEF PrimaryAnswers
  <2> QED
    BY <1>1, <1>3, <2>1
       DEF Breakers!Next, Breakers!Succeed, Breakers!Leave, Inside
<1>5. CASE PrimaryRaises(t)
  <2>1. Circuit' = [Circuit EXCEPT ![server[t]] =
          IF Circuit[server[t]].state = "closed"
               /\ Circuit[server[t]].failures + 1 < Threshold
          THEN Breakers!Closed(Circuit[server[t]].failures + 1)
          ELSE Breakers!Tripped(now + Recovery)]
    BY <1>1, <1>5, CircuitAfter DEF PrimaryRaises
  <2> QED
    BY <1>1, <1>3, <2>1
       DEF Breakers!Next, Breakers!Fail, Breakers!Leave, Inside
<1> QED
  BY <1>4, <1>5

\* Every behaviour of the client is one of the contract of its breakers: an
\* admitted call enters, its report leaves with a new circuit, the clock
\* waits, and everything else stutters.
THEOREM BreakersImplemented == Spec => ImplementsBreakers
<1>1. Init => Breakers!Init
  <2> SUFFICES ASSUME Init PROVE Breakers!Init
    OBVIOUS
  <2>1. Circuit = [s \in Servers |-> Breakers!Closed(0)]
    BY DEF Init, Circuit, Breakers!Closed
  <2>2. [s \in Servers |-> Primaries(s)] = [s \in Servers |-> {}]
    BY DEF Init, Primaries
  <2> QED
    BY <2>1, <2>2 DEF Init, Breakers!Init
<1>2. TypeOK /\ BreakerConsistent /\ [Next]_vars
        => [Breakers!Next]_Breakers!vars
  <2> SUFFICES ASSUME TypeOK, BreakerConsistent, [Next]_vars
               PROVE  [Breakers!Next]_Breakers!vars
    OBVIOUS
  <2>1. CASE Start \/ Ready \/ Close \/ UNCHANGED vars
    <3>1. UNCHANGED <<failures, openUntil, now, pc, server>>
      BY <2>1 DEF Start, Ready, Close, vars, breaker
    <3> QED
      BY <3>1, InsideSame, Stutters
  <2>2. CASE Tick
    <3>1. UNCHANGED <<failures, openUntil, pc, server>> /\ now' = now + 1
      BY <2>2 DEF Tick, breaker
    <3>2. Circuit' = Circuit
      BY <3>1 DEF Circuit
    <3>3. [s \in Servers |-> Primaries(s)]' = [s \in Servers |-> Primaries(s)]
      BY <3>1, InsideSame
    <3> QED
      BY <3>1, <3>2, <3>3 DEF Breakers!Next, Breakers!Wait, TypeOK
  <2>3. ASSUME NEW t \in Threads, ThreadStep(t)
        PROVE  [Breakers!Next]_Breakers!vars
    <3>1. ASSUME NEW s \in Servers, Call(t, s)
          PROVE  [Breakers!Next]_Breakers!vars
      <4>1. /\ UNCHANGED <<failures, openUntil, now>> /\ pc[t] # "primary"
            /\ server' = [server EXCEPT ![t] = s]
        BY <3>1 DEF Call, breaker, Waiting
      <4>2. PICK p \in Places \ {"primary"} : GoTo(t, p)
        BY <3>1 DEF Call, FallBack, Places, Fallen
      <4>3. \A u \in Threads \ {t} : server'[u] = server[u]
        BY <4>1 DEF TypeOK
      <4> QED
        BY <4>1, <4>2, <4>3, Outside, Stutters
    <3>2. CASE TransportAnswers(t) \/ TransportFails(t) \/ Repeat(t)
      <4>1. /\ UNCHANGED <<failures, openUntil, now, server>>
            /\ pc[t] # "primary"
        BY <3>2 DEF TransportAnswers, TransportFails, Repeat, breaker
      <4>2. PICK p \in Places \ {"primary"} : GoTo(t, p)
        BY <3>2 DEF TransportAnswers, TransportFails, Repeat, FallBack,
                    Places, Fallen
      <4> QED
        BY <4>1, <4>2, Outside, Stutters
    <3> QED
      BY <2>3, <3>1, <3>2, AdmitEnters, ReportLeaves DEF ThreadStep
  <2> QED
    BY <2>1, <2>2, <2>3 DEF Next, Over
<1>3. ClientInv => BreakerConsistent
  BY DEF ClientInv
<1> QED
  BY <1>1, <1>2, <1>3, TypeCorrect, ClientInvariant, PTL
     DEF Spec, ImplementsBreakers, Breakers!Spec

-----------------------------------------------------------------------------
(* The requests of a call.                                                 *)

\* What a call has sent, by where it is: an attempt sends PerAttempt requests
\* at the most, and a text search is left for the instant answers when its
\* last query has been asked.
CallOK(t) ==
  LET before == t.attempt * PerAttempt(t.provider) IN
  /\ t.at \in {"idle", "acquire"} => t.attempt = 0 /\ t.sent = 0
  /\ t.at \in {"text", "naming", "instant", "clean"} => t.provider = "ddg"
  /\ t.at = "attempt" => t.sent <= before
  /\ t.at = "text" => t.asked < TextQueries /\ t.sent <= before + t.asked
  /\ t.at \in {"naming", "instant"} => t.sent <= before + TextQueries
  /\ t.at \in {"clean", "done"} => t.sent <= before + PerAttempt(t.provider)

GoodCalls == {t \in CallsType : CallOK(t)}

WebInv == WebTypeOK /\ thread \in [Callers -> GoodCalls]

\* The next attempt starts where the one before has sent all it may.
LEMMA NextAttempt ==
  ASSUME NEW t \in CallsType, t.sent <= (t.attempt + 1) * PerAttempt(t.provider)
  PROVE  /\ [t EXCEPT !.at = "done"] \in GoodCalls
         /\ RetriesLeft(t) =>
              [t EXCEPT !.at = "attempt", !.attempt = @ + 1] \in GoodCalls
<1> USE WebAssumption DEF CallsType
<1>1. PerAttempt(t.provider) \in 1 .. 3
  BY DEF PerAttempt
<1>2. (t.attempt + 1) * PerAttempt(t.provider)
        = t.attempt * PerAttempt(t.provider) + PerAttempt(t.provider)
  BY <1>1
<1>3. [t EXCEPT !.at = "done"] \in GoodCalls
  BY <1>1, <1>2 DEF GoodCalls, CallOK, WebStages
<1>4. ASSUME RetriesLeft(t)
      PROVE  [t EXCEPT !.at = "attempt", !.attempt = @ + 1] \in GoodCalls
  <2> DEFINE u == [t EXCEPT !.at = "attempt", !.attempt = @ + 1]
  <2>1. u \in CallsType
    <3>1. t.attempt + 1 \in 0 .. MaxRetries
      BY <1>4 DEF RetriesLeft
    <3>2. "attempt" \in WebStages
      BY DEF WebStages
    <3> QED
      BY <3>1, <3>2
  <2>2. /\ u.at = "attempt" /\ u.attempt = t.attempt + 1
        /\ u.sent = t.sent /\ u.provider = t.provider
    OBVIOUS
  <2> HIDE DEF u
  <2>3. CallOK(u)
    BY <2>2 DEF CallOK
  <2> QED
    BY <2>1, <2>3 DEF GoodCalls, u
<1> QED
  BY <1>3, <1>4

\* Replacing the call of one thread by a good one leaves all good.
LEMMA BecomeGood ==
  ASSUME WebInv, NEW c \in Callers, NEW t \in GoodCalls, Become(c, t)
  PROVE  thread' \in [Callers -> GoodCalls]
BY DEF WebInv, Become

LEMMA GoodTyped == GoodCalls \subseteq CallsType
BY DEF GoodCalls

\* A token that is granted or refused keeps the bucket within its bounds.
LEMMA RefilledBounds ==
  ASSUME WebTypeOK, NEW p \in Providers
  PROVE  Refilled(p) \in 0 .. Full /\ Full \in Nat /\ RefillTicks \in Nat \ {0}
<1>1. Full \in Nat
  BY WebAssumption DEF Full
<1>2. level[p] \in 0 .. Full /\ since[p] \in 0 .. Full
  BY DEF WebTypeOK
<1> QED
  BY <1>1, <1>2, WebAssumption DEF Refilled

\* The requests and the types are kept by every step.
LEMMA WebStep == WebInv /\ [WebNext]_webVars => WebInv'
<1> SUFFICES ASSUME WebInv, [WebNext]_webVars PROVE WebInv'
  OBVIOUS
<1>t. /\ ddgMode \in FallbackModes \cup {"none"}
      /\ level \in [Providers -> 0 .. Full]
      /\ since \in [Providers -> 0 .. Full]
      /\ degraded \in BOOLEAN /\ named \in BOOLEAN
      /\ answer \in [Callers -> Answers] /\ excess \in [Providers -> Nat]
      /\ Full \in Nat
  BY WebAssumption DEF WebInv, WebTypeOK, Full
<1>g. \A c \in Callers : thread[c] \in GoodCalls /\ thread[c] \in CallsType
  BY GoodTyped DEF WebInv
<1>f. ASSUME thread' \in [Callers -> GoodCalls],
             answer' \in [Callers -> Answers],
             named' \in BOOLEAN, degraded' \in BOOLEAN,
             UNCHANGED <<ddgMode, level, since, excess>>
      PROVE  WebInv'
  BY <1>t, <1>f, GoodTyped DEF WebInv, WebTypeOK
<1>a. ASSUME NEW c \in Callers, NEW a \in Answers, Return(c, a),
             thread' \in [Callers -> GoodCalls],
             UNCHANGED <<degraded, named>> \/ TRUE
      PROVE  WebInv'
  BY <1>t, <1>a, <1>f DEF Return
<1>r. ASSUME NEW c \in Callers, NEW t \in CallsType,
             t.sent <= (t.attempt + 1) * PerAttempt(t.provider),
             AttemptRaises(c, t)
      PROVE  WebInv'
  <2>1. CASE RetriesLeft(t) /\ Return(c, "none")
             /\ Become(c, [t EXCEPT !.at = "attempt", !.attempt = @ + 1])
    BY <1>a, <1>r, <2>1, NextAttempt, BecomeGood DEF Answers
  <2>2. CASE \E a \in {"exhausted", "not_retryable"} :
               Return(c, a) /\ Become(c, [t EXCEPT !.at = "done"])
    BY <1>a, <1>r, <2>2, NextAttempt, BecomeGood DEF Answers
  <2> QED
    BY <1>r, <2>1, <2>2 DEF AttemptRaises
<1>s. ASSUME NEW c \in Callers, thread[c].at = "attempt",
             thread[c].provider # "ddg"
      PROVE  /\ Send(c) \in CallsType
             /\ Send(c).sent
                  <= (Send(c).attempt + 1) * PerAttempt(Send(c).provider)
             /\ [Send(c) EXCEPT !.at = "done"] \in GoodCalls
             /\ [thread[c] EXCEPT !.at = "done"] \in GoodCalls
  <2>1. PICK t \in GoodCalls : t = thread[c] /\ t \in CallsType
    BY <1>g
  <2>2. /\ t.at = "attempt" /\ PerAttempt(t.provider) = 1 /\ t.attempt \in Nat
        /\ t.sent \in Nat /\ t.sent <= t.attempt
    BY <1>s, <2>1, WebAssumption DEF GoodCalls, CallOK, CallsType, PerAttempt
  <2>3. /\ [t EXCEPT !.sent = @ + 1] \in CallsType
        /\ [t EXCEPT !.sent = @ + 1].sent = t.sent + 1
        /\ [t EXCEPT !.sent = @ + 1].attempt = t.attempt
        /\ [t EXCEPT !.sent = @ + 1].provider = t.provider
    BY <2>1, <2>2 DEF CallsType
  <2>4. /\ t.sent <= (t.attempt + 1) * PerAttempt(t.provider)
        /\ t.sent + 1 <= (t.attempt + 1) * PerAttempt(t.provider)
    BY <2>2
  <2>5. [t EXCEPT !.at = "done"] \in GoodCalls
    BY <2>1, <2>4, NextAttempt
  <2>6. PICK u \in CallsType : u = [t EXCEPT !.sent = @ + 1]
    BY <2>3
  <2>7. u.sent <= (u.attempt + 1) * PerAttempt(u.provider)
    BY <2>3, <2>4, <2>6
  <2>8. [u EXCEPT !.at = "done"] \in GoodCalls
    BY <2>7, NextAttempt
  <2>9. Send(c) = u
    BY <2>1, <2>6 DEF Send
  <2> QED
    BY <2>1, <2>5, <2>7, <2>8, <2>9
<1>1. CASE CreateServer
  BY <1>1, <1>t DEF CreateServer, WebInv, WebTypeOK
<1>2. CASE WebTick
  <2>1. thread' \in [Callers -> GoodCalls]
    <3>1. ASSUME NEW c \in Callers
          PROVE  [thread[c] EXCEPT !.sleep = OneLess(@)] \in GoodCalls
      BY <1>g, <3>1, WebAssumption DEF GoodCalls, CallsType, CallOK, OneLess
    <3> QED
      BY <1>2, <3>1 DEF WebTick
  <2>2. since' \in [Providers -> 0 .. Full]
    BY <1>2, <1>t DEF WebTick
  <2>3. excess' \in [Providers -> Nat]
    BY <1>2, <1>t DEF WebTick, OneLess
  <2> QED
    BY <1>2, <1>t, <2>1, <2>2, <2>3, GoodTyped DEF WebTick, WebInv, WebTypeOK
<1>3. ASSUME NEW c \in Callers, NEW p \in Providers, CallTool(c, p)
      PROVE  WebInv'
  <2>0. PICK t \in GoodCalls : t = thread[c] /\ t \in CallsType
    BY <1>g
  <2>2. t.at = "idle" /\ t.attempt = 0 /\ t.sent = 0
    BY <1>3, <2>0 DEF CallTool, GoodCalls, CallOK
  <2>3. PICK u \in CallsType :
          u = [t EXCEPT !.at = "acquire", !.provider = p]
    BY <2>0 DEF CallsType, WebStages
  <2>4. u.at = "acquire" /\ u.attempt = 0 /\ u.sent = 0
    BY <2>0, <2>2, <2>3 DEF CallsType
  <2>5. CallOK(u)
    BY <2>4 DEF CallOK
  <2>1. [thread[c] EXCEPT !.at = "acquire", !.provider = p] \in GoodCalls
    BY <2>0, <2>3, <2>5 DEF GoodCalls
  <2> QED
    BY <1>3, <1>t, <2>1, <1>f, BecomeGood DEF CallTool
<1>4. ASSUME NEW c \in Callers, Acquire(c) PROVE WebInv'
  <2>1. PICK p \in Providers : p = thread[c].provider
    BY <1>g DEF CallsType
  <2>2. Refilled(p) \in 0 .. Full /\ RefillTicks \in Nat \ {0}
    BY RefilledBounds DEF WebInv
  <2>3. since' \in [Providers -> 0 .. Full]
    BY <1>4, <1>t, <2>1 DEF Acquire
  <2>4. level' \in [Providers -> 0 .. Full] /\ excess' \in [Providers -> Nat]
    BY <1>4, <1>t, <2>1, <2>2 DEF Acquire, Enough, Left
  <2>5. [thread[c] EXCEPT !.at = "attempt"] \in GoodCalls
    BY <1>4, <1>g, WebAssumption
    DEF Acquire, GoodCalls, CallsType, CallOK, WebStages, PerAttempt
  <2>6. ~Enough(p) =>
          [thread[c] EXCEPT !.sleep = RefillTicks - Refilled(p)] \in GoodCalls
    BY <1>g, <2>2 DEF GoodCalls, CallsType, CallOK, Enough
  <2>7. thread' \in [Callers -> GoodCalls]
    BY <1>4, <2>1, <2>5, <2>6, BecomeGood DEF Acquire
  <2> QED
    BY <1>4, <1>t, <2>3, <2>4, <2>7, GoodTyped DEF Acquire, WebInv, WebTypeOK
<1>5. ASSUME NEW c \in Callers, TavilyAttempt(c) \/ FirecrawlAttempt(c)
      PROVE  WebInv'
  <2>1. thread[c].at = "attempt" /\ thread[c].provider # "ddg"
    BY <1>5 DEF TavilyAttempt, FirecrawlAttempt
  <2>2. CASE AttemptRaises(c, Send(c))
    BY <1>r, <1>s, <2>1, <2>2
  <2>3. CASE \E a \in Answers :
               Return(c, a) /\ Become(c, [Send(c) EXCEPT !.at = "done"])
    BY <1>a, <1>s, <2>1, <2>3, BecomeGood
  <2>4. CASE Unavailable(c)
    BY <1>a, <1>s, <2>1, <2>4, BecomeGood DEF Unavailable, Answers
  <2> QED
    BY <1>5, <2>2, <2>3, <2>4 DEF TavilyAttempt, FirecrawlAttempt, Answers
<1>6. ASSUME NEW c \in Callers, DdgAttempt(c) PROVE WebInv'
  <2> DEFINE saw == CASE degraded /\ named -> "named"
                      [] degraded /\ ~named -> "flag"
                      [] OTHER -> "nothing"
             at == IF TextQueries > 0 /\ ~degraded THEN "text" ELSE "instant"
  <2>1. saw \in {"nothing", "flag", "named"}
    OBVIOUS
  <2>2. at \in {"text", "instant"} /\ (at = "text" => TextQueries > 0)
    OBVIOUS
  <2> HIDE DEF saw, at
  <2>3. [thread[c] EXCEPT !.at = at, !.asked = 0, !.docs = FALSE, !.saw = saw]
          \in GoodCalls
    <3>1. PICK t \in GoodCalls :
            /\ t = thread[c] /\ t \in CallsType
            /\ t.at = "attempt" /\ t.provider = "ddg"
      BY <1>6, <1>g DEF DdgAttempt
    <3> DEFINE u == [t EXCEPT !.at = at, !.asked = 0, !.docs = FALSE,
                              !.saw = saw]
    <3>2. u \in CallsType
      <4>1. at \in WebStages
        BY <2>2 DEF WebStages
      <4>2. 0 \in 0 .. TextQueries
        BY WebAssumption
      <4> QED
        BY <2>1, <3>1, <4>1, <4>2 DEF CallsType
    <3>3. /\ u.at = at /\ u.asked = 0 /\ u.sent = t.sent
          /\ u.attempt = t.attempt /\ u.provider = "ddg"
      BY <3>1 DEF CallsType
    <3>4. t.sent <= t.attempt * PerAttempt("ddg")
      BY <3>1 DEF GoodCalls, CallOK
    <3> HIDE DEF u
    <3>5. CallOK(u)
      <4>1. PICK b \in Nat : b = t.attempt * PerAttempt("ddg")
        BY <3>1, WebAssumption DEF CallsType, PerAttempt
      <4>2. u.sent <= b /\ u.attempt * PerAttempt(u.provider) = b
        BY <3>3, <3>4, <4>1
      <4>3. u.sent \in Nat
        BY <3>2 DEF CallsType
      <4> QED
        BY <2>2, <3>3, <4>1, <4>2, <4>3, WebAssumption DEF CallOK
    <3> QED
      BY <3>1, <3>2, <3>5 DEF GoodCalls, u
  <2> QED
    BY <1>6, <1>t, <1>f, <2>3, BecomeGood DEF DdgAttempt, saw, at
<1>7. ASSUME NEW c \in Callers, DdgText(c) PROVE WebInv'
  <2>1. PICK t \in GoodCalls :
          /\ t = thread[c] /\ t \in CallsType
          /\ t.at = "text" /\ t.provider = "ddg"
    BY <1>7, <1>g DEF DdgText, GoodCalls, CallOK
  <2>2. PICK found \in BOOLEAN, enough \in BOOLEAN :
          Become(c, [Send(c) EXCEPT
                       !.docs = @ \/ found,
                       !.asked = @ + 1,
                       !.at = IF enough \/ thread[c].asked + 1 = TextQueries
                                THEN "instant" ELSE "text"])
    BY <1>7 DEF DdgText
  <2>3. ASSUME NEW d \in BOOLEAN, NEW at \in {"text", "instant"},
               at = "text" => t.asked + 1 # TextQueries
        PROVE  [t EXCEPT !.sent = @ + 1, !.docs = d, !.asked = @ + 1, !.at = at]
                 \in GoodCalls
    <3> DEFINE u == [t EXCEPT !.sent = @ + 1, !.docs = d, !.asked = @ + 1,
                              !.at = at]
    <3>1. PICK b \in Nat : b = t.attempt * PerAttempt("ddg")
      BY <2>1, WebAssumption DEF CallsType, PerAttempt
    <3>2. /\ t.asked < TextQueries /\ t.sent <= b + t.asked
          /\ t.asked \in Nat /\ t.sent \in Nat /\ TextQueries \in Nat
      BY <2>1, <3>1, WebAssumption DEF GoodCalls, CallOK, CallsType
    <3>3. u \in CallsType
      <4>1. at \in WebStages
        BY <2>3 DEF WebStages
      <4>2. t.asked + 1 \in 0 .. TextQueries /\ t.sent + 1 \in Nat
        BY <3>2
      <4> QED
        BY <2>1, <2>3, <4>1, <4>2 DEF CallsType
    <3>4. /\ u.at = at /\ u.asked = t.asked + 1 /\ u.sent = t.sent + 1
          /\ u.attempt = t.attempt /\ u.provider = "ddg"
      BY <2>1 DEF CallsType
    <3> HIDE DEF u
    <3>5. u.attempt * PerAttempt(u.provider) = b
      BY <3>1, <3>4
    <3>6. CallOK(u)
      BY <2>3, <3>1, <3>2, <3>4, <3>5 DEF CallOK
    <3> QED
      BY <3>3, <3>6 DEF GoodCalls, u
  <2>4. thread' \in [Callers -> GoodCalls]
    <3> DEFINE d == t.docs \/ found
               at == IF enough \/ t.asked + 1 = TextQueries
                     THEN "instant" ELSE "text"
    <3>1. d \in BOOLEAN
      BY <2>1 DEF CallsType
    <3>2. /\ at \in {"text", "instant"}
          /\ at = "text" => t.asked + 1 # TextQueries
      OBVIOUS
    <3>3. [t EXCEPT !.sent = @ + 1, !.docs = d, !.asked = @ + 1, !.at = at]
            \in GoodCalls
      BY <2>3, <3>1, <3>2
    <3>4. Become(c, [t EXCEPT !.sent = @ + 1, !.docs = d, !.asked = @ + 1,
                              !.at = at])
      BY <2>1, <2>2 DEF Send, CallsType
    <3> QED
      BY <3>3, <3>4, BecomeGood
  <2> QED
    BY <1>7, <1>t, <1>f, <2>4 DEF DdgText
<1>8. ASSUME NEW c \in Callers, DdgDegrades(c) \/ DdgNames(c) PROVE WebInv'
  <2>1. PICK t \in GoodCalls : t = thread[c] /\ t \in CallsType
    BY <1>g
  <2>2. DdgDegrades(c) =>
          [[t EXCEPT !.sent = @ + 1] EXCEPT !.at = "naming"] \in GoodCalls
    <3> SUFFICES ASSUME DdgDegrades(c)
                 PROVE  [[t EXCEPT !.sent = @ + 1] EXCEPT !.at = "naming"]
                          \in GoodCalls
      OBVIOUS
    <3> DEFINE u == [[t EXCEPT !.sent = @ + 1] EXCEPT !.at = "naming"]
    <3>1. t.at = "text" /\ t.provider = "ddg"
      BY <2>1 DEF DdgDegrades, GoodCalls, CallOK
    <3>2. PICK b \in Nat : b = t.attempt * PerAttempt("ddg")
      BY <2>1, WebAssumption DEF CallsType, PerAttempt
    <3>3. /\ t.asked < TextQueries /\ t.sent <= b + t.asked
          /\ t.asked \in Nat /\ t.sent \in Nat /\ TextQueries \in Nat
      BY <2>1, <3>1, <3>2, WebAssumption DEF GoodCalls, CallOK, CallsType
    <3>4. u \in CallsType
      <4>1. "naming" \in WebStages /\ t.sent + 1 \in Nat
        BY <3>3 DEF WebStages
      <4> QED
        BY <2>1, <4>1 DEF CallsType
    <3>5. /\ u.at = "naming" /\ u.sent = t.sent + 1
          /\ u.attempt = t.attempt /\ u.provider = "ddg"
      BY <2>1, <3>1 DEF CallsType
    <3> HIDE DEF u
    <3>6. u.attempt * PerAttempt(u.provider) = b
      BY <3>2, <3>5
    <3>7. CallOK(u)
      BY <3>2, <3>3, <3>5, <3>6 DEF CallOK
    <3> QED
      BY <3>4, <3>7 DEF GoodCalls, u
  <2>3. DdgNames(c) => [t EXCEPT !.at = "instant"] \in GoodCalls
    BY <2>1, WebAssumption
    DEF DdgNames, GoodCalls, CallsType, CallOK, WebStages, PerAttempt
  <2> QED
    BY <1>8, <1>t, <1>f, <2>1, <2>2, <2>3, BecomeGood
    DEF DdgDegrades, DdgNames, Send
<1>9. ASSUME NEW c \in Callers, DdgInstant(c) PROVE WebInv'
  <2>1. PICK t \in GoodCalls :
          /\ t = thread[c] /\ t \in CallsType
          /\ t.at = "instant" /\ t.provider = "ddg"
    BY <1>9, <1>g DEF DdgInstant, GoodCalls, CallOK
  <2>2. /\ t.sent <= t.attempt * PerAttempt("ddg") + TextQueries
        /\ PerAttempt("ddg") = TextQueries + 1 /\ TextQueries \in 0 .. 2
        /\ t.attempt \in Nat /\ t.sent \in Nat
    BY <2>1, WebAssumption DEF GoodCalls, CallsType, CallOK, PerAttempt
  <2>3. [t EXCEPT !.at = "clean"] \in GoodCalls
    BY <2>1, <2>2 DEF GoodCalls, CallsType, CallOK, WebStages
  <2>4. ASSUME NEW found \in BOOLEAN
        PROVE  [[t EXCEPT !.sent = @ + 1] EXCEPT !.at = "clean", !.docs = found]
                 \in GoodCalls
    <3> DEFINE u == [[t EXCEPT !.sent = @ + 1]
                        EXCEPT !.at = "clean", !.docs = found]
    <3>1. PICK b \in Nat : b = t.attempt * PerAttempt("ddg")
      BY <2>2
    <3>2. u \in CallsType
      <4>1. "clean" \in WebStages /\ t.sent + 1 \in Nat
        BY <2>2 DEF WebStages
      <4> QED
        BY <2>1, <2>4, <4>1 DEF CallsType
    <3>3. /\ u.at = "clean" /\ u.sent = t.sent + 1
          /\ u.attempt = t.attempt /\ u.provider = "ddg"
      BY <2>1 DEF CallsType
    <3> HIDE DEF u
    <3>4. u.attempt * PerAttempt(u.provider) = b
      BY <3>1, <3>3
    <3>5. CallOK(u)
      BY <2>2, <3>1, <3>3, <3>4 DEF CallOK
    <3> QED
      BY <3>2, <3>5 DEF GoodCalls, u
  <2>5. /\ Send(c) \in CallsType
        /\ Send(c).sent <= (Send(c).attempt + 1) * PerAttempt(Send(c).provider)
    <3>1. t.sent + 1 <= (t.attempt + 1) * PerAttempt("ddg")
      BY <2>2
    <3> QED
      BY <2>1, <2>2, <3>1 DEF Send, CallsType
  <2>6. CASE AttemptRaises(c, Send(c))
    BY <1>r, <2>5, <2>6
  <2>7. CASE ~AttemptRaises(c, Send(c))
    BY <1>9, <1>a, <2>1, <2>3, <2>4, <2>7, BecomeGood
    DEF DdgInstant, Send, Answers
  <2> QED
    BY <2>6, <2>7
<1>10. ASSUME NEW c \in Callers, DdgReturn(c) PROVE WebInv'
  <2>1. [thread[c] EXCEPT !.at = "done"] \in GoodCalls
    BY <1>10, <1>g DEF DdgReturn, GoodCalls, CallsType, CallOK, WebStages
  <2>2. \E a \in Answers : Return(c, a)
    BY <1>10 DEF DdgReturn, Answers
  <2> QED
    BY <1>10, <1>a, <2>1, <2>2, BecomeGood DEF DdgReturn
<1>11. CASE UNCHANGED webVars
  BY <1>11 DEF webVars, WebInv, WebTypeOK
<1> QED
  BY <1>1, <1>2, <1>3, <1>4, <1>5, <1>6, <1>7, <1>8, <1>9, <1>10, <1>11
  DEF WebNext

\* The object has not been made and no thread has called yet.
LEMMA WebInitGood == WebInit => WebInv
<1> SUFFICES ASSUME WebInit PROVE WebInv
  OBVIOUS
<1>1. NoCall \in CallsType
  BY WebAssumption DEF NoCall, CallsType, WebStages, Providers
<1>2. CallOK(NoCall)
  BY DEF NoCall, CallOK
<1>3. thread \in [Callers -> GoodCalls]
  BY <1>1, <1>2 DEF WebInit, GoodCalls
<1>4. /\ Full \in Nat /\ ddgMode = "none" /\ degraded = FALSE /\ named = FALSE
      /\ level = [p \in Providers |-> Full] /\ since = [p \in Providers |-> 0]
      /\ excess = [p \in Providers |-> 0]
  BY WebAssumption DEF WebInit, Full
<1>5. answer \in [Callers -> Answers]
  BY DEF WebInit, Answers
<1>6. level \in [Providers -> 0 .. Full] /\ since \in [Providers -> 0 .. Full]
  BY <1>4
<1>7. excess \in [Providers -> Nat]
  BY <1>4
<1> QED
  BY <1>3, <1>4, <1>5, <1>6, <1>7, GoodTyped DEF WebInv, WebTypeOK

\* The server, the buckets and the calls of the threads are well typed
\* (mcp_server/web_server.py, core/rate_limit.py).
THEOREM WebTypeCorrect == WebSpec => []WebTypeOK
<1>1. WebInit => WebInv
  BY WebInitGood
<1>2. WebInv => WebTypeOK
  BY DEF WebInv
<1> QED
  BY <1>1, <1>2, WebStep, PTL DEF WebSpec

-----------------------------------------------------------------------------
(* The rate.                                                               *)

\* What has been granted beyond what the time refills and what the bucket can
\* still grant are together never more than its burst: a grant moves tokens
\* from the one to the other, and a tick takes from the first what it adds to
\* the second.
BucketInv == \A p \in Providers : excess[p] + Refilled(p) <= Full

\* Every step keeps that.
LEMMA BucketStep ==
  WebTypeOK /\ WebTypeOK' /\ BucketInv /\ [WebNext]_webVars => BucketInv'
<1> SUFFICES ASSUME WebTypeOK, WebTypeOK', BucketInv, [WebNext]_webVars,
                    NEW p \in Providers
             PROVE  (excess[p] + Refilled(p) <= Full)'
  BY DEF BucketInv
<1>t. /\ level \in [Providers -> 0 .. Full]
      /\ since \in [Providers -> 0 .. Full]
      /\ excess \in [Providers -> Nat]
      /\ Full \in Nat /\ RefillTicks \in Nat \ {0}
      /\ level[p] \in 0 .. Full /\ since[p] \in 0 .. Full /\ excess[p] \in Nat
      /\ excess[p] + Refilled(p) <= Full
  BY WebAssumption DEF WebTypeOK, Full, BucketInv
<1>1. CASE UNCHANGED <<level, since, excess>>
  BY <1>1, <1>t DEF Refilled
<1>2. CASE WebTick
  <2>1. /\ level'[p] = level[p] /\ excess'[p] = OneLess(excess[p])
        /\ since'[p] = IF since[p] < Full THEN since[p] + 1 ELSE Full
    BY <1>2, <1>t DEF WebTick
  <2> QED
    BY <1>t, <2>1 DEF Refilled, OneLess
<1>3. ASSUME NEW c \in Callers, Acquire(c)
      PROVE  (excess[p] + Refilled(p) <= Full)'
  <2>1. CASE thread[c].provider # p
    <3>1. level'[p] = level[p] /\ since'[p] = since[p] /\ excess'[p] = excess[p]
      BY <1>3, <1>t, <2>1 DEF Acquire
    <3> QED
      BY <1>t, <3>1 DEF Refilled
  <2>2. CASE thread[c].provider = p
    <3>1. since'[p] = 0
      BY <1>3, <1>t, <2>2 DEF Acquire
    <3>2. \/ /\ Refilled(p) >= RefillTicks
             /\ level'[p] = Refilled(p) - RefillTicks
             /\ excess'[p] = excess[p] + RefillTicks
          \/ level'[p] = Refilled(p) /\ excess'[p] = excess[p]
      BY <1>3, <1>t, <2>2 DEF Acquire, Enough, Left
    <3> QED
      BY <1>t, <3>1, <3>2 DEF Refilled
  <2> QED
    BY <2>1, <2>2
<1>4. ASSUME ~WebTick, \A c \in Callers : ~Acquire(c)
      PROVE  UNCHANGED <<level, since, excess>>
  BY <1>4 DEF WebNext, CreateServer, CallTool, TavilyAttempt,
     FirecrawlAttempt, Unavailable, AttemptRaises, Return, DdgAttempt, DdgText,
     DdgDegrades, DdgNames, DdgInstant, DdgReturn, webVars
<1> QED
  BY <1>1, <1>2, <1>3, <1>4

\* The requests a provider sees in any stretch of time are bounded by the
\* burst, the refill and the retries (TokenBucketLimiter.acquire and
\* call_with_retries), however many threads there are.
THEOREM RateAlwaysKept == WebSpec => []RateKept
<1>1. WebInit => BucketInv
  BY WebAssumption DEF WebInit, BucketInv, Refilled, Full
<1>2. WebInv => RequestsPerToken
  <2> SUFFICES ASSUME WebInv, NEW c \in Callers
               PROVE  thread[c].sent
                        <= (MaxRetries + 1) * PerAttempt(thread[c].provider)
    BY DEF RequestsPerToken
  <2>1. PICK t \in CallsType : t = thread[c] /\ CallOK(t)
    BY DEF WebInv, GoodCalls
  <2>2. /\ t.attempt \in 0 .. MaxRetries /\ t.asked \in 0 .. TextQueries
        /\ t.sent \in Nat /\ PerAttempt(t.provider) \in 1 .. 3
        /\ TextQueries \in 0 .. 2 /\ MaxRetries \in Nat
        /\ t.provider = "ddg" => PerAttempt(t.provider) = TextQueries + 1
    BY WebAssumption DEF CallsType, PerAttempt
  <2>3. t.sent <= (t.attempt + 1) * PerAttempt(t.provider)
    <3>1. PICK b \in Nat : b = t.attempt * PerAttempt(t.provider)
      BY <2>2
    <3>2. (t.attempt + 1) * PerAttempt(t.provider) = b + PerAttempt(t.provider)
      BY <2>2, <3>1
    <3>3. t.at \in WebStages
      BY DEF CallsType
    <3>4. /\ t.at \in {"idle", "acquire"} => t.sent = 0
          /\ t.at = "attempt" => t.sent <= b
          /\ t.at = "text" => t.sent <= b + t.asked
          /\ t.at \in {"naming", "instant"} => t.sent <= b + TextQueries
          /\ t.at \in {"clean", "done"} => t.sent <= b + PerAttempt(t.provider)
          /\ t.at \in {"text", "naming", "instant"} => t.provider = "ddg"
      BY <2>1, <3>1 DEF CallOK
    <3>5. t.sent <= b + PerAttempt(t.provider)
      BY <2>2, <3>1, <3>3, <3>4 DEF WebStages
    <3> QED
      BY <3>2, <3>5
  <2>4. (t.attempt + 1) * PerAttempt(t.provider)
          <= (MaxRetries + 1) * PerAttempt(t.provider)
    BY <2>2
  <2> QED
    BY <2>1, <2>2, <2>3, <2>4
<1>3. WebInit => WebInv
  BY WebInitGood
<1>4. WebTypeOK /\ BucketInv => TokensBounded
  <2> SUFFICES ASSUME WebTypeOK, BucketInv, NEW p \in Providers
               PROVE  excess[p] <= Full
    BY DEF TokensBounded
  <2> QED
    BY RefilledBounds DEF BucketInv, WebTypeOK
<1>5. WebInv => WebTypeOK
  BY DEF WebInv
<1>6. RequestsPerToken /\ TokensBounded => RateKept
  BY DEF RateKept
<1> QED
  BY <1>1, <1>2, <1>3, <1>4, <1>5, <1>6, WebStep, BucketStep, PTL DEF WebSpec

-----------------------------------------------------------------------------
(* The degradation.                                                        *)

\* What a call knows of a degradation: one that has seen the reason will find
\* it again, and so will one that has seen the flag in provider_shift.
SawOK(t, a) ==
  /\ ddgMode = "none" => t.at = "idle"
  /\ t.at # "done" => a = "none"
  /\ t.provider = "ddg" =>
       /\ t.at \in {"text", "naming", "instant", "clean"} =>
            (t.saw = "named" => named) /\ (t.saw = "flag" => degraded)
       /\ a = "empty" =>
            t.saw = "nothing" \/ (t.saw = "flag" /\ ddgMode # "provider_shift")

\* The reason follows the flag.
DegradedInv ==
  /\ degraded /\ ~named => \E c \in Callers : thread[c].at = "naming"
  /\ \A c \in Callers : SawOK(thread[c], answer[c])

\* Every step keeps that.
LEMMA DegradedStep ==
  WebTypeOK /\ DegradedInv /\ [WebNext]_webVars => DegradedInv'
<1> SUFFICES ASSUME WebTypeOK, DegradedInv, [WebNext]_webVars
             PROVE  DegradedInv'
  OBVIOUS
<1>t. /\ thread \in [Callers -> CallsType] /\ answer \in [Callers -> Answers]
      /\ \A c \in Callers : thread[c] \in CallsType
      /\ degraded \in BOOLEAN /\ named \in BOOLEAN
  BY DEF WebTypeOK
<1>i. /\ degraded /\ ~named => \E c \in Callers : thread[c].at = "naming"
      /\ \A c \in Callers : SawOK(thread[c], answer[c])
  BY DEF DegradedInv
<1>m. (degraded => degraded') /\ (named => named')
      /\ (ddgMode' # ddgMode => ddgMode = "none")
  <2>1. ASSUME NEW c \in Callers,
               \/ \E p \in Providers : CallTool(c, p)
               \/ Acquire(c) \/ DdgAttempt(c) \/ DdgText(c)
               \/ DdgDegrades(c) \/ DdgNames(c)
        PROVE  UNCHANGED ddgMode /\ (degraded => degraded') /\ (named => named')
    <3>1. CASE \/ \E p \in Providers : CallTool(c, p)
               \/ Acquire(c) \/ DdgAttempt(c) \/ DdgText(c)
      <4>1. UNCHANGED <<ddgMode, degraded, named>>
        BY <3>1 DEF CallTool, Acquire, DdgAttempt, DdgText
      <4> QED
        BY <4>1
    <3>2. CASE DdgDegrades(c)
      BY <3>2 DEF DdgDegrades
    <3>3. CASE DdgNames(c)
      BY <3>3 DEF DdgNames
    <3> QED
      BY <2>1, <3>1, <3>2, <3>3
  <2>2. ASSUME NEW c \in Callers, NEW a, Return(c, a)
        PROVE  UNCHANGED <<ddgMode, degraded, named>>
    BY <2>2 DEF Return
  <2>3. ASSUME NEW c \in Callers,
               \/ TavilyAttempt(c) \/ FirecrawlAttempt(c) \/ DdgInstant(c)
               \/ DdgReturn(c)
        PROVE  \E a : Return(c, a)
    BY <2>3 DEF TavilyAttempt, FirecrawlAttempt, DdgInstant, DdgReturn,
       Unavailable, AttemptRaises
  <2> QED
    BY <2>1, <2>2, <2>3 DEF WebNext, CreateServer, WebTick, webVars
<1>k. ASSUME NEW c \in Callers PROVE SawOK(thread[c], answer[c])'
             \/ thread'[c] # thread[c] \/ answer'[c] # answer[c]
  BY <1>i, <1>m DEF SawOK
<1>c. ASSUME NEW c \in Callers, NEW t, NEW a, Become(c, t),
             answer' = [answer EXCEPT ![c] = a],
             t.at # "done" => a = "none",
             ddgMode' # "none",
             t.provider = "ddg" =>
               /\ t.at \in {"text", "naming", "instant", "clean"} =>
                    (t.saw = "named" => named') /\ (t.saw = "flag" => degraded')
               /\ a = "empty" => t.saw = "nothing"
                            \/ (t.saw = "flag" /\ ddgMode' # "provider_shift"),
             thread[c].at = "naming" => named',
             UNCHANGED <<degraded, named>> \/ named' \/ t.at = "naming"
      PROVE  DegradedInv'
  <2>1. thread'[c] = t /\ answer'[c] = a
    BY <1>t, <1>c DEF Become
  <2>2. \A d \in Callers : d # c => /\ thread'[d] = thread[d]
                                    /\ answer'[d] = answer[d]
    BY <1>t, <1>c DEF Become
  <2>3. SawOK(thread[c], answer[c])'
    BY <1>c, <2>1 DEF SawOK
  <2>4. \A d \in Callers : SawOK(thread[d], answer[d])'
    BY <1>k, <2>2, <2>3
  <2>5. degraded' /\ ~named' => \E d \in Callers : thread'[d].at = "naming"
    BY <1>c, <1>i, <2>1, <2>2
  <2> QED
    BY <2>4, <2>5 DEF DegradedInv
<1>1. CASE CreateServer \/ UNCHANGED webVars
  <2>1. UNCHANGED <<thread, answer, degraded, named>>
    BY <1>1 DEF CreateServer, webVars
  <2> QED
    BY <1>i, <1>k, <2>1 DEF DegradedInv
<1>2. CASE WebTick
  <2>1. /\ UNCHANGED <<ddgMode, answer, degraded, named>>
        /\ \A c \in Callers :
             /\ thread'[c].at = thread[c].at /\ thread'[c].saw = thread[c].saw
             /\ thread'[c].provider = thread[c].provider
    BY <1>2, <1>t DEF WebTick, CallsType
  <2> QED
    BY <1>i, <2>1 DEF DegradedInv, SawOK
<1>n. ASSUME NEW c \in Callers, thread[c].at # "idle" PROVE ddgMode' # "none"
  BY <1>i, <1>m, <1>n DEF SawOK, WebTypeOK
<1>3. ASSUME NEW c \in Callers, NEW p \in Providers, CallTool(c, p)
      PROVE  DegradedInv'
  <2>1. answer[c] = "none"
    BY <1>3, <1>i DEF CallTool, SawOK
  <2>2. answer' = [answer EXCEPT ![c] = "none"]
    BY <1>3, <1>t, <2>1 DEF CallTool
  <2>3. /\ Become(c, [thread[c] EXCEPT !.at = "acquire", !.provider = p])
        /\ [thread[c] EXCEPT !.at = "acquire", !.provider = p].at = "acquire"
        /\ ddgMode' # "none" /\ thread[c].at = "idle"
        /\ UNCHANGED <<degraded, named>>
    BY <1>3, <1>t DEF CallTool, CallsType
  <2> QED
    BY <1>c, <2>2, <2>3
<1>4. ASSUME NEW c \in Callers, Acquire(c) PROVE DegradedInv'
  <2>1. answer[c] = "none" /\ thread[c].at = "acquire" /\ ddgMode' # "none"
    BY <1>4, <1>i, <1>n DEF Acquire, SawOK
  <2>2. /\ answer' = [answer EXCEPT ![c] = "none"]
        /\ UNCHANGED <<degraded, named>>
    BY <1>4, <1>t, <2>1 DEF Acquire
  <2>3. CASE Become(c, [thread[c] EXCEPT !.at = "attempt"])
    <3>1. [thread[c] EXCEPT !.at = "attempt"].at = "attempt"
      BY <1>t DEF CallsType
    <3> QED
      BY <1>c, <2>1, <2>2, <2>3, <3>1
  <2>4. ASSUME NEW n,
               Become(c, [thread[c] EXCEPT !.sleep = n])
        PROVE  DegradedInv'
    <3>1. [thread[c] EXCEPT !.sleep = n].at = "acquire"
      BY <1>t, <2>1 DEF CallsType
    <3> QED
      BY <1>c, <2>1, <2>2, <2>4, <3>1
  <2> QED
    BY <1>4, <2>3, <2>4 DEF Acquire
\* A call that ends, or starts its next attempt, is no DuckDuckGo call that
\* returns nothing.
<1>e. ASSUME NEW c \in Callers, NEW t, NEW a, Become(c, t), Return(c, a),
             thread[c].at \in {"attempt", "instant"},
             \/ t.at = "done" /\ (t.provider = "ddg" => a # "empty")
             \/ t.at = "attempt" /\ a = "none"
      PROVE  DegradedInv'
  BY <1>c, <1>e, <1>n DEF Return
<1>r. ASSUME NEW c \in Callers, NEW t \in CallsType, AttemptRaises(c, t),
             thread[c].at \in {"attempt", "instant"}
      PROVE  DegradedInv'
  <2>1. /\ [t EXCEPT !.at = "done"].at = "done"
        /\ [t EXCEPT !.at = "attempt", !.attempt = @ + 1].at = "attempt"
    BY DEF CallsType
  <2> QED
    BY <1>e, <1>r, <2>1 DEF AttemptRaises
<1>s. \A c \in Callers : /\ Send(c) \in CallsType
                         /\ Send(c).provider = thread[c].provider
                         /\ Send(c).saw = thread[c].saw
  BY <1>t DEF Send, CallsType
<1>5. ASSUME NEW c \in Callers, TavilyAttempt(c) \/ FirecrawlAttempt(c)
      PROVE  DegradedInv'
  <2>1. thread[c].at = "attempt" /\ thread[c].provider # "ddg"
    BY <1>5 DEF TavilyAttempt, FirecrawlAttempt
  <2>2. /\ [Send(c) EXCEPT !.at = "done"].at = "done"
        /\ [thread[c] EXCEPT !.at = "done"].at = "done"
        /\ [Send(c) EXCEPT !.at = "done"].provider # "ddg"
        /\ [thread[c] EXCEPT !.at = "done"].provider # "ddg"
    BY <1>t, <1>s, <2>1 DEF CallsType
  <2>3. \/ AttemptRaises(c, Send(c))
        \/ \E a : Return(c, a) /\ Become(c, [Send(c) EXCEPT !.at = "done"])
        \/ \E a : Return(c, a) /\ Become(c, [thread[c] EXCEPT !.at = "done"])
    BY <1>5 DEF TavilyAttempt, FirecrawlAttempt, Unavailable
  <2> QED
    BY <1>e, <1>r, <1>s, <2>1, <2>2, <2>3
<1>6. ASSUME NEW c \in Callers, DdgAttempt(c) PROVE DegradedInv'
  <2>1. /\ answer[c] = "none" /\ thread[c].at = "attempt" /\ ddgMode' # "none"
        /\ UNCHANGED <<degraded, named, answer>>
    BY <1>6, <1>i, <1>n DEF DdgAttempt, SawOK
  <2>2. answer' = [answer EXCEPT ![c] = "none"]
    BY <1>t, <2>1
  <2> DEFINE saw == CASE degraded /\ named -> "named"
                      [] degraded /\ ~named -> "flag"
                      [] OTHER -> "nothing"
             at == IF TextQueries > 0 /\ ~degraded THEN "text" ELSE "instant"
             t == [thread[c] EXCEPT !.at = at, !.asked = 0, !.docs = FALSE,
                                    !.saw = saw]
  <2>3. (saw = "named" => named) /\ (saw = "flag" => degraded)
    OBVIOUS
  <2>4. at # "done"
    OBVIOUS
  <2> HIDE DEF saw, at
  <2>5. t.at = at /\ t.saw = saw
    BY <1>t DEF CallsType
  <2>6. Become(c, t)
    BY <1>6 DEF DdgAttempt, saw, at
  <2> HIDE DEF t
  <2> QED
    BY <1>c, <2>1, <2>2, <2>3, <2>4, <2>5, <2>6
<1>7. ASSUME NEW c \in Callers, DdgText(c) PROVE DegradedInv'
  <2>1. PICK d \in BOOLEAN, at \in {"text", "instant"} :
          Become(c, [Send(c) EXCEPT !.docs = d, !.asked = @ + 1, !.at = at])
    <3>1. PICK found \in BOOLEAN, enough \in BOOLEAN :
            Become(c, [Send(c) EXCEPT
                         !.docs = @ \/ found,
                         !.asked = @ + 1,
                         !.at = IF enough \/ thread[c].asked + 1 = TextQueries
                                  THEN "instant" ELSE "text"])
      BY <1>7 DEF DdgText
    <3> DEFINE d == Send(c).docs \/ found
               at == IF enough \/ thread[c].asked + 1 = TextQueries
                       THEN "instant" ELSE "text"
    <3>2. Become(c, [Send(c) EXCEPT !.docs = d, !.asked = @ + 1, !.at = at])
      BY <3>1
    <3>3. at \in {"text", "instant"} /\ d \in BOOLEAN
      BY <1>s DEF CallsType
    <3> HIDE DEF d, at
    <3> QED
      BY <3>2, <3>3
  <2>2. /\ answer[c] = "none" /\ thread[c].at = "text" /\ ddgMode' # "none"
        /\ UNCHANGED <<degraded, named, answer>>
    BY <1>7, <1>i, <1>n DEF DdgText, SawOK
  <2>3. answer' = [answer EXCEPT ![c] = "none"]
    BY <1>t, <2>2
  <2> DEFINE t == [Send(c) EXCEPT !.docs = d, !.asked = @ + 1, !.at = at]
  <2>4. t.at = at /\ t.saw = thread[c].saw /\ t.provider = thread[c].provider
    BY <1>s DEF CallsType
  <2> HIDE DEF t
  <2>5. t.provider = "ddg" =>
          (t.saw = "named" => named) /\ (t.saw = "flag" => degraded)
    BY <1>i, <2>2, <2>4 DEF SawOK
  <2>6. Become(c, t)
    BY <2>1 DEF t
  <2> QED
    BY <1>c, <2>2, <2>3, <2>4, <2>5, <2>6
<1>8. ASSUME NEW c \in Callers, DdgDegrades(c) PROVE DegradedInv'
  <2>1. /\ answer[c] = "none" /\ thread[c].at = "text" /\ ddgMode' # "none"
        /\ degraded' = TRUE /\ UNCHANGED <<named, answer>>
    BY <1>8, <1>i, <1>n DEF DdgDegrades, SawOK
  <2>2. answer' = [answer EXCEPT ![c] = "none"]
    BY <1>t, <2>1
  <2> DEFINE t == [Send(c) EXCEPT !.at = "naming"]
  <2>3. /\ t.at = "naming" /\ t.saw = thread[c].saw
        /\ t.provider = thread[c].provider
    BY <1>s DEF CallsType
  <2>4. Become(c, t)
    BY <1>8 DEF DdgDegrades
  <2> HIDE DEF t
  <2>5. t.provider = "ddg" => (t.saw = "named" => named)
    BY <1>i, <2>1, <2>3 DEF SawOK
  <2> QED
    BY <1>c, <2>1, <2>2, <2>3, <2>4, <2>5
<1>9. ASSUME NEW c \in Callers, DdgNames(c) PROVE DegradedInv'
  <2>1. /\ answer[c] = "none" /\ thread[c].at = "naming" /\ ddgMode' # "none"
        /\ named' = TRUE /\ UNCHANGED <<degraded, answer>>
    BY <1>9, <1>i, <1>n DEF DdgNames, SawOK
  <2>2. answer' = [answer EXCEPT ![c] = "none"]
    BY <1>t, <2>1
  <2> DEFINE t == [thread[c] EXCEPT !.at = "instant"]
  <2>3. /\ t.at = "instant" /\ t.saw = thread[c].saw
        /\ t.provider = thread[c].provider
    BY <1>t DEF CallsType
  <2>4. Become(c, t)
    BY <1>9 DEF DdgNames
  <2> HIDE DEF t
  <2>5. t.provider = "ddg" => (t.saw = "flag" => degraded)
    BY <1>i, <2>1, <2>3 DEF SawOK
  <2> QED
    BY <1>c, <2>1, <2>2, <2>3, <2>4, <2>5
<1>10. ASSUME NEW c \in Callers, DdgInstant(c) PROVE DegradedInv'
  <2>1. thread[c].at = "instant" /\ ddgMode' # "none"
    BY <1>10, <1>n DEF DdgInstant
  <2>2. CASE AttemptRaises(c, Send(c))
    BY <1>r, <1>s, <2>1, <2>2
  <2>3. ASSUME NEW t, Become(c, t), Return(c, "none"), t.at = "clean",
               t.saw = thread[c].saw, t.provider = thread[c].provider
        PROVE  DegradedInv'
    <3>1. t.provider = "ddg" =>
            (t.saw = "named" => named) /\ (t.saw = "flag" => degraded)
      BY <1>i, <2>1, <2>3 DEF SawOK
    <3> QED
      BY <1>c, <2>1, <2>3, <3>1 DEF Return
  <2>4. ASSUME NEW d
        PROVE  /\ [Send(c) EXCEPT !.at = "clean", !.docs = d].at = "clean"
               /\ [Send(c) EXCEPT !.at = "clean", !.docs = d].saw
                    = thread[c].saw
               /\ [Send(c) EXCEPT !.at = "clean", !.docs = d].provider
                    = thread[c].provider
    BY <1>s DEF CallsType
  <2>5. /\ [thread[c] EXCEPT !.at = "clean"].at = "clean"
        /\ [thread[c] EXCEPT !.at = "clean"].saw = thread[c].saw
        /\ [thread[c] EXCEPT !.at = "clean"].provider = thread[c].provider
    BY <1>t DEF CallsType
  <2> QED
    BY <1>10, <2>2, <2>3, <2>4, <2>5 DEF DdgInstant
<1>11. ASSUME NEW c \in Callers, DdgReturn(c) PROVE DegradedInv'
  <2>1. thread[c].at = "clean" /\ ddgMode' # "none"
    BY <1>11, <1>n DEF DdgReturn
  <2> DEFINE t == [thread[c] EXCEPT !.at = "done"]
             a == IF thread[c].docs THEN "docs"
                  ELSE IF named \/ ShiftNames THEN "degraded" ELSE "empty"
  <2>2. /\ t.at = "done" /\ t.saw = thread[c].saw
        /\ t.provider = thread[c].provider
    BY <1>t DEF CallsType
  <2>3. Become(c, t) /\ Return(c, a)
    BY <1>11 DEF DdgReturn
  <2>4. a = "empty" => ~named /\ ~(degraded /\ ddgMode = "provider_shift")
    BY DEF ShiftNames
  <2>5. UNCHANGED <<ddgMode, degraded, named>>
        /\ answer' = [answer EXCEPT ![c] = a]
    BY <2>3 DEF Return
  <2> HIDE DEF t, a
  <2>6. t.saw \in {"nothing", "flag", "named"}
    BY <1>t, <2>2 DEF CallsType
  <2>7. t.provider = "ddg" /\ a = "empty" =>
          t.saw = "nothing" \/ (t.saw = "flag" /\ ddgMode # "provider_shift")
    BY <1>i, <2>1, <2>2, <2>4, <2>6 DEF SawOK
  <2> QED
    BY <1>c, <2>1, <2>2, <2>3, <2>5, <2>7
<1> QED
  BY <1>1, <1>2, <1>3, <1>4, <1>5, <1>6, <1>7, <1>8, <1>9, <1>10, <1>11
  DEF WebNext

\* An empty answer hides no degradation its attempt could see (_ddg_text_search
\* and _ddg_search_impl), whatever the other threads do between the flag and
\* its reason.
THEOREM DegradationAlwaysReported == WebSpec => []DegradationReported
<1>1. WebInit => DegradedInv
  BY DEF WebInit, DegradedInv, SawOK, NoCall
<1>2. DegradedInv => DegradationReported
  BY DEF DegradedInv, SawOK, DegradationReported
<1> QED
  BY <1>1, <1>2, WebTypeCorrect, DegradedStep, PTL DEF WebSpec

=============================================================================
