--------------------------- MODULE CircuitBreaker ---------------------------
(***************************************************************************)
(* What the circuit breakers of a client promise, one for each service,    *)
(* without saying how a breaker represents its circuit.                    *)
(*                                                                         *)
(* A circuit is closed and remembers how many calls have failed since the  *)
(* last success, always fewer than the threshold; or it is tripped until   *)
(* a time.  A closed circuit lets every caller in, a tripped one nobody    *)
(* before its time and everybody after it: there is no single probe.  Who  *)
(* is inside may report after the circuit has tripped, a success closing   *)
(* it again and a failure keeping it tripped for longer.                   *)
(***************************************************************************)
EXTENDS Naturals

CONSTANTS
  Services,   \* what the circuits protect
  Callers,    \* who asks to be let in
  Threshold,  \* failures in a row that trip a circuit
  Recovery    \* how long it stays tripped

VARIABLES
  circuit,  \* [Services -> a circuit]
  inside,   \* [Services -> the callers let in that have not reported]
  now       \* the time

vars == <<circuit, inside, now>>

Closed(n)  == [state |-> "closed", failures |-> n]
Tripped(t) == [state |-> "tripped", until |-> t]

Init ==
  /\ circuit = [s \in Services |-> Closed(0)]
  /\ inside = [s \in Services |-> {}]
  /\ now \in Nat

LetsIn(s) == circuit[s].state = "closed" \/ now >= circuit[s].until

Enter(c, s) ==
  /\ LetsIn(s)
  /\ \A r \in Services : c \notin inside[r]
  /\ inside' = [inside EXCEPT ![s] = @ \cup {c}]
  /\ UNCHANGED <<circuit, now>>

Leave(c, s, next) ==
  /\ c \in inside[s]
  /\ inside' = [inside EXCEPT ![s] = @ \ {c}]
  /\ circuit' = [circuit EXCEPT ![s] = next]
  /\ UNCHANGED now

Succeed(c, s) == Leave(c, s, Closed(0))

Fail(c, s) ==
  Leave(c, s, IF circuit[s].state = "closed"
                   /\ circuit[s].failures + 1 < Threshold
              THEN Closed(circuit[s].failures + 1)
              ELSE Tripped(now + Recovery))

Wait ==
  /\ now' \in Nat /\ now' > now
  /\ UNCHANGED <<circuit, inside>>

Next ==
  \/ Wait
  \/ \E c \in Callers, s \in Services :
       Enter(c, s) \/ Succeed(c, s) \/ Fail(c, s)

Spec == Init /\ [][Next]_vars

=============================================================================
