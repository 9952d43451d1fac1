----------------------------- MODULE ResearchPage -----------------------------
(***************************************************************************)
(* The page that starts a run and shows its stream (web-ui/app/page.tsx).  *)
(* Callbacks run one at a time, but a search waits for its health check,   *)
(* and timers and streams of earlier searches may still be there when the  *)
(* next one has begun: they share the page's state and its refs.           *)
(*                                                                         *)
(* Of an event the model keeps its type and whether a final one carries a  *)
(* report.  Events come in any order, which is more than the server does.  *)
(* A stream is not opened again by the browser: the page closes it on its  *)
(* first error.  Time is left out: a health check (8 s) or a timer (15 s)  *)
(* may outlast anything else.                                              *)
(***************************************************************************)
EXTENDS Naturals

CONSTANT MaxSearches  \* bound: the searches one page starts

ASSUME PageAssumption == MaxSearches \in Nat

VARIABLES
  searching,   \* isSearching: the form is locked and Stop can be pressed
  view,        \* streamState
  latest,      \* the number of the last search
  stream,      \* [Searches -> its health check, then its EventSource]
  current,     \* eventSourceRef: the search whose stream it is, or 0
  timers,      \* searches whose firstEventTimer is set
  gotEvent,    \* firstEventReceivedRef
  gotFinal,    \* finalReceivedRef
  shown,       \* finalReport: the search whose report is shown, or 0
  givenUp,     \* history: searches given up during their health check
  staleTimer   \* history: has the timer of one search ended another?

refs     == <<gotEvent, gotFinal>>
history  == <<givenUp, staleTimer>>
pageVars == <<searching, view, latest, stream, current, timers, refs, shown,
              history>>

Searches == 1 .. MaxSearches
Open == {s \in Searches : stream[s] = "open"}

PageInit ==
  /\ searching = FALSE /\ view = "idle"
  /\ latest = 0 /\ stream = [s \in Searches |-> "none"] /\ current = 0
  /\ timers = {} /\ gotEvent = FALSE /\ gotFinal = FALSE /\ shown = 0
  /\ givenUp = {} /\ staleTimer = FALSE

-----------------------------------------------------------------------------

\* Closing a stream that is not open does nothing, so a search that has none
\* yet goes on.
Shut(s) ==
  [q \in Searches |-> IF q = s /\ stream[q] = "open" THEN "closed"
                      ELSE stream[q]]

\* Mutant: the stream of the search before is left open.
LeaveOpen == stream
CurrentShut == Shut(current)

Unlock ==
  /\ searching' = FALSE
  /\ givenUp' = givenUp \cup {s \in Searches : stream[s] = "health"}

-----------------------------------------------------------------------------
(* What the user does.                                                     *)

\* handleSearch up to its first await.
Search ==
  /\ ~searching /\ latest < MaxSearches
  /\ searching' = TRUE /\ view' = "connecting" /\ shown' = 0
  /\ gotEvent' = FALSE /\ gotFinal' = FALSE
  /\ latest' = latest + 1
  /\ stream' = [CurrentShut EXCEPT ![latest + 1] = "health"]
  /\ UNCHANGED <<current, timers, history>>

\* The timer stays set.
StopRun ==
  /\ searching
  /\ stream' = CurrentShut
  /\ view' = "error"
  /\ Unlock
  /\ UNCHANGED <<latest, current, timers, refs, shown, staleTimer>>

ResetWorkspace ==
  /\ ~searching
  /\ stream' = CurrentShut
  /\ view' = "idle" /\ shown' = 0
  /\ gotEvent' = FALSE /\ gotFinal' = FALSE
  /\ UNCHANGED <<searching, latest, current, timers, history>>

-----------------------------------------------------------------------------
(* What happens to the page.                                               *)

\* Whatever the health check says, also nothing in time, the stream is opened,
\* and nobody asks whether the search is still wanted.
HealthAnswers(s) ==
  /\ stream[s] = "health"
  /\ stream' = [stream EXCEPT ![s] = "open"]
  /\ current' = s
  /\ timers' = timers \cup {s}
  /\ UNCHANGED <<searching, view, latest, refs, shown, history>>

NothingCame == ~gotEvent /\ ~gotFinal

FirstEventTimer(s) ==
  /\ s \in timers
  /\ timers' = timers \ {s}
  /\ IF NothingCame
     THEN /\ view' = "error" /\ stream' = Shut(s)
          /\ Unlock
          /\ staleTimer' = (staleTimer \/ s # latest)
     ELSE UNCHANGED <<view, stream, searching, history>>
  /\ UNCHANGED <<latest, current, refs, shown>>

\* The first event of any stream clears the timer of the stream it came from.
Message(s) ==
  /\ stream[s] = "open"
  /\ gotEvent' = TRUE
  /\ timers' = IF gotEvent THEN timers ELSE timers \ {s}
  /\ UNCHANGED <<searching, latest, stream, current, history>>

Token(s) ==
  /\ Message(s)
  /\ view' = IF view = "connecting" THEN "running" ELSE view
  /\ UNCHANGED <<gotFinal, shown>>

Progress(s) ==
  /\ Message(s)
  /\ view' \in {"connecting", "running"}
  /\ UNCHANGED <<gotFinal, shown>>

FinalReport(s) ==
  /\ Message(s)
  /\ view' = "final"
  /\ gotFinal' = TRUE /\ shown' = s

FinalWithoutReport(s) ==
  /\ Message(s)
  /\ view' = "final"
  /\ UNCHANGED <<gotFinal, shown>>

Unparsable(s) ==
  /\ Message(s)
  /\ view' = "error"
  /\ UNCHANGED <<gotFinal, shown>>

Ends(s) ==
  /\ stream[s] = "open"
  /\ stream' = Shut(s)
  /\ timers' = timers \ {s}
  /\ Unlock
  /\ UNCHANGED <<latest, current, gotFinal, shown, staleTimer>>

Done(s) ==
  /\ Ends(s)
  /\ gotEvent' = TRUE
  /\ view' = IF gotFinal THEN view ELSE "error"

ErrorEvent(s) ==
  /\ Ends(s)
  /\ gotEvent' = TRUE
  /\ view' = "error"

\* Mutant: the stream is left open, for the browser to connect again.
WaitsToReconnect(s) ==
  /\ stream[s] = "open"
  /\ view' = "connecting"
  /\ UNCHANGED <<searching, latest, stream, current, timers, refs, shown,
                 history>>

\* onerror: the connection is lost or refused, or the server just ends.
ConnectionLost(s) ==
  /\ Ends(s)
  /\ view' = IF gotFinal THEN view ELSE "error"
  /\ UNCHANGED gotEvent

-----------------------------------------------------------------------------

StreamEvent(s) ==
  Token(s) \/ Progress(s) \/ FinalReport(s) \/ FinalWithoutReport(s)
    \/ Unparsable(s)

StreamStops(s) == Done(s) \/ ErrorEvent(s) \/ ConnectionLost(s)

PageNext ==
  \/ Search \/ StopRun \/ ResetWorkspace
  \/ \E s \in Searches : HealthAnswers(s) \/ FirstEventTimer(s)
                           \/ StreamEvent(s) \/ StreamStops(s)

PageSpec == PageInit /\ [][PageNext]_pageVars

\* A health check ends, and so does every stream: StreamHeartbeat!StreamEnds.
NetworkAnswers == \E s \in Searches : HealthAnswers(s) \/ StreamStops(s)

FairPageSpec == PageSpec /\ WF_pageVars(NetworkAnswers)

-----------------------------------------------------------------------------
(* Properties.                                                             *)

PageTypeOK ==
  /\ searching \in BOOLEAN /\ gotEvent \in BOOLEAN /\ gotFinal \in BOOLEAN
  /\ view \in {"idle", "connecting", "running", "final", "error"}
  /\ latest \in 0 .. MaxSearches /\ current \in 0 .. MaxSearches
  /\ shown \in 0 .. MaxSearches
  /\ stream \in [Searches -> {"none", "health", "open", "closed"}]
  /\ timers \subseteq Searches /\ givenUp \subseteq Searches
  /\ staleTimer \in BOOLEAN

\* Only a search that was given up during its health check, whose stream opens
\* nevertheless, can show a report under another question or leave a second
\* stream open; and only that, or the timer of an earlier search, leaves a
\* stream behind an unlocked form (page.tsx:235, 280, 325).
PageFollowsLatest ==
  givenUp = {} =>
    /\ Open \subseteq {latest} /\ shown \in {0, latest}
    /\ ~searching /\ ~staleTimer =>
         Open = {} /\ (view \in {"connecting", "running"} => gotFinal)

\* Whatever the user stops and restarts, and whichever streams are left over,
\* the form is unlocked again (page.tsx:250, 395, 416, 453).
SearchEnds == searching ~> ~searching

=============================================================================
