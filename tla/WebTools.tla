------------------------------- MODULE WebTools ------------------------------
(***************************************************************************)
(* The web tool server (mcp_server/web_server.py) with its token buckets   *)
(* and retries (core/rate_limit.py): threads of several runs call the      *)
(* search tools of one server object at the same time.                     *)
(*                                                                         *)
(* A bucket is counted in ticks: a token takes RefillTicks of them to      *)
(* refill.  Elapsed time beyond a full bucket has no effect and is not     *)
(* counted; a sleep lasts at least as long as asked for.                   *)
(*                                                                         *)
(* Abstracted: queries and documents, of which only whether there are any  *)
(* is kept; the delays between retries; whether a key is configured, which  *)
(* is left open call by call.                                              *)
(***************************************************************************)
EXTENDS Integers, FiniteSets

CONSTANTS
  Callers,      \* bound: the threads, each of which makes one tool call
  Capacity,     \* burst of the limiters
  RefillTicks,  \* ticks in which one token is refilled
  MaxRetries,   \* max_retries of the configuration
  TextQueries   \* text searches of an attempt, by depth; 0: disabled

ASSUME WebAssumption ==
  /\ IsFiniteSet(Callers)
  /\ Capacity \in Nat \ {0} /\ RefillTicks \in Nat \ {0}
  /\ MaxRetries \in Nat /\ TextQueries \in 0 .. 2

Providers == {"tavily", "ddg", "firecrawl"}
FallbackModes == {"instant_only", "provider_shift", "mixed"}

Full == Capacity * RefillTicks

VARIABLES
  ddgMode,  \* ddg_fallback_mode of the server, "none" before it is made
  level,    \* [Providers -> tokens, in ticks, at the last refill]
  since,    \* [Providers -> ticks since the last refill, at most Full]
  degraded, \* _ddg_text_degraded
  named,    \* _ddg_degradation_reason is set
  thread,   \* [Callers -> the call the thread is making]
  answer,   \* [Callers -> what the call returned, or how it raised]
  excess    \* history, [Providers -> the most by which the tokens granted in
            \* a time up to now, in ticks, are more than that time]

webVars == <<ddgMode, level, since, degraded, named, thread, answer, excess>>

\* attempt counts from 0, asked the text searches of the attempt, sent the
\* requests of the call; saw: what the attempt found of a degradation.
NoCall == [at |-> "idle", provider |-> "ddg", sleep |-> 0, attempt |-> 0,
           asked |-> 0, docs |-> FALSE, saw |-> "nothing", sent |-> 0]

WebInit ==
  /\ ddgMode = "none"
  /\ level = [p \in Providers |-> Full] /\ since = [p \in Providers |-> 0]
  /\ degraded = FALSE /\ named = FALSE
  /\ thread = [c \in Callers |-> NoCall]
  /\ answer = [c \in Callers |-> "none"]
  /\ excess = [p \in Providers |-> 0]

OneLess(n) == IF n > 0 THEN n - 1 ELSE 0

Become(c, t) == thread' = [thread EXCEPT ![c] = t]
Send(c) == [thread[c] EXCEPT !.sent = @ + 1]

-----------------------------------------------------------------------------
(* The object and the clock.                                               *)

CreateServer ==
  /\ ddgMode = "none"
  /\ ddgMode' \in FallbackModes
  /\ UNCHANGED <<level, since, degraded, named, thread, answer, excess>>

\* Mutant: the refill is not capped.
Uncapped(p) == level[p] + since[p]
Refilled(p) == IF level[p] + since[p] < Full THEN level[p] + since[p] ELSE Full

\* Time passes, also while a thread that could run does not.
WebTick ==
  /\ ddgMode # "none"
  /\ \/ \E c \in Callers : thread[c].sleep > 0
     \/ \E p \in Providers : since[p] < Full
  /\ since' = [p \in Providers |->
                  IF since[p] < Full THEN since[p] + 1 ELSE Full]
  /\ excess' = [p \in Providers |-> OneLess(excess[p])]
  /\ thread' = [c \in Callers |->
                  [thread[c] EXCEPT !.sleep = OneLess(@)]]
  /\ UNCHANGED <<ddgMode, level, degraded, named, answer>>

-----------------------------------------------------------------------------
(* The limiter.                                                            *)

CallTool(c, p) ==
  /\ ddgMode # "none"
  /\ thread[c].at = "idle"
  /\ Become(c, [thread[c] EXCEPT !.at = "acquire", !.provider = p])
  /\ UNCHANGED <<ddgMode, level, since, degraded, named, answer, excess>>

Enough(p) == Refilled(p) >= RefillTicks

\* Mutant: a look that finds too little forgets what it has refilled.
LeftUnrefilled(p) == level[p]
Left(p)           == Refilled(p)

\* One pass through the lock: refill, then take a token or leave to sleep.
Acquire(c) ==
  LET p == thread[c].provider IN
  /\ thread[c].at = "acquire" /\ thread[c].sleep = 0
  /\ since' = [since EXCEPT ![p] = 0]
  /\ \/ /\ Enough(p)
        /\ level' = [level EXCEPT ![p] = Refilled(p) - RefillTicks]
        /\ excess' = [excess EXCEPT ![p] = @ + RefillTicks]
        /\ Become(c, [thread[c] EXCEPT !.at = "attempt"])
     \/ /\ ~Enough(p)
        /\ level' = [level EXCEPT ![p] = Left(p)]
        /\ Become(c, [thread[c] EXCEPT !.sleep = RefillTicks - Refilled(p)])
        /\ UNCHANGED excess
  /\ UNCHANGED <<ddgMode, degraded, named, answer>>

-----------------------------------------------------------------------------
(* The attempts and their results.                                         *)

Return(c, result) ==
  /\ answer' = [answer EXCEPT ![c] = result]
  /\ UNCHANGED <<ddgMode, level, since, degraded, named, excess>>

RetriesLeft(t) == t.attempt < MaxRetries

\* The attempt raises: it is repeated when retries are left and a word of the
\* message marks the error as retryable; t is the call at that moment.
AttemptRaises(c, t) ==
  \/ /\ RetriesLeft(t)
     /\ Become(c, [t EXCEPT !.at = "attempt", !.attempt = @ + 1])
     /\ Return(c, "none")
  \/ /\ ~RetriesLeft(t)
     /\ Become(c, [t EXCEPT !.at = "done"])
     /\ Return(c, "exhausted")
  \/ /\ Become(c, [t EXCEPT !.at = "done"])
     /\ Return(c, "not_retryable")

\* No key: fallback documents, and no request.
Unavailable(c) ==
  /\ Become(c, [thread[c] EXCEPT !.at = "done"])
  /\ Return(c, "unavailable")

\* Errors of the search become fallback documents and are not retried; only
\* an answer that cannot be read raises.
TavilyAttempt(c) ==
  /\ thread[c].at = "attempt" /\ thread[c].provider = "tavily"
  /\ \/ /\ Become(c, [Send(c) EXCEPT !.at = "done"])
        /\ \E a \in {"docs", "request_failed", "quota", "empty"} :
             Return(c, a)
     \/ AttemptRaises(c, Send(c))
     \/ Unavailable(c)

FirecrawlAttempt(c) ==
  /\ thread[c].at = "attempt" /\ thread[c].provider = "firecrawl"
  /\ \/ /\ Become(c, [Send(c) EXCEPT !.at = "done"])
        /\ Return(c, "docs")
     \/ AttemptRaises(c, Send(c))
     \/ Unavailable(c)

-----------------------------------------------------------------------------
(* DuckDuckGo.                                                             *)

DdgAttempt(c) ==
  /\ thread[c].at = "attempt" /\ thread[c].provider = "ddg"
  /\ Become(c, [thread[c] EXCEPT
                  !.at = IF TextQueries > 0 /\ ~degraded
                           THEN "text" ELSE "instant",
                  !.asked = 0, !.docs = FALSE,
                  !.saw = CASE degraded /\ named -> "named"
                            [] degraded /\ ~named -> "flag"
                            [] OTHER -> "nothing"])
  /\ UNCHANGED <<ddgMode, level, since, degraded, named, answer, excess>>

\* One text search: documents or none, or an error that is passed over, then
\* the next search unless there are documents enough.
DdgText(c) ==
  /\ thread[c].at = "text"
  /\ \E found \in BOOLEAN, enough \in BOOLEAN :
       /\ enough => found \/ thread[c].docs
       /\ Become(c, [Send(c) EXCEPT
                       !.docs = @ \/ found,
                       !.asked = @ + 1,
                       !.at = IF enough \/ thread[c].asked + 1 = TextQueries
                                THEN "instant" ELSE "text"])
  /\ UNCHANGED <<ddgMode, level, since, degraded, named, answer, excess>>

\* An impersonation error: the flag is set, then the reason, without a lock.
DdgDegrades(c) ==
  /\ thread[c].at = "text"
  /\ degraded' = TRUE
  /\ Become(c, [Send(c) EXCEPT !.at = "naming"])
  /\ UNCHANGED <<ddgMode, level, since, named, answer, excess>>

DdgNames(c) ==
  /\ thread[c].at = "naming"
  /\ named' = TRUE
  /\ Become(c, [thread[c] EXCEPT !.at = "instant"])
  /\ UNCHANGED <<ddgMode, level, since, degraded, answer, excess>>

\* Without documents, and in a mode that allows it, the instant answers are
\* asked; an error of theirs is not caught.
DdgInstant(c) ==
  /\ thread[c].at = "instant"
  /\ IF ~thread[c].docs /\ ddgMode \in {"instant_only", "mixed"}
       THEN \/ \E found \in BOOLEAN :
                 /\ Become(c, [Send(c) EXCEPT !.at = "clean",
                                              !.docs = found])
                 /\ Return(c, "none")
            \/ AttemptRaises(c, Send(c))
       ELSE /\ Become(c, [thread[c] EXCEPT !.at = "clean"])
            /\ Return(c, "none")

\* Mutant: provider_shift does not name the degradation by itself.
NeverShift == FALSE
ShiftNames == degraded /\ ddgMode = "provider_shift"

DdgReturn(c) ==
  /\ thread[c].at = "clean"
  /\ Become(c, [thread[c] EXCEPT !.at = "done"])
  /\ Return(c, IF thread[c].docs THEN "docs"
               ELSE IF named \/ ShiftNames THEN "degraded" ELSE "empty")

-----------------------------------------------------------------------------
WebNext ==
  \/ CreateServer
  \/ WebTick
  \/ \E c \in Callers :
       \/ \E p \in Providers : CallTool(c, p)
       \/ Acquire(c)
       \/ TavilyAttempt(c)
       \/ FirecrawlAttempt(c)
       \/ DdgAttempt(c)
       \/ DdgText(c)
       \/ DdgDegrades(c)
       \/ DdgNames(c)
       \/ DdgInstant(c)
       \/ DdgReturn(c)

\* Threads that can run do, sleeps end, requests are answered or time out.
WebFairness == WF_webVars(WebNext)

WebSpec == WebInit /\ [][WebNext]_webVars /\ WebFairness

-----------------------------------------------------------------------------
(* Properties.                                                             *)

WebStages == {"idle", "acquire", "attempt", "text", "naming", "instant",
              "clean", "done"}

CallsType == [at : WebStages, provider : Providers, sleep : 0 .. RefillTicks,
              attempt : 0 .. MaxRetries, asked : 0 .. TextQueries,
              docs : BOOLEAN, saw : {"nothing", "flag", "named"}, sent : Nat]

Answers == {"none", "docs", "request_failed", "quota", "empty", "unavailable",
            "degraded", "exhausted", "not_retryable"}

\* Every variable holds a value of its kind; in particular a bucket holds no
\* more than its capacity and no less than nothing.
WebTypeOK ==
  /\ ddgMode \in FallbackModes \cup {"none"}
  /\ level \in [Providers -> 0 .. Full] /\ since \in [Providers -> 0 .. Full]
  /\ degraded \in BOOLEAN /\ named \in BOOLEAN
  /\ thread \in [Callers -> CallsType]
  /\ answer \in [Callers -> Answers]
  /\ excess \in [Providers -> Nat]

\* The two parts of RateKept.  In no stretch of time do the threads together
\* get more tokens from a limiter than its burst and what that time refills,
\* however their waits and looks interleave (TokenBucketLimiter.acquire).
TokensBounded == \A p \in Providers : excess[p] <= Full

\* A token stands for one tool call, not for one request to the provider:
\* retries and second searches take none.  This bounds the requests of a call.
PerAttempt(p) == IF p = "ddg" THEN TextQueries + 1 ELSE 1
RequestsPerToken ==
  \A c \in Callers :
    thread[c].sent <= (MaxRetries + 1) * PerAttempt(thread[c].provider)

\* Together the two bound the requests a provider sees in any stretch of time
\* (rate_limit.py:22, 95), whatever the threads do to each other.
RateKept == TokensBounded /\ RequestsPerToken

\* An empty answer hides no degradation of the text search that its attempt
\* could see: at most the instant between flag and reason, which the
\* provider_shift mode closes (_ddg_search_impl, _ddg_text_search).
DegradationReported ==
  /\ degraded /\ ~named => \E c \in Callers : thread[c].at = "naming"
  /\ \A c \in Callers :
       thread[c].provider = "ddg" /\ answer[c] = "empty" =>
         \/ thread[c].saw = "nothing"
         \/ thread[c].saw = "flag" /\ ddgMode # "provider_shift"

\* Every thread that asks for a token gets one in the end and its call returns
\* or raises, whatever the others take.
EveryCallAnswered ==
  \A c \in Callers : thread[c].at = "acquire" ~> thread[c].at = "done"

=============================================================================
