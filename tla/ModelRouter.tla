------------------------------ MODULE ModelRouter -----------------------------
(***************************************************************************)
(* Which provider a language model call goes to (agents/model_router.py):  *)
(* the first of a ladder of providers that has its credential.  Names of   *)
(* models and temperatures are left out.                                   *)
(***************************************************************************)
EXTENDS Integers, Sequences

Keyed == {"anthropic", "openai", "groq", "openrouter", "huggingface"}
Free == {"groq", "openrouter", "huggingface"}
Tasks == {"planning", "research", "synthesis", "correction", "evaluation"}

\* keys: the providers with a credential (and, for huggingface, its package).
Requests ==
  [ keys     : SUBSET Keyed,
    task     : Tasks,
    tier     : {"enterprise", "default"},
    strategy : {"adaptive", "latency_optimized", "cost_optimized"},
    local    : BOOLEAN,
    prefer   : Free,
    override : {"none", "openai", "local"} ]

VARIABLES
  request,  \* the configuration and the call, NoRequest before it is made
  provider  \* what select_model returned

routerVars == <<request, provider>>

NoRequest == [task |-> "none"]

RouterInit == request = NoRequest /\ provider = "none"

\* A contract customer's model for the tasks that have one.
Enterprise(r) ==
  CASE r.tier = "enterprise" /\ r.task = "synthesis" -> <<"anthropic">>
    [] r.tier = "enterprise" /\ r.task = "planning" -> <<"openai">>
    [] OTHER -> <<>>

Strategic(r) ==
  CASE r.strategy = "latency_optimized" -> <<"groq">>
    [] r.strategy = "cost_optimized" /\ r.local -> <<"local">>
    [] OTHER -> <<>>

ForTask(r) ==
  CASE r.task = "synthesis" -> <<"openrouter", "anthropic", "groq">>
    [] r.task = "correction" -> <<"openai", "groq">>
    [] OTHER -> <<"groq", "openrouter">>

Ladder(r) ==
  Enterprise(r) \o Strategic(r) \o <<r.prefer>> \o ForTask(r)
    \o <<r.prefer, "groq", "openrouter", "huggingface">>

\* Mutant: a provider is used without its credential.
AnyUsable(r, p) == TRUE
Usable(r, p) == p = "local" \/ p \in r.keys

\* A model configured for the task comes first; there is none for correction.
Overridden(r) == r.override # "none" /\ r.task # "correction"

\* The loop over the ladder ends at the first provider that can be used.
SelectModel(r) ==
  LET ladder == Ladder(r)
      usable == {i \in DOMAIN ladder : Usable(r, ladder[i])}
      first == CHOOSE i \in usable : \A j \in usable : i <= j
  IN IF Overridden(r) THEN r.override
     ELSE IF usable = {} THEN "groq" ELSE ladder[first]

Route ==
  /\ request = NoRequest
  /\ request' \in Requests
  /\ provider' = SelectModel(request')

RouterNext == Route
RouterSpec == RouterInit /\ [][RouterNext]_routerVars

\* The two parts of RoutedAsConfigured.  A call goes to a provider that has a
\* credential, unless the configuration names one or no free provider has any:
\* then it goes to groq, although a paid provider might have one
\* (model_router.py:163).
RoutedToCredential ==
  request # NoRequest /\ ~Overridden(request) =>
    \/ provider \in request.keys \cup {"local"}
    \/ provider = "groq" /\ request.keys \cap Free = {}

\* A paid provider is asked only where the task has it on its list: anthropic
\* for synthesis, openai for corrections and an enterprise tenant's planning
\* (model_router.py:96, 131, 137).
PaidByTask ==
  request # NoRequest /\ ~Overridden(request) =>
    /\ provider = "anthropic" => request.task = "synthesis"
    /\ provider = "openai" =>
         \/ request.task = "correction"
         \/ request.task = "planning" /\ request.tier = "enterprise"

\* No mix of tier, strategy, preference and credentials sends a call where it
\* cannot be answered or is not meant to be paid for.
RoutedAsConfigured == RoutedToCredential /\ PaidByTask

=============================================================================
