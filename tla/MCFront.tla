------------------------------- MODULE MCFront -------------------------------
(***************************************************************************)
(* A small instance for TLC of both ends of a request: the service that    *)
(* dispatches it and the page that makes it.  Of the service the page sees *)
(* no more than a stream that opens, carries events and ends, which        *)
(* ResearchPage leaves open anyway, so a behaviour is one of the service   *)
(* or one of the page, while the other stays as it was at the start.       *)
(***************************************************************************)
EXTENDS MCRequestDispatch, ResearchPage

\* The page need not be looked at once for each initial state of the service.
OneStart ==
  /\ ~celery /\ ~broker /\ ~worker
  /\ \A r \in Requests :
       pc[r] = "new" /\ asked[r].kind = "graph" /\ asked[r].tier = DefaultTier

ServicePart == PageInit /\ Next /\ UNCHANGED pageVars
PagePart    == OneStart /\ PageNext /\ UNCHANGED vars

FrontInit == Init /\ PageInit

FrontSpec ==
  /\ FrontInit
  /\ [][ServicePart \/ PagePart]_<<vars, pageVars>>
  /\ \A r \in Requests : WF_vars(PageInit /\ Handler(r))
  /\ WF_pageVars(OneStart /\ NetworkAnswers)

=============================================================================
