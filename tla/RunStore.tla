------------------------------- MODULE RunStore ------------------------------
(***************************************************************************)
(* What a run leaves on disk: its artifact directory, written by the       *)
(* finalize node, and its line in data/run_registry.jsonl, written by      *)
(* run_research; the retention sweep every run makes before it registers   *)
(* itself; and `resume', which reads both back.                            *)
(*                                                                         *)
(* Runs are executed by request threads, by the command line and by Celery *)
(* workers on a shared data directory.  None of the files is locked, so    *)
(* every file operation is a step of its own.                              *)
(*                                                                         *)
(* Abstracted: a registry line is the identifier of its run, which is new  *)
(* for every run; the files of one run, written milliseconds apart, pass   *)
(* the retention limit of days together.                                   *)
(***************************************************************************)
EXTENDS Naturals, Sequences, FiniteSets, SequencesExt

CONSTANTS
  Runs,     \* identifiers of the runs
  Crashes   \* may a process die?

ASSUME Assumption ==
  /\ IsFiniteSet(Runs)
  /\ Crashes \in BOOLEAN

Kinds == {"report", "citations", "eval"}

VARIABLES
  pc,        \* [Runs -> where the process executing the run is]
  files,     \* the artifacts that exist, as <<run, kind>>
  aged,      \* runs whose artifacts are older than the retention limit
  registry,  \* the lines of run_registry.jsonl, newest first
  snapshot,  \* [Runs -> the lines upsert writes back, its own in front]
  registered,\* runs whose upsert has returned
  reader,    \* resume: [at |-> ..., run |-> ..., cited |-> ...]
  raced      \* history: have two upserts overlapped, or has one been cut off?

vars == <<pc, files, aged, registry, snapshot, registered, reader, raced>>

Idle == [at |-> "idle", run |-> "none", cited |-> FALSE]

Init ==
  /\ pc = [r \in Runs |-> "report"]
  /\ files = {} /\ aged = {}
  /\ registry = <<>>
  /\ snapshot = [r \in Runs |-> <<>>]
  /\ registered = {}
  /\ reader = Idle
  /\ raced = FALSE

GoTo(r, place) == pc' = [pc EXCEPT ![r] = place]

-----------------------------------------------------------------------------
(* Finalize.                                                               *)

\* Mutant: eval.json is written before citations.json.
EvalFirst == [k \in Kinds |-> CASE k = "report" -> "eval"
                               [] k = "eval" -> "citations"
                               [] k = "citations" -> "sweep"]
NextKind  == [k \in Kinds |-> CASE k = "report" -> "citations"
                               [] k = "citations" -> "eval"
                               [] k = "eval" -> "sweep"]

\* The three files are written in turn; when one cannot be written the rest
\* are skipped and the run goes on, degraded.
WriteArtifact(r) ==
  /\ pc[r] \in Kinds
  /\ \/ files' = files \cup {<<r, pc[r]>>} /\ GoTo(r, NextKind[pc[r]])
     \/ UNCHANGED files /\ GoTo(r, "sweep")
  /\ UNCHANGED <<aged, registry, snapshot, registered, reader, raced>>

-----------------------------------------------------------------------------
(* Retention.                                                              *)

\* Days go by.
Age(r) ==
  /\ pc[r] \in {"done", "dead"}
  /\ aged' = aged \cup {r}
  /\ UNCHANGED <<pc, files, registry, snapshot, registered, reader, raced>>

\* Within a directory the sweep goes through the names backwards.
Expired(f) ==
  /\ f \in files
  /\ f[1] \in aged
  /\ f[2] = "eval" => <<f[1], "report">> \notin files
  /\ f[2] = "citations" => <<f[1], "report">> \notin files
                             /\ <<f[1], "eval">> \notin files

SweepOne(r) ==
  /\ pc[r] = "sweep"
  /\ \E f \in files : Expired(f) /\ files' = files \ {f}
  /\ UNCHANGED <<pc, aged, registry, snapshot, registered, reader, raced>>

SweepDone(r) ==
  /\ pc[r] = "sweep"
  /\ ~ \E f \in files : Expired(f)
  /\ GoTo(r, "read")
  /\ UNCHANGED <<files, aged, registry, snapshot, registered, reader, raced>>

-----------------------------------------------------------------------------
(* The registry.                                                           *)

Upserting == {r \in Runs : pc[r] \in {"truncate", "write"}}

\* Mutant: only the lines read from the file are written back.
WriteBackRead(r, lines) == lines

\* Lines are keyed by run and sorted by time; the identifier of this run is
\* in none of them, and its line is the newest.
Merged(r, lines) == <<r>> \o lines

ReadRegistry(r) ==
  /\ pc[r] = "read"
  /\ snapshot' = [snapshot EXCEPT ![r] = Merged(r, registry)]
  /\ raced' = (raced \/ Upserting # {})
  /\ GoTo(r, "truncate")
  /\ UNCHANGED <<files, aged, registry, registered, reader>>

\* write_text opens the file for writing, which empties it, ...
Truncate(r) ==
  /\ pc[r] = "truncate"
  /\ registry' = <<>>
  /\ GoTo(r, "write")
  /\ UNCHANGED <<files, aged, snapshot, registered, reader, raced>>

\* ... and writes from its start.  Lines another writer has put there since
\* stay behind the new ones as far as they are longer.
Write(r) ==
  /\ pc[r] = "write"
  /\ LET behind == IF Len(registry) > Len(snapshot[r])
                   THEN SubSeq(registry, Len(snapshot[r]) + 1, Len(registry))
                   ELSE <<>> IN
       registry' = snapshot[r] \o behind
  /\ registered' = registered \cup {r}
  /\ GoTo(r, "done")
  /\ UNCHANGED <<files, aged, snapshot, reader, raced>>

Crash(r) ==
  /\ Crashes
  /\ pc[r] \notin {"done", "dead"}
  /\ raced' = (raced \/ pc[r] = "write")
  /\ GoTo(r, "dead")
  /\ UNCHANGED <<files, aged, registry, snapshot, registered, reader>>

-----------------------------------------------------------------------------
(* Resume.                                                                 *)

Have(r, kind) == <<r, kind>> \in files

\* A run that is not in the registry, and a run without a report or an eval
\* file, cannot be resumed.
ResumeStart(r) ==
  /\ reader.at = "idle"
  /\ reader' =
       IF ~ Contains(registry, r)
       THEN [at |-> "not_found", run |-> r, cited |-> FALSE]
       ELSE IF Have(r, "report") /\ Have(r, "eval")
            THEN [at |-> "report", run |-> r, cited |-> FALSE]
            ELSE [at |-> "missing", run |-> r, cited |-> FALSE]
  /\ UNCHANGED <<pc, files, aged, registry, snapshot, registered, raced>>

\* A file that has gone since the check raises as well.
ResumeReport ==
  /\ reader.at = "report"
  /\ reader' = [reader EXCEPT !.at = IF Have(reader.run, "report")
                                     THEN "citations" ELSE "missing"]
  /\ UNCHANGED <<pc, files, aged, registry, snapshot, registered, raced>>

\* Only the citations may be absent.
ResumeCitations ==
  /\ reader.at = "citations"
  /\ reader' = [reader EXCEPT !.at = "eval",
                              !.cited = Have(reader.run, "citations")]
  /\ UNCHANGED <<pc, files, aged, registry, snapshot, registered, raced>>

ResumeEval ==
  /\ reader.at = "eval"
  /\ reader' = [reader EXCEPT !.at = IF Have(reader.run, "eval")
                                     THEN "resumed" ELSE "missing"]
  /\ UNCHANGED <<pc, files, aged, registry, snapshot, registered, raced>>

ResumeAgain ==
  /\ reader.at \in {"not_found", "missing", "resumed"}
  /\ reader' = Idle
  /\ UNCHANGED <<pc, files, aged, registry, snapshot, registered, raced>>

-----------------------------------------------------------------------------

RunStep(r) ==
  \/ WriteArtifact(r) \/ Age(r) \/ SweepOne(r) \/ SweepDone(r)
  \/ ReadRegistry(r) \/ Truncate(r) \/ Write(r) \/ Crash(r)

Next ==
  \/ \E r \in Runs : RunStep(r) \/ ResumeStart(r)
  \/ ResumeReport \/ ResumeCitations \/ ResumeEval \/ ResumeAgain

Spec == Init /\ [][Next]_vars

-----------------------------------------------------------------------------
(* Properties.                                                             *)

Places == Kinds \cup {"sweep", "read", "truncate", "write", "done", "dead"}
Stages == {"idle", "report", "citations", "eval", "not_found", "missing",
           "resumed"}

\* Every variable holds a value of its kind.
TypeOK ==
  /\ pc \in [Runs -> Places]
  /\ files \subseteq Runs \X Kinds
  /\ aged \subseteq Runs /\ registered \subseteq Runs /\ raced \in BOOLEAN
  /\ registry \in Seq(Runs)
  /\ snapshot \in [Runs -> Seq(Runs)]
  /\ reader \in [at : Stages, run : Runs \cup {"none"}, cited : BOOLEAN]
  /\ reader.at # "idle" => reader.run \in Runs

\* A run that is resumed comes with its citations, although citations.json is
\* the one file resume does not insist on: it is written before eval.json and
\* swept after it, so a reader that finds eval.json last has found it too.
ResumedWhole == reader.at = "resumed" => reader.cited

\* What tests/unit/test_run_registry.py asserts of one run: once its upsert
\* has returned the registry has its record (while nobody is rewriting it).
RegisteredStays ==
  (\A r \in Runs : pc[r] # "write")
    => \A r \in registered : Contains(registry, r)

\* It takes two upserts at a time, or a process that dies while it rewrites
\* the file, to lose a record.
LostOnlyInARace == ~raced => RegisteredStays

=============================================================================
