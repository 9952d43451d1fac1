------------------------------ MODULE MemoryStore -----------------------------
(***************************************************************************)
(* The memory of finished runs (memory/chroma_store.py): a line of JSON    *)
(* per run in memory_store.jsonl and, when chromadb can be used, an entry  *)
(* of its collection.  The planner of every run looks for similar runs     *)
(* before it researches, and finalize adds the run; request threads,       *)
(* workers and the command line share the directory without locks.         *)
(*                                                                         *)
(* A line is one write of an append, which a crash or a full disk may cut  *)
(* short; what is appended after it continues the same line.  The file is  *)
(* the sequence of these pieces, with how each ends:                       *)
(*   line     the whole line                                               *)
(*   unended  all of it but the newline                                    *)
(*   torn     a beginning that is no JSON                                  *)
(*                                                                         *)
(* Abstracted: queries, summaries, scores and the results themselves.      *)
(***************************************************************************)
EXTENDS Naturals, Sequences, FiniteSets, SequencesExt

CONSTANTS
  Remembered,  \* the runs, in no order
  MaxCuts      \* bound: writes that are cut short

ASSUME MemoryAssumption == IsFiniteSet(Remembered) /\ MaxCuts \in Nat

VARIABLES
  step,        \* [Remembered -> where the run is]
  pieces,      \* memory_store.jsonl, a sequence of [run, ends]
  collection,  \* runs in the collection of chromadb
  cut          \* runs whose write was cut short

memoryVars == <<step, pieces, collection, cut>>

MemoryInit ==
  /\ step = [r \in Remembered |-> "planner"]
  /\ pieces = <<>> /\ collection = {}
  /\ cut = {}

Becomes(r, place) == step' = [step EXCEPT ![r] = place]

-----------------------------------------------------------------------------
(* retrieve_similar.                                                       *)

\* A line can be read when its one piece is whole.
Readable(i) ==
  /\ pieces[i].ends \in {"line", "unended"}
  /\ i > 1 => pieces[i - 1].ends = "line"

FileReadable == \A i \in DOMAIN pieces : Readable(i)

\* The collection answers from what it holds, ...
RecallFromCollection(r) ==
  /\ step[r] = "planner"
  /\ collection # {}
  /\ Becomes(r, "research")
  /\ UNCHANGED <<pieces, collection, cut>>

\* ... and when it is missing, fails or is empty the file does, ...
RecallFromFile(r) ==
  /\ step[r] = "planner"
  /\ FileReadable
  /\ Becomes(r, "research")
  /\ UNCHANGED <<pieces, collection, cut>>

\* ... unless some line of it, anyone's, is no JSON: json.loads raises, the
\* planner does not catch it, and the run ends.
RecallRaises(r) ==
  /\ step[r] = "planner"
  /\ ~FileReadable
  /\ Becomes(r, "unplanned")
  /\ UNCHANGED <<pieces, collection, cut>>

-----------------------------------------------------------------------------
(* add_run.                                                                *)

\* The rest of the run; it may also fail for a reason of its own.
Research(r) ==
  /\ step[r] = "research"
  /\ \E place \in {"add", "failed"} : Becomes(r, place)
  /\ UNCHANGED <<pieces, collection, cut>>

AppendPiece(r, ends) == pieces' = Append(pieces, [run |-> r, ends |-> ends])

\* Mutant: the newline is forgotten.
NoNewline == "unended"
WholeLine == "line"

AddRun(r) ==
  /\ step[r] = "add"
  /\ AppendPiece(r, WholeLine)
  /\ Becomes(r, "index")
  /\ UNCHANGED <<collection, cut>>

\* The write is cut short: the disk is full, which finalize reports, or the
\* process dies.
AddRunCut(r) ==
  /\ step[r] = "add"
  /\ Cardinality(cut) < MaxCuts /\ cut' = cut \cup {r}
  /\ \/ UNCHANGED pieces
     \/ \E ends \in {"unended", "torn"} : AppendPiece(r, ends)
  /\ \E place \in {"done", "dead"} : Becomes(r, place)
  /\ UNCHANGED collection

\* The collection takes the run too, if there is one and it does not fail and
\* the process does not die first.
Index(r) ==
  /\ step[r] = "index"
  /\ \/ collection' = collection \cup {r}
     \/ UNCHANGED collection
  /\ \E place \in {"done", "dead"} : Becomes(r, place)
  /\ UNCHANGED <<pieces, cut>>

-----------------------------------------------------------------------------
MemoryNext ==
  \E r \in Remembered :
    \/ RecallFromCollection(r)
    \/ RecallFromFile(r)
    \/ RecallRaises(r)
    \/ Research(r)
    \/ AddRun(r)
    \/ AddRunCut(r)
    \/ Index(r)

MemorySpec == MemoryInit /\ [][MemoryNext]_memoryVars

-----------------------------------------------------------------------------
(* Properties.                                                             *)

\* Every variable holds a value of its kind, and the file never has two pieces
\* of one run.
MemoryTypeOK ==
  /\ step \in [Remembered -> {"planner", "research", "add", "index", "done",
                              "failed", "unplanned", "dead"}]
  /\ pieces \in Seq([run : Remembered, ends : {"line", "unended", "torn"}])
  /\ \A i, j \in DOMAIN pieces : pieces[i].run = pieces[j].run => i = j
  /\ collection \subseteq Remembered
  /\ cut \subseteq Remembered /\ Cardinality(cut) <= MaxCuts

\* The two parts of CutWritesExplain.  The planner of a run fails on the
\* memory of the others (json.loads in retrieve_similar) only after the write
\* of one of them was cut short; a line that only lost its newline does no harm
\* until another run adds its own.
LostToACutWrite ==
  (\E r \in Remembered : step[r] = "unplanned") =>
    \E i \in DOMAIN pieces :
      /\ pieces[i].run \in cut
      /\ pieces[i].ends = "torn" \/ i < Len(pieces)

\* The collection holds no run of which the file has not the whole line, though
\* perhaps behind one that was cut (add_run writes the file first).
IndexedAreWritten ==
  \A r \in collection :
    \E i \in DOMAIN pieces : pieces[i] = [run |-> r, ends |-> "line"]

\* A write that was cut short is the one thing that loses a memory or another
\* run (chroma_store.py:89, planner.py:314).
CutWritesExplain == LostToACutWrite /\ IndexedAreWritten

=============================================================================
