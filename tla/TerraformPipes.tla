---------------------------- MODULE TerraformPipes ----------------------------
(***************************************************************************)
(* TerraformRunner._run: terraform writes to two pipes that hold a bounded *)
(* amount, _run reads the one to its end, then the other, then waits.      *)
(* terraform is external: it writes so many lines to each stream, in any   *)
(* order, blocks on a pipe that is full, and ends on its own or is killed. *)
(***************************************************************************)
EXTENDS Integers

CONSTANTS PipeCapacity,  \* what a pipe holds
          MaxLines       \* bound on the lines of a stream

ASSUME PipesAssumption == PipeCapacity \in Nat \ {0} /\ MaxLines \in Nat

Streams == {"stdout", "stderr"}

VARIABLES
  toWrite,  \* stream -> lines terraform has still to write
  pipe,     \* stream -> lines in the pipe
  taken,    \* stream -> lines _run has read
  written,  \* stream -> lines terraform wrote
  child,    \* "running", "ok" or "failed"
  reader    \* where _run is: a stream, "wait", "returned" or "raised"
pipeVars == <<toWrite, pipe, taken, written, child, reader>>

Nothing == [f \in Streams |-> 0]

PipesInit ==
  /\ toWrite \in [Streams -> 0..MaxLines]
  /\ pipe = Nothing /\ taken = Nothing /\ written = Nothing
  /\ child = "running" /\ reader = "stdout"

Running == reader \notin {"returned", "raised"}

-----------------------------------------------------------------------------
(* terraform *)

Writes(f) ==
  /\ child = "running" /\ toWrite[f] > 0 /\ pipe[f] < PipeCapacity
  /\ toWrite' = [toWrite EXCEPT ![f] = @ - 1]
  /\ pipe' = [pipe EXCEPT ![f] = @ + 1]
  /\ written' = [written EXCEPT ![f] = @ + 1]
  /\ UNCHANGED <<taken, child, reader>>

ChildEnds ==
  /\ child = "running" /\ toWrite = Nothing
  /\ child' \in {"ok", "failed"}
  /\ UNCHANGED <<toWrite, pipe, taken, written, reader>>

ChildKilled ==
  /\ child = "running" /\ Running
  /\ child' = "failed" /\ toWrite' = Nothing
  /\ UNCHANGED <<pipe, taken, written, reader>>

-----------------------------------------------------------------------------
(* _run *)

Closed(f) == child # "running" /\ pipe[f] = 0

ReadsLine ==
  /\ reader \in Streams /\ pipe[reader] > 0
  /\ pipe' = [pipe EXCEPT ![reader] = @ - 1]
  /\ taken' = [taken EXCEPT ![reader] = @ + 1]
  /\ UNCHANGED <<toWrite, written, child, reader>>

\* Variant: _run waits for the process before it has read stderr, and reads no more.
EndOfStdout == reader = "stdout" /\ Closed("stdout") /\ reader' = "wait"
\* "for line in proc.stdout", then "for line in proc.stderr".
EndOfStream ==
  \/ reader = "stdout" /\ Closed("stdout") /\ reader' = "stderr"
  \/ reader = "stderr" /\ Closed("stderr") /\ reader' = "wait"

EndsStream == EndOfStream /\ UNCHANGED <<toWrite, pipe, taken, written, child>>

Waits ==
  /\ reader = "wait" /\ child # "running"
  /\ reader' = IF child = "ok" THEN "returned" ELSE "raised"
  /\ UNCHANGED <<toWrite, pipe, taken, written, child>>

ChildRuns == ChildEnds \/ \E f \in Streams : Writes(f)
ReaderRuns == ReadsLine \/ EndsStream \/ Waits
PipesNext == ChildRuns \/ ChildKilled \/ ReaderRuns

\* Both processes run; nobody has to kill terraform.
PipesFairness == WF_pipeVars(ChildRuns) /\ WF_pipeVars(ReaderRuns)
PipesSpec == PipesInit /\ [][PipesNext]_pipeVars /\ PipesFairness

-----------------------------------------------------------------------------
(* Properties *)

\* The type invariant of the two processes and their pipes.
PipesTypeOK ==
  /\ toWrite \in [Streams -> 0..MaxLines] /\ pipe \in [Streams -> 0..PipeCapacity]
  /\ taken \in [Streams -> 0..MaxLines] /\ written \in [Streams -> 0..MaxLines]
  /\ child \in {"running", "ok", "failed"}
  /\ reader \in Streams \cup {"wait", "returned", "raised"}

\* TerraformRunner._run: however terraform interleaves its streams, and if it is killed,
\* the call ends with every line terraform wrote on either of them, as long as what it has
\* for stderr fits in the pipe; the code reads stdout to its end first.
RunEndsWithAllOutput ==
  (Running /\ written["stderr"] + toWrite["stderr"] <= PipeCapacity)
    ~> (~Running /\ taken = written)
=============================================================================
