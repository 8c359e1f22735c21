------------------------------ MODULE Pipeline ------------------------------
(***************************************************************************)
(* The apac driver (cli/src/apac.cpp): it copies every input next to it     *)
(* under the prefix APAC and hands a list of files to each pass in turn.  A *)
(* pass rewrites in place the files it is given.  The text of a file is     *)
(* abstracted to the passes it went through.  Failures are only reported:   *)
(* the driver goes on with the rest.                                        *)
(***************************************************************************)
EXTENDS Naturals, Sequences, SequencesExt

CONSTANTS
  Path,         \* names of files
  files,        \* the command line
  outputFile    \* the name with the prefix APAC

\* The passes of the main pipeline in the order of docs/TECHNICAL_DOC.md.
Passes ==
  <<"DuplicateFunctions", "ConditionUnstack", "MultipleDeclSplitter", "Unstack",
    "DeclarationSplitter", "GotoTransfo", "TaskGraph", "MainParallel">>

VARIABLES
  readable,      \* files that can be opened for reading
  creatable,     \* files that can be created or rewritten
  text,          \* file |-> the passes its text went through
  filesOutput,   \* the copies that were made
  copied,        \* number of inputs handled by the first loop
  passed         \* number of passes that have run

vars == <<readable, creatable, text, filesOutput, copied, passed>>

Init ==
  /\ readable \in {R \in SUBSET Path : Range(outputFile) \subseteq R}
  /\ creatable \in SUBSET Path
  /\ text = [p \in Path |-> <<>>]
  /\ filesOutput = <<>>
  /\ copied = 0
  /\ passed = 0

\* One round of the copying loop: the output is emptied before the input is
\* opened.
copyFile ==
  LET file == files[copied + 1]
      out  == outputFile[file]
  IN  /\ copied < Len(files)
      /\ copied' = copied + 1
      /\ text' = IF out \notin creatable THEN text
                 ELSE IF file \notin readable
                   THEN [text EXCEPT ![out] = <<>>]
                   ELSE [text EXCEPT ![out] = text[file]]
      /\ filesOutput' = IF out \in creatable /\ file \in readable
                          THEN Append(filesOutput, out) ELSE filesOutput
      /\ UNCHANGED <<readable, creatable, passed>>

\* A handler's run over a list of files.  Without an output file the result
\* goes to the standard output.
run(k, input) ==
  LET times(p) == Cardinality({i \in DOMAIN input : input[i] = p})
      again(n) == [i \in 1..n |-> Passes[k]]
  IN  /\ copied = Len(files)
      /\ passed = k - 1
      /\ passed' = k
      /\ text' = IF filesOutput = <<>> THEN text
                 ELSE [p \in Path |->
                        IF p \in readable \cap creatable
                          THEN text[p] \o again(times(p))
                          ELSE text[p]]
      /\ UNCHANGED <<readable, creatable, filesOutput, copied>>

DuplicateFunctionsHandler   == run(1, filesOutput)
ConditionUnstackHandler     == run(2, filesOutput)
MultipleDeclSplitterHandler == run(3, filesOutput)
UnstackHandler              == run(4, files)
DeclarationSplitterHandler  == run(5, filesOutput)
GotoRetHandler              == run(6, filesOutput)
TaskGraphHandler            == run(7, filesOutput)
MainParallelHandler         == run(8, filesOutput)

Next ==
  \/ copyFile
  \/ DuplicateFunctionsHandler
  \/ ConditionUnstackHandler
  \/ MultipleDeclSplitterHandler
  \/ UnstackHandler
  \/ DeclarationSplitterHandler
  \/ GotoRetHandler
  \/ TaskGraphHandler
  \/ MainParallelHandler

Spec == Init /\ [][Next]_vars
-----------------------------------------------------------------------------
\* Every output has gone through the documented chain of passes.
DocumentedChain ==
  passed = Len(Passes) =>
    \A i \in DOMAIN filesOutput : text[filesOutput[i]] = Passes
=============================================================================
