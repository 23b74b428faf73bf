------------------------------- MODULE Driver -------------------------------
(***************************************************************************)
(* Ecc::run: the input files are compiled one after the other in one        *)
(* process, each by the Frontend, which reads the output of a cpp process   *)
(* through a pipe, and the Backend; the arena and the pool of interned      *)
(* strings are shared and reset between files.                              *)
(***************************************************************************)
EXTENDS Arena

CONSTANTS MaxFiles,   \* on the command line
          StopAts,    \* the values of stop_at considered
          MaxOutput,  \* what cpp writes for a file, in pieces
          PipeSize,   \* the pieces a pipe holds
          MaxOps      \* steps on the arena for a file

ASSUME DriverAssumption ==
  /\ MaxFiles \in Nat /\ StopAts \subseteq 0 .. 8
  /\ MaxOutput \in Nat /\ PipeSize \in Nat \ {0} /\ MaxOps \in Nat
  /\ 1 \in Aligns  \* that of characters

VARIABLES files, stop_at, errors_found,
          file,       \* the file being compiled
          at,         \* where the compiler stands
          throwing,   \* the exception on its way, or "none"
          exit,       \* the exit status, or "none"
          pool,       \* interned strings, by the blocks that hold them
          cpp,        \* the child process and its end of the pipe
          reading,    \* the read end is open
          results,    \* per file: what came of it, and of its cpp
          reaped,     \* files whose cpp has been waited for, one entry a wait
          ops

config  == << files, stop_at >>
child   == << cpp, reading, reaped >>
outcome == << errors_found, results, exit >>
vars == << avars, config, child, outcome, file, at, throwing, pool, ops >>

GEN_MIR == 2
VALIDATE == 3
GEN_LIR == 4

NoCpp == [st |-> "none", left |-> 0, buf |-> 0]

Init ==
  /\ AInit
  /\ files \in 0 .. MaxFiles /\ stop_at \in StopAts
  /\ errors_found = FALSE /\ file = 1 /\ throwing = "none"
  /\ IF files = 0 THEN at = "exiting" /\ exit = "1"
                  ELSE at = "next" /\ exit = "none"
  /\ pool = {} /\ cpp = NoCpp /\ reading = FALSE /\ reaped = << >>
  /\ results = << >> /\ ops = 0

-----------------------------------------------------------------------------
(* The child.  It may fail at any time; it blocks while the pipe is full.  *)
CppWrites ==
  /\ cpp.st = "running" /\ cpp.left > 0 /\ reading /\ cpp.buf < PipeSize
  /\ cpp' = [cpp EXCEPT !.left = @ - 1, !.buf = @ + 1]

CppKilled ==  \* SIGPIPE
  /\ cpp.st = "running" /\ cpp.left > 0 /\ ~reading
  /\ cpp' = [cpp EXCEPT !.st = "killed"]

CppExits ==
  /\ cpp.st = "running" /\ cpp.left = 0
  /\ cpp' = [cpp EXCEPT !.st = "ok"]

CppFails ==
  /\ cpp.st = "running"
  /\ cpp' = [cpp EXCEPT !.st = "bad"]

Beside == UNCHANGED << avars, config, outcome, reading, reaped, file, at,
                       throwing, pool, ops >>

Cpp == (CppWrites \/ CppKilled \/ CppExits) /\ Beside

-----------------------------------------------------------------------------
(* A file.  *)

\* Preprocessor's constructor: popen.
StartFile ==
  /\ at = "next" /\ file <= files
  /\ ops' = 0
  /\ \/ /\ \E n \in 0 .. MaxOutput :
             cpp' = [st |-> "running", left |-> n, buf |-> 0]
        /\ reading' = TRUE /\ at' = "parse" /\ UNCHANGED throwing
     \/ /\ cpp' = NoCpp /\ throwing' = "ecc" /\ at' = "caught"
        /\ UNCHANGED reading
  /\ UNCHANGED << avars, config, outcome, reaped, file, pool >>

Working == at \in {"parse", "mir", "validate", "lower"}

\* intern_string: a new string; its characters are in the arena.
Intern(n) ==
  /\ AllocateBytes(n, 1)
  /\ pool' = pool \cup {Len(blocks) + 1}

Uses ==
  /\ Working
  /\ \/ /\ ops < MaxOps /\ ops' = ops + 1
        /\ \E n \in Sizes :
             \/ Intern(n)
             \/ /\ UNCHANGED pool
                /\ \E align \in Aligns :
                     \/ AllocateBytes(n, align)
                     \/ \E d \in BOOLEAN : StartCreate(n, align, d)
     \/ FinishCreate /\ UNCHANGED << pool, ops >>
  /\ UNCHANGED << config, child, outcome, file, at, throwing >>

\* An exception leaves every constructor that runs.
Throw(what, to) ==
  /\ throwing' = what /\ at' = to
  /\ Unwind(0)

Goes(to) == making = << >> /\ at' = to /\ UNCHANGED << avars, throwing >>

\* The lexer reads what cpp has written; at the end of the file there is
\* nothing in the pipe and nobody to write.
Reads ==
  /\ at = "parse" /\ cpp.buf > 0
  /\ cpp' = [cpp EXCEPT !.buf = @ - 1]
  /\ UNCHANGED << avars, config, outcome, reading, reaped, file, at,
                  throwing, pool, ops >>

AtEnd == cpp.buf = 0 /\ cpp.st # "running"

\* The parser is done, it finds a syntax error, or something else is thrown;
\* only then the destructor of the Preprocessor closes the pipe.
Parsed ==
  /\ at = "parse"
  /\ \/ AtEnd /\ Goes("close")
     \/ (cpp.buf > 0 \/ AtEnd) /\ (Throw("parse", "close") \/ Throw("std", "drop"))
  /\ UNCHANGED << config, child, outcome, file, pool, ops >>

\* pclose: the read end is closed, and then the child is waited for.
\* A mutation: the child is waited for while the read end is open.
ClosesLate ==
  /\ at \in {"close", "drop"} /\ reading /\ cpp.st # "running"
  /\ reading' = FALSE
  /\ UNCHANGED << avars, config, outcome, cpp, reaped, file, at, throwing,
                  pool, ops >>

Closes ==
  /\ at \in {"close", "drop"} /\ reading
  /\ reading' = FALSE
  /\ UNCHANGED << avars, config, outcome, cpp, reaped, file, at, throwing,
                  pool, ops >>

Failed == cpp.st # "ok"

\* A mutation: the child's status only looked at after a syntax error.
AfterCloseOfError ==
  IF at = "close" /\ throwing = "parse" /\ Failed THEN "preproc" ELSE throwing

AfterClose ==
  IF at = "close" /\ Failed THEN "preproc" ELSE throwing

\* A mutation: PreprocError thrown before the pipe is forgotten.
ReapsAgain ==
  /\ at \in {"close", "drop"} /\ ~reading /\ cpp.st # "running"
  /\ reaped' = Append(reaped, file)
  /\ throwing' = AfterClose
  /\ at' = IF at = "close" /\ Failed THEN "drop"
           ELSE IF AfterClose = "none" THEN "mir" ELSE "caught"
  /\ UNCHANGED << avars, config, outcome, cpp, reading, file, pool, ops >>

Reaps ==
  /\ at \in {"close", "drop"} /\ ~reading /\ cpp.st # "running"
  /\ reaped' = Append(reaped, file)
  /\ throwing' = AfterClose
  /\ at' = IF AfterClose = "none" THEN "mir" ELSE "caught"
  /\ UNCHANGED << avars, config, outcome, cpp, reading, file, pool, ops >>

\* Backend::run up to the gate that stops it.
Gate == [mir |-> GEN_MIR, validate |-> VALIDATE, lower |-> GEN_LIR]
After == [mir |-> "validate", validate |-> "lower", lower |-> "caught"]

Backend ==
  /\ at \in DOMAIN Gate
  /\ IF stop_at < Gate[at] THEN Goes("caught")
     ELSE \/ Goes(After[at])
          \/ at # "lower" /\ Throw("unable", "caught")
          \/ Throw("ecc", "caught") \/ Throw("std", "caught")
  /\ UNCHANGED << config, child, outcome, file, pool, ops >>

-----------------------------------------------------------------------------
(* Ecc::run: what follows a file, and the end of the process.  *)
\* A mutation: syntax errors given up like the files with errors.
CatchesNotParse == throwing \in {"preproc", "ecc"}

Catches == throwing \in {"parse", "preproc", "ecc"}

\* Ecc::reset; a mutation: only the arena.
ResetsArenaOnly == UNCHANGED pool /\ StartWalk("reset")
Resets == pool' = {} /\ StartWalk("reset")

Caught ==
  /\ at = "caught"
  /\ results' = Append(results, [of |-> throwing, cpp |-> cpp.st])
  /\ IF Catches
     THEN /\ at' = "exiting" /\ exit' = "1"
          /\ UNCHANGED << avars, pool, errors_found >>
     ELSE /\ Resets
          /\ at' = "resetting" /\ exit' = exit
          /\ errors_found' = (errors_found \/ throwing = "unable")
  /\ UNCHANGED << config, child, file, throwing, ops >>

Walk ==
  /\ at \in {"resetting", "leaving"} /\ Destroy
  /\ UNCHANGED << config, child, outcome, file, at, throwing, pool, ops >>

ResetEnds ==
  /\ at = "resetting" /\ Release
  /\ IF throwing = "std"
     THEN at' = "exiting" /\ exit' = "69" /\ UNCHANGED << file, throwing >>
     ELSE /\ at' = "next" /\ file' = file + 1 /\ throwing' = "none"
          /\ UNCHANGED exit
  /\ UNCHANGED << config, child, errors_found, results, pool, ops >>

AllFiles ==
  /\ at = "next" /\ file > files
  /\ at' = "exiting"
  /\ exit' = IF errors_found THEN "1" ELSE "0"
  /\ UNCHANGED << avars, config, child, errors_found, results, file, throwing,
                  pool, ops >>

\* Static objects are destroyed: the arena's destructor walks its cleanups.
Leaves ==
  /\ at = "exiting"
  /\ at' = "leaving" /\ StartWalk("exit")
  /\ UNCHANGED << config, child, outcome, file, throwing, pool, ops >>

Exits ==
  /\ at = "leaving" /\ Release
  /\ at' = "done" /\ pool' = {}
  /\ UNCHANGED << config, child, outcome, file, throwing, ops >>

Compiler ==
  \/ StartFile \/ Uses \/ Reads \/ Parsed \/ Closes \/ Reaps \/ Backend
  \/ Caught \/ Walk \/ ResetEnds \/ AllFiles \/ Leaves \/ Exits

Finished == at = "done" /\ UNCHANGED vars

Next == Compiler \/ Cpp \/ (CppFails /\ Beside) \/ Finished

\* The compiler and cpp are processes of their own, scheduled by the system;
\* nothing makes cpp fail.
Spec == Init /\ [][Next]_vars /\ WF_vars(Compiler) /\ WF_vars(Cpp)

-----------------------------------------------------------------------------
(* Properties.  *)
Results == {"none", "parse", "preproc", "ecc", "unable", "std"}

\* The state of the run keeps its types.
TypeOK ==
  /\ ArenaTypeOK
  /\ files \in 0 .. MaxFiles /\ file \in 1 .. files + 1
  /\ throwing \in Results /\ exit \in {"none", "0", "1", "69"}
  /\ pool \in SUBSET Nat /\ ops \in 0 .. MaxOps
  /\ cpp.left \in 0 .. MaxOutput /\ cpp.buf \in 0 .. PipeSize

\* Every interned string the pool still finds lies in memory that has not been
\* given back (util/string.cpp:67-102, ecc.cpp:55-58).
InternedLive == pool \subseteq DOMAIN blocks

\* Between files the arena and the pool are empty.
NothingKept ==
  at = "next" => /\ phase = "open" /\ blocks = << >> /\ cleanups = << >>
                 /\ making = << >> /\ pool = {} /\ custom = << >>
                 /\ Len(slabs) <= 1

\* Whatever became of a file, with however many exceptions on the way, nothing
\* of it can be reached while the next one is compiled (ecc.cpp:22-36).
FilesIndependent == TypeOK /\ InternedLive /\ NothingKept

\* Some file ended like this.
Saw(w) == \E i \in DOMAIN results : results[i].of = w

\* The exit status says what happened: 0 when every file went through, 1 when
\* some file has errors, 69 for anything else; files are only left out after
\* an error that is not UnableToContinue.
ExitCodeTells ==
  exit # "none" =>
    /\ (exit = "0") <=> (files > 0 /\ \A w \in Results \ {"none"} : ~Saw(w))
    /\ (exit = "69") <=> Saw("std")
    /\ Len(results) < files =>
         Len(results) > 0 /\ results[Len(results)].of \notin {"none", "unable"}

\* frontend.cpp:28-38: a file that goes on to the Backend, or whose syntax
\* error is reported, has been preprocessed to its end without an error; so
\* output that cpp cut short is not compiled though it may parse.
CppSucceeded ==
  \A i \in DOMAIN results :
    results[i].of \in {"none", "parse", "unable"} => results[i].cpp = "ok"

\* preproc.cpp:26-40: every child is waited for, and once, whichever of
\* close() and the destructor does it.
ReapedOnce ==
  \A i \in DOMAIN results :
    Cardinality({ n \in DOMAIN reaped : reaped[n] = i })
      = IF results[i].cpp = "none" THEN 0 ELSE 1

\* The compiler ends, however much cpp still has to write when a syntax error
\* is found (preproc.cpp:26-34).
Terminates == <>(at = "done")
=============================================================================
