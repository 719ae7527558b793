---------------------------- MODULE CommandLine -----------------------------
(* The program from main to its exit code: options, loading, the            *)
(* typechecker, the transformations and one command.  What the parts below   *)
(* answer is arbitrary; the interpreter is the module Interpreter.           *)
EXTENDS Interpreter

CONSTANT Loaders   \* the loaders that were built in

MCCommands == {"mc", "enum", "convert", "intp"}

\* valid: the command line parses. A word that is no command leaves none. The
\* expectation only matters to mc.
Options == {o \in [valid : BOOLEAN, help : BOOLEAN, loader : {"LLVM", "mmc", "other"},
                   command : MCCommands \cup {"none"}, expect : 0 .. 3,
                   transform : SUBSET {"expand", "unroll", "inline"}] :
              o.command # "mc" => o.expect = 0}

VARIABLES
  options,
  phase,     \* where main is
  passes,    \* the transformations done
  verdict,   \* of the search
  printed,   \* the messages about a violation
  exit       \* the exit code, -1 while main runs
vars == <<options, phase, passes, verdict, printed, exit, ivars>>

AllGood == 0
RuntimeError == 1
ConfigurationError == 2
UnexpectedResult == 4
TypeError == 255
Running == -1

Init ==
  /\ options \in Options
  /\ phase = "options" /\ passes = <<>> /\ verdict = "none" /\ printed = "nothing" /\ exit = Running
  /\ InterpreterInit

Go(from, to) == phase = from /\ phase' = to /\ UNCHANGED <<options, exit, ivars>>
End(from, code) == phase = from /\ phase' = "exited" /\ exit' = code /\ UNCHANGED options

\* A loader that is not known throws when the options are read; a command line
\* that does not parse, and help, let main run to its end.
ParseOptions ==
  IF options.valid /\ options.loader \notin Loaders
  THEN End("options", ConfigurationError) /\ UNCHANGED <<passes, verdict, printed, ivars>>
  ELSE IF ~options.valid \/ options.help
  THEN End("options", AllGood) /\ UNCHANGED <<passes, verdict, printed, ivars>>
  ELSE Go("options", "load") /\ UNCHANGED <<passes, verdict, printed>>

\* An exception of a loader, a transformation or a command.
Throw ==
  /\ phase \in {"load", "transform", "command", "search"} /\ session = "off"
  /\ End(phase, RuntimeError)
  /\ UNCHANGED <<passes, verdict, printed, ivars>>

Load == Go("load", "typecheck") /\ passes' = <<"lowerPhi">> /\ UNCHANGED <<verdict, printed>>

Typecheck ==
  /\ \/ Go("typecheck", "transform")
     \/ End("typecheck", TypeError) /\ UNCHANGED ivars
  /\ UNCHANGED <<passes, verdict, printed>>

\* transformProgram.
Option(pass) == IF pass \in options.transform THEN <<pass>> ELSE <<>>
Asked == <<"splitAsserts">> \o Option("expand") \o Option("unroll") \o Option("inline")

TransformProgram == Go("transform", "output") /\ passes' = passes \o Asked /\ UNCHANGED <<verdict, printed>>

\* writeProgram.
Output == Go("output", "command") /\ UNCHANGED <<passes, verdict, printed>>

NoCommand ==
  /\ options.command = "none"
  /\ End("command", ConfigurationError)
  /\ UNCHANGED <<passes, verdict, printed, ivars>>

Convert ==
  /\ options.command = "convert"
  /\ End("command", AllGood)
  /\ UNCHANGED <<passes, verdict, printed, ivars>>

\* makeInitialState and the search of mc or enum; the goal of enum is never met.
Search ==
  /\ options.command \in {"mc", "enum"}
  /\ Go("command", "search")
  /\ verdict' \in IF options.command = "mc" THEN {"Found", "NotFound"} ELSE {"NotFound"}
  /\ UNCHANGED <<passes, printed>>

\* --mc.expect: 1 a violation, 2 inconclusive, anything else none.
Expected == CASE options.expect = 1 -> "Reachable" [] options.expect = 2 -> "Inconclusive" [] OTHER -> "NotReachable"

\* Mutation: what is expected is looked at for a violation only.
CodeForFoundOnly(v) == IF v = "Found" /\ Expected # "Reachable" THEN UnexpectedResult ELSE AllGood

CodeFor(v) == IF (v = "Found") = (Expected = "Reachable") THEN AllGood ELSE UnexpectedResult

McAnswers ==
  /\ options.command = "mc"
  /\ printed' = IF verdict = "Found" THEN "Found Violation" ELSE "No violation found"
  /\ End("search", CodeFor(verdict))
  /\ UNCHANGED <<passes, verdict, ivars>>

EnumAnswers ==
  /\ options.command = "enum"
  /\ End("search", AllGood)
  /\ UNCHANGED <<passes, verdict, printed, ivars>>

StartInterpreter ==
  /\ options.command = "intp" /\ phase = "command" /\ Open
  /\ UNCHANGED <<options, phase, passes, verdict, printed, exit>>

Interpreting ==
  /\ options.command = "intp" /\ phase = "command" /\ Interpret
  /\ UNCHANGED <<options, phase, passes, verdict, printed, exit>>

\* A session that ends, or in which a CPA throws.
EndSession ==
  /\ session \in {"quit", "raised"}
  /\ End("command", IF session = "quit" THEN AllGood ELSE RuntimeError)
  /\ UNCHANGED <<passes, verdict, printed, ivars>>

Next == ParseOptions \/ Throw \/ Load \/ Typecheck \/ TransformProgram \/ Output \/ NoCommand \/ Convert
        \/ Search \/ McAnswers \/ EnumAnswers \/ StartInterpreter \/ Interpreting \/ EndSession

Spec == Init /\ [][Next]_vars

-----------------------------------------------------------------------------
TypeOK ==
  /\ DOMAIN map \subseteq Names /\ \A n \in DOMAIN map : map[n] \in State \cup {Null}
  /\ session \in {"off", "on", "quit", "raised", "undefined"}
  /\ exit \in {Running, AllGood, RuntimeError, ConfigurationError, UnexpectedResult, TypeError}
  /\ phase = "exited" <=> exit # Running

\* A script that only looks at the exit code of mc is told what the search found:
\* zero, of a command line that parsed, means that the program was searched with
\* every transformation asked for and a violation was found exactly when one was
\* expected.
ExitTellsVerdict ==
  exit = AllGood /\ options.command = "mc" /\ options.valid /\ ~options.help =>
    /\ verdict # "none" /\ options.transform \cup {"splitAsserts"} \subseteq ToSet(passes)
    /\ (verdict = "Found") <=> (options.expect = 1)
=============================================================================
