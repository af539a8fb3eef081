--------------------------------- MODULE Cli ---------------------------------
(***************************************************************************)
(* main() of src/main.rs: one pass over the arguments that fills in the    *)
(* options, then one test after the other for what to do.  An outcome is   *)
(* what main calls, and with what; what becomes of the call is the         *)
(* business of the other modules.                                          *)
(***************************************************************************)
EXTENDS Naturals, FiniteSets, SequencesExt

CONSTANTS
  CommandLines,   \* the arguments after the program's name, a set of sequences
  Numbers,        \* arguments that parse as u64 and usize
  JsonFiles       \* arguments that end in ".json"

Modes == {"--mutate", "--exec", "--triage", "--gen-pqr", "--gen-corpus", "--gen-smart",
          "--gen-jit-stress"}
PathFlags   == {"--load", "-o"}
NumberFlags == {"--count", "--seed"}
HelpFlags   == {"--help", "-h"}

Flags == Modes \cup PathFlags \cup NumberFlags \cup HelpFlags \cup {"--no-verify"}

None == "none"

ASSUME CliAssumption ==
  /\ CommandLines \subseteq Seq(STRING)
  /\ \A s \in Numbers \cup JsonFiles : s \notin Flags \cup {None}

VARIABLES
  args,      \* the command line
  i,         \* the argument to look at next
  opts,      \* the options so far
  outcome    \* what main did, once it did

vars == <<args, i, opts, outcome>>

NoOptions ==
  [modes |-> {}, no_verify |-> FALSE, input_files |-> <<>>, output_path |-> None,
   seed |-> None, count |-> None]

(* reads pairs a file with the format it is taken to have; out is the file *)
(* or directory written to, none for standard output.                      *)
Call(what) ==
  [what |-> what, reads |-> <<>>, out |-> None, seed |-> None, count |-> None,
   verify |-> TRUE]

Undecided == Call("nothing yet")

Init ==
  /\ args \in CommandLines
  /\ i = 1
  /\ opts = NoOptions
  /\ outcome = Undecided

-----------------------------------------------------------------------------
(* The loop over the arguments.                                            *)

At(flags) == outcome = Undecided /\ i <= Len(args) /\ args[i] \in flags

Set(new, consumed) == opts' = new /\ i' = i + consumed /\ UNCHANGED <<args, outcome>>

Finish(result) == outcome' = result /\ UNCHANGED <<args, i, opts>>

SetMode == At(Modes) /\ Set([opts EXCEPT !.modes = @ \cup {args[i]}], 1)

SetNoVerify == At({"--no-verify"}) /\ Set([opts EXCEPT !.no_verify = TRUE], 1)

Help == At(HelpFlags) /\ Finish(Call("usage"))

MissingValue ==
  /\ At(PathFlags \cup NumberFlags)
  /\ i = Len(args)
  /\ Finish(Call("error"))

HasValue(flag) == At({flag}) /\ i < Len(args)

(* Mutant: the path is looked at a second time.                            *)
SetLoadTwice ==
  /\ HasValue("--load")
  /\ Set([opts EXCEPT !.modes = @ \cup {"--load"}, !.input_files = Append(@, args[i + 1])], 1)

SetLoad ==
  /\ HasValue("--load")
  /\ Set([opts EXCEPT !.modes = @ \cup {"--load"}, !.input_files = Append(@, args[i + 1])], 2)

SetOutput == HasValue("-o") /\ Set([opts EXCEPT !.output_path = args[i + 1]], 2)

SetSeed ==
  HasValue("--seed") /\ args[i + 1] \in Numbers /\ Set([opts EXCEPT !.seed = args[i + 1]], 2)

SetCount ==
  HasValue("--count") /\ args[i + 1] \in Numbers /\ Set([opts EXCEPT !.count = args[i + 1]], 2)

NotANumber ==
  \E flag \in NumberFlags :
    HasValue(flag) /\ args[i + 1] \notin Numbers /\ Finish(Call("panic"))

TakeInput ==
  /\ outcome = Undecided /\ i <= Len(args) /\ args[i] \notin Flags
  /\ Set([opts EXCEPT !.input_files = Append(@, args[i])], 1)

RunDemos ==
  /\ outcome = Undecided /\ args = <<>>
  /\ Finish(Call("demos"))

-----------------------------------------------------------------------------
(* What to do: the first of these modes that is on.                        *)

Precedence ==
  <<"--load", "--gen-pqr", "--gen-corpus", "--gen-smart", "--gen-jit-stress", "--triage",
    "--exec", "--mutate">>

Chosen(mode) ==
  /\ outcome = Undecided /\ args # <<>> /\ i > Len(args)
  /\ mode \in opts.modes
  /\ \A k, m \in DOMAIN Precedence :
       Precedence[m] = mode /\ k < m => Precedence[k] \notin opts.modes

HasInput == opts.input_files # <<>>
FirstInput == opts.input_files[1]

LoadAuto(file) == <<file, IF file \in JsonFiles THEN "json" ELSE "ir">>

Load ==
  Chosen("--load") /\ Finish([Call("--load") EXCEPT !.reads = <<<<FirstInput, "ir">>>>])

OutputDir == IF HasInput THEN FirstInput ELSE "input_corpus"

GenFixed ==
  \E mode \in {"--gen-pqr", "--gen-corpus"} :
    Chosen(mode) /\ Finish([Call(mode) EXCEPT !.out = OutputDir])

(* Mutant: the count is taken for the seed.                                *)
GenSeedsSwapped ==
  \E mode \in {"--gen-smart", "--gen-jit-stress"} :
    Chosen(mode) /\ Finish([Call(mode) EXCEPT !.out = OutputDir, !.seed = opts.count,
                                              !.count = opts.seed])

(* A seed or count that was not given is a random one, or the default.     *)
GenSeeds ==
  \E mode \in {"--gen-smart", "--gen-jit-stress"} :
    Chosen(mode) /\ Finish([Call(mode) EXCEPT !.out = OutputDir, !.seed = opts.seed,
                                              !.count = opts.count])

NoInput ==
  \E mode \in {"--triage", "--exec", "--mutate"} :
    Chosen(mode) /\ ~ HasInput /\ Finish(Call("error"))

Triage ==
  Chosen("--triage") /\ HasInput
    /\ Finish([Call("--triage") EXCEPT !.reads = <<LoadAuto(FirstInput)>>,
                                       !.verify = ~ opts.no_verify])

Exec ==
  Chosen("--exec") /\ HasInput
    /\ Finish([Call("--exec") EXCEPT !.reads = <<<<FirstInput, "json">>>>])

Mutate ==
  Chosen("--mutate") /\ HasInput
    /\ Finish([Call("--mutate") EXCEPT
                 !.reads = [f \in DOMAIN opts.input_files |-> LoadAuto(opts.input_files[f])],
                 !.out = opts.output_path, !.seed = opts.seed])

NoMode == outcome = Undecided /\ args # <<>> /\ i > Len(args) /\ opts.modes = {}

TranslateJson ==
  NoMode /\ HasInput
    /\ Finish([Call("json") EXCEPT !.reads = <<<<FirstInput, "json">>>>,
                                   !.out = opts.output_path])

NothingToDo == NoMode /\ ~ HasInput /\ Finish(Call("error"))

Next ==
  \/ SetMode \/ SetNoVerify \/ Help \/ MissingValue \/ SetLoad \/ SetOutput
  \/ SetSeed \/ SetCount \/ NotANumber \/ TakeInput \/ RunDemos
  \/ Load \/ GenFixed \/ GenSeeds \/ NoInput \/ Triage \/ Exec \/ Mutate
  \/ TranslateJson \/ NothingToDo

Spec == Init /\ [][Next]_vars

-----------------------------------------------------------------------------
(* Properties.                                                             *)

ValueFlags == PathFlags \cup NumberFlags

(* What a word of the line is, seen from the whole line: a value belongs   *)
(* to the flag before it, unless that is a value itself.  A value thus     *)
(* comes after an odd number of words in a row that look like such flags.  *)
IsValue(k) ==
  \E n \in 1 .. k - 1 :
    /\ n % 2 = 1
    /\ \A m \in k - n .. k - 1 : args[m] \in ValueFlags
    /\ n < k - 1 => args[k - n - 1] \notin ValueFlags

Own == {k \in DOMAIN args : ~ IsValue(k)}

Given(flag) == {k \in Own : args[k] = flag}

LastValue(flag) ==
  IF Given(flag) = {} THEN None
  ELSE args[1 + CHOOSE k \in Given(flag) : \A j \in Given(flag) : j <= k]

IsInput(k) == IF IsValue(k) THEN args[k - 1] = "--load" ELSE args[k] \notin Flags

InputPlaces == {k \in DOMAIN args : IsInput(k)}

(* The loop of the code, which skips ahead over values, reads the line as  *)
(* it is meant: no value is taken for a flag and no flag for a value, the  *)
(* last of several values counts, inputs keep their order (each comes      *)
(* after as many as there are before it in the line), and a line that      *)
(* lacks a value or asks for help never gets as far as doing anything      *)
(* (main.rs:210-283).                                                      *)
LineUnderstood ==
  i > Len(args) =>
    /\ opts.modes = {m \in Modes \cup {"--load"} : Given(m) # {}}
    /\ opts.no_verify = (Given("--no-verify") # {})
    /\ opts.output_path = LastValue("-o")
    /\ opts.seed = LastValue("--seed")
    /\ opts.count = LastValue("--count")
    /\ Len(opts.input_files) = Cardinality(InputPlaces)
    /\ \A k \in InputPlaces :
         opts.input_files[Cardinality({j \in InputPlaces : j <= k})] = args[k]
    /\ \A k \in Own : args[k] \notin HelpFlags /\ (args[k] \in ValueFlags => k < Len(args))

Kind(file) == <<file, IF file \in JsonFiles THEN "json" ELSE "ir">>

(* The lines that fuzz_loop.py and README.md write do what they are for,   *)
(* with each number and file in its place (fuzz_loop.py:34-40, 55-61,      *)
(* README.md:80, 86, 93; main.rs:310-402).                                 *)
Understood(line, call) == args = line /\ outcome # Undecided => outcome = call

DocumentedLines ==
  \A f, g \in Range(args) \ Flags, s, n \in Numbers :
    /\ \A mode \in {"--gen-smart", "--gen-jit-stress"} :
         Understood(<<mode, f, "--seed", s, "--count", n>>,
                    [Call(mode) EXCEPT !.out = f, !.seed = s, !.count = n])
    /\ Understood(<<"--triage", f>>, [Call("--triage") EXCEPT !.reads = <<Kind(f)>>])
    /\ Understood(<<"--mutate", f, g, "-o", f>>,
                  [Call("--mutate") EXCEPT !.reads = <<Kind(f), Kind(g)>>, !.out = f])
    /\ Understood(<<f, "-o", g>>,
                  [Call("json") EXCEPT !.reads = <<<<f, "json">>>>, !.out = g])
=============================================================================
