-------------------------------- MODULE MCCli --------------------------------
(* Every line of up to MaxWords words; longer ones of the few words that   *)
(* take part in what a long line can get wrong.                            *)
EXTENDS Cli

CONSTANTS MaxWords, MaxLongWords

MCNumbers   == {"7", "9"}
MCJsonFiles == {"b.json"}

Words == Flags \cup {"a.ir", "b.json", "7"}

LongWords == {"--load", "-o", "--seed", "--triage", "a.ir", "b.json", "7"}

MCCommandLines ==
  UNION {[1 .. n -> Words] : n \in 0 .. MaxWords}
    \cup UNION {[1 .. n -> LongWords] : n \in 0 .. MaxLongWords}
    \cup {<<mode, "a.ir", "--seed", "7", "--count", "9">> :
            mode \in {"--gen-smart", "--gen-jit-stress"}}
    \cup {<<"--mutate", "a.ir", "b.json", "-o", "a.ir">>}
=============================================================================
