----------------------------- MODULE MCSbpf2Ir -----------------------------
(* Sbpf2Ir on every text of at most MaxLines lines, on longer ones of few  *)
(* kinds of lines with fresh labels, and on the texts of the corpus.       *)
EXTENDS TLC, Sbpf2Ir

CONSTANTS MaxLines, MaxFreshLines

Foo == ProgramLabel(0)
Bar == ProgramLabel(1)

PlainLines == {Ins("other", 0), Ins("exit", 0), Label(Foo)}
AllLines ==
  PlainLines \cup
  {Blank, Label(Bar), Label(NoName), Label(Generated(1)), Ins("jeq", 1), Ins("ja", -2)}

FreshLines == PlainLines \cup {Label(Bar), Ins("jeq", 1)}

UpTo(n, lines) == UNION {[1 .. k -> lines] : k \in 0 .. n}

FreshText(t) ==
  \A l, m \in DOMAIN t : t[l].kind = "label" /\ t[l] = t[m] => l = m

(* What the translation sees of the lines that a line of the corpus is.    *)
Corpus == INSTANCE CorpusTexts WITH W <- 5

Seen(line) ==
  CASE line.kind = "label"      -> <<Label(line.name)>>
    [] line.op \in Terminators -> <<Ins(line.op, line.off)>>
    [] line.op = "other"        -> [k \in 1 .. line.size |-> Ins("other", 0)]
    [] OTHER                    -> <<Ins("other", line.off)>>

MCCorpusTexts ==
  {FlattenSeq([l \in DOMAIN seed.text |-> Seen(seed.text[l])]) :
     seed \in Corpus!GeneralCorpus \cup Corpus!Demos}

MCTexts ==
  UpTo(MaxLines, AllLines)
  \cup {t \in UpTo(MaxFreshLines, FreshLines) : FreshText(t)}
  \cup MCCorpusTexts

(* The corpus is of the kind that the translation is right about.          *)
ASSUME CorpusIsFresh ==
  \A t \in MCCorpusTexts :
    LET L == {l \in DOMAIN t : t[l].kind = "label"}
    IN  FreshText(t) /\ \A l \in L : l < Len(t) /\ t[l + 1].kind = "ins"
=============================================================================
