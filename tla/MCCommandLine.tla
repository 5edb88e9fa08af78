--------------------------- MODULE MCCommandLine ---------------------------
(* Constants for model checking the command line of tkmcontrol.              *)
EXTENDS CommandLine

\* Every line of up to three words.
ShortLines == UNION {[1..n -> Tokens] : n \in 0..3}

\* The lines of the help text in one form, with and without --force.
HelpLines(form) ==
    UNION {UNION {{HelpLine(o, params, words, forced, form) : words \in [1..Len(params) -> Words]} :
                  params \in Listed(o)} :
           o \in TopLevel, forced \in BOOLEAN}

WholeHelp == HelpLines("short") \cup HelpLines("long")

\* Two commands in one line, each with all it requires.
PairLines == {l \o k : l \in HelpLines("short"), k \in HelpLines("short")}

\* Everything a user may try with three words, the whole help text, and pairs.
AllLines == ShortLines \cup WholeHelp \cup PairLines
=============================================================================
