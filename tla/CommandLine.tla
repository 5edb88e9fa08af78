---------------------------- MODULE CommandLine ----------------------------
(***************************************************************************)
(* The command line of tkmcontrol: getopt_long() takes it apart, main()    *)
(* checks what was given and turns it into the requests of Command.        *)
(* Which options take an argument is said twice, for the long forms in     *)
(* longopts and for the short ones in the string of letters, and the two   *)
(* do not agree.                                                           *)
(*                                                                         *)
(* A word of the line is an option in one of its forms or anything else.   *)
(* Not words of the model: "--opt=value", long options cut short, several  *)
(* letters behind one dash, and "--", which getopt_long() knows as well.   *)
(***************************************************************************)
EXTENDS Integers, Sequences, FiniteSets

CONSTANTS
    Lines,  \* the command lines considered
    Words   \* words that are no options: ids, names, paths

TopLevel ==
    {"addDevice", "remDevice", "connect", "disconnect", "startCollecting", "stopCollecting",
     "initDatabase", "quit", "listDevices", "listSessions", "remSession"}

Valued == {"config", "Id", "Name", "Address", "Port"}

Options == TopLevel \cup Valued \cup {"help", "force"}

\* "unknown" is an option neither list has.
Tokens == [form : {"long", "short"}, name : Options \cup {"unknown"}]
          \cup [form : {"word"}, name : Words]

ASSUME LinesAssumption == Lines \subseteq Seq(Tokens)

None == [form |-> "none"]

VARIABLES
    line,     \* argv
    rest,     \* what getopt_long() has not looked at
    given,    \* the flags that are set
    value,    \* the pointers of the options with a value; None is nullptr
    outcome,  \* "parsing", "refused", "help" or "run"
    requests  \* the requests added to Command, with the values they are given

vars == <<line, rest, given, value, outcome, requests>>

TypeOK ==
    /\ line \in Seq(Tokens)
    /\ rest \in Seq(Tokens)
    /\ given \subseteq Options \ Valued
    /\ value \in [Valued -> Tokens \cup {None}]
    /\ outcome \in {"parsing", "refused", "help", "run"}
    /\ \A rq \in requests : rq.action \in TopLevel

Init ==
    /\ line \in Lines
    /\ rest = line
    /\ given = {}
    /\ value = [o \in Valued |-> None]
    /\ outcome = "parsing"
    /\ requests = {}

-----------------------------------------------------------------------------
(* getopt_long().                                                          *)

\* Faulty variant: the letters of the short forms agree with longopts.
TakesArgument_alike(t) ==
    t.name \in Valued \cup {"connect", "disconnect", "startCollecting", "stopCollecting"}

TakesArgument(t) ==
    \/ t.name \in Valued
    \/ t.form = "long" /\ t.name \in {"connect", "disconnect", "startCollecting", "stopCollecting"}

\* Faulty variant: an unknown option is noted and nothing else.
Flag_unknown(t) == {t.name} \ Valued

\* The flag an option sets: one it does not know asks for help.
Flag(t) == IF t.name = "unknown" THEN {"help"} ELSE {t.name} \ Valued

Parsing == outcome = "parsing" /\ rest # <<>>

\* Words that belong to no option are moved to the end and never looked at.
getopt_word ==
    /\ Parsing
    /\ Head(rest).form = "word"
    /\ rest' = Tail(rest)
    /\ UNCHANGED <<line, given, value, outcome, requests>>

getopt_flag ==
    /\ Parsing
    /\ Head(rest).form # "word"
    /\ ~TakesArgument(Head(rest))
    /\ given' = given \cup Flag(Head(rest))
    /\ rest' = Tail(rest)
    /\ UNCHANGED <<line, value, outcome, requests>>

\* The argument is the next word, also when that is an option.
getopt_argument ==
    /\ Parsing
    /\ Head(rest).form # "word"
    /\ TakesArgument(Head(rest))
    /\ Len(rest) > 1
    /\ given' = given \cup Flag(Head(rest))
    /\ value' = [o \in Valued |-> IF o = Head(rest).name THEN rest[2] ELSE value[o]]
    /\ rest' = SubSeq(rest, 3, Len(rest))
    /\ UNCHANGED <<line, outcome, requests>>

\* An argument that is missing is '?', which asks for help.
getopt_missing ==
    /\ Parsing
    /\ Head(rest).form # "word"
    /\ TakesArgument(Head(rest))
    /\ Len(rest) = 1
    /\ given' = given \cup {"help"}
    /\ rest' = <<>>
    /\ UNCHANGED <<line, value, outcome, requests>>

-----------------------------------------------------------------------------
(* main(): the checks.                                                     *)

\* Faulty variant: remSession forgets addDevice as well.
ExcludedBy_both(o) ==
    TopLevel \ {o, CASE o = "addDevice" -> "remSession" [] o = "remSession" -> "addDevice" [] OTHER -> o}

\* The list of options that may not be given with o: addDevice forgets one,
\* which has addDevice on its own.
ExcludedBy(o) == TopLevel \ {o, IF o = "addDevice" THEN "remSession" ELSE o}

\* Faulty variant: the device's data is missing only when all of it is.
Missing_all(o) ==
    CASE o = "addDevice" -> value["Name"] = None /\ value["Address"] = None /\ value["Port"] = None
      [] o \in {"remDevice", "connect", "disconnect", "startCollecting", "stopCollecting", "remSession"} ->
            value["Id"] = None
      [] OTHER -> FALSE

\* Option o lacks a value it needs.
Missing(o) ==
    CASE o = "addDevice" -> \E v \in {"Name", "Address", "Port"} : value[v] = None
      [] o \in {"remDevice", "connect", "disconnect", "startCollecting", "stopCollecting", "remSession"} ->
            value["Id"] = None
      [] OTHER -> FALSE

Refused ==
    LET top == given \cap TopLevel IN
    \/ top = {} /\ "help" \notin given
    \/ \E o \in top : given \cap ExcludedBy(o) # {}
    \/ "quit" \in top /\ "force" \notin given
    \/ \E o \in top : Missing(o)

\* What the request of an option is given: pointers that became strings.
Arguments(o) ==
    CASE o = "addDevice" -> <<value["Name"], value["Address"], value["Port"]>>
      [] o \in {"remDevice", "connect", "disconnect", "startCollecting", "stopCollecting", "remSession"} ->
            <<value["Id"]>>
      [] o = "listSessions" /\ value["Id"] # None -> <<value["Id"]>>
      [] OTHER -> <<>>

\* The help is printed after the checks; a configuration that was named has to
\* exist.
main ==
    /\ outcome = "parsing"
    /\ rest = <<>>
    /\ \/ /\ Refused
          /\ outcome' = "refused"
          /\ UNCHANGED requests
       \/ /\ ~Refused
          /\ "help" \in given
          /\ outcome' = "help"
          /\ UNCHANGED requests
       \/ /\ ~Refused
          /\ "help" \notin given
          /\ \/ /\ value["config"] # None
                /\ outcome' = "refused"
                /\ UNCHANGED requests
             \/ /\ outcome' = "run"
                /\ requests' = {[action |-> o,
                                 forced |-> "force" \in given /\ o # "listDevices",
                                 args |-> Arguments(o)] : o \in given \cap TopLevel}
    /\ UNCHANGED <<line, rest, given, value>>

Next == getopt_word \/ getopt_flag \/ getopt_argument \/ getopt_missing \/ main

Spec == Init /\ [][Next]_vars

-----------------------------------------------------------------------------
\* A line that is run asks for one thing, whatever options come together: Command
\* would send every request it was given and tkmcontrol quit at the first status
\* (the lists of main(), of which one is incomplete).
OneCommandOnly == outcome = "run" => Cardinality(requests) = 1

\* No request is made from a pointer that was never set: each value it uses was
\* on the line (the checks of main() before the requests).
NoNullArgument ==
    \A rq \in requests : \A i \in DOMAIN rq.args : rq.args[i] # None

\* What the help text lists under an option: what it requires, and the Id that
\* is optional with listSessions.
Listed(o) ==
    CASE o = "addDevice" -> {<<"Name", "Address", "Port">>}
      [] o \in {"initDatabase", "quit", "listDevices"} -> {<<>>}
      [] o = "listSessions" -> {<<>>, <<"Id">>}
      [] OTHER -> {<<"Id">>}

\* A line of the help text: the option, each parameter with a word of the user's
\* for it, and --force or not.
HelpLine(o, params, words, forced, form) ==
    LET option(name) == [form |-> form, name |-> name]
    IN  <<option(o)>>
        \o [i \in 1..2 * Len(params) |->
               IF i % 2 = 1 THEN option(params[(i + 1) \div 2]) ELSE [form |-> "word", name |-> words[i \div 2]]]
        \o IF forced THEN <<option("force")>> ELSE <<>>

\* The request such a line is for.
Asked(o, words, forced) ==
    [action |-> o, forced |-> forced /\ o # "listDevices",
     args |-> [i \in DOMAIN words |-> [form |-> "word", name |-> words[i]]]]

\* Every line of the help text in the given form makes the request it is for, of
\* the values it names and no other -- but for "--quit, -q <noarg>": the help text
\* requires nothing of it and main() refuses it without --force.
RunsAsDocumented(form) ==
    \A o \in TopLevel, forced \in BOOLEAN :
    \A params \in Listed(o) : \A words \in [1..Len(params) -> Words] :
        (outcome # "parsing" /\ line = HelpLine(o, params, words, forced, form))
            => IF o = "quit" /\ ~forced
               THEN outcome = "refused"
               ELSE outcome = "run" /\ requests = {Asked(o, words, forced)}

\* The short forms do what the help text says, every one of them except "-q" on its
\* own, which is refused: it has to be given with -f (main(), the option string).
ShortLinesRun == RunsAsDocumented("short")

\* "--connect, -c <noarg>" ... "Require: --Id, -I <string>": so do the long ones,
\* "--quit" on its own excepted as above.
LongLinesRun == RunsAsDocumented("long")
=============================================================================
