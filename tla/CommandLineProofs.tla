------------------------- MODULE CommandLineProofs -------------------------
(***************************************************************************)
(* For every command line, of any length: one command at most is sent      *)
(* (OneCommandOnly), no request is made from a value that was not given    *)
(* (NoNullArgument), and each line of the help text in its short forms     *)
(* makes the request it is for -- "-q" without "-f", which is refused,     *)
(* excepted (ShortLinesRun).                                               *)
(*                                                                         *)
(* The requests are made in one step, main(), from the flags and values at *)
(* the end of the line.  Ten of the eleven lists of excluded options are   *)
(* complete, which is enough: of two top level options at least one        *)
(* excludes the other.                                                     *)
(***************************************************************************)
EXTENDS CommandLine, FiniteSetTheorems, SequenceTheorems, TLAPS

-----------------------------------------------------------------------------
(* Types.                                                                  *)

LEMMA TypeInit == Init => TypeOK
  BY LinesAssumption DEF Init, TypeOK

\* What is left of a line after one or two of its words.
LEMMA RestType ==
    ASSUME NEW q \in Seq(Tokens), q # <<>>
    PROVE  /\ Head(q) \in Tokens /\ Tail(q) \in Seq(Tokens)
           /\ Len(q) > 1 => q[2] \in Tokens /\ SubSeq(q, 3, Len(q)) \in Seq(Tokens)
<1>1. Head(q) \in Tokens /\ Tail(q) \in Seq(Tokens)
  OBVIOUS
<1>2. ASSUME Len(q) > 1
      PROVE  q[2] \in Tokens /\ SubSeq(q, 3, Len(q)) \in Seq(Tokens)
  <2>1. q[2] \in Tokens
    BY <1>2
  <2>2. \A i \in 3..Len(q) : q[i] \in Tokens
    OBVIOUS
  <2>. QED  BY <2>1, <2>2, SubSeqProperties
<1>. QED  BY <1>1, <1>2

\* An option that is no word sets a flag of the program.
LEMMA FlagType ==
    ASSUME NEW t \in Tokens, t.form # "word"
    PROVE  Flag(t) \subseteq Options \ Valued
<1>1. t.name \in Options \cup {"unknown"}
  BY DEF Tokens
<1>. QED  BY <1>1 DEF Flag, Options, Valued

LEMMA TypeNext == TypeOK /\ [Next]_vars => TypeOK'
<1>. SUFFICES ASSUME TypeOK, [Next]_vars PROVE TypeOK'
  OBVIOUS
<1>1. CASE getopt_word
  BY <1>1, RestType DEF getopt_word, Parsing, TypeOK
<1>2. CASE getopt_flag
  BY <1>2, RestType, FlagType DEF getopt_flag, Parsing, TypeOK
<1>3. CASE getopt_argument
  <2>1. /\ rest # <<>> /\ Len(rest) > 1 /\ Head(rest).form # "word"
        /\ given' = given \cup Flag(Head(rest))
        /\ value' = [o \in Valued |-> IF o = Head(rest).name THEN rest[2] ELSE value[o]]
        /\ rest' = SubSeq(rest, 3, Len(rest))
        /\ UNCHANGED <<line, outcome, requests>>
    BY <1>3 DEF getopt_argument, Parsing
  <2>2. Head(rest) \in Tokens /\ rest[2] \in Tokens /\ rest' \in Seq(Tokens)
    BY <2>1, RestType DEF TypeOK
  <2>3. given' \subseteq Options \ Valued
    BY <2>1, <2>2, FlagType DEF TypeOK
  <2>4. value' \in [Valued -> Tokens \cup {None}]
    BY <2>1, <2>2 DEF TypeOK
  <2>. QED  BY <2>1, <2>2, <2>3, <2>4 DEF TypeOK
<1>4. CASE getopt_missing
  BY <1>4 DEF getopt_missing, TypeOK, Options, Valued
<1>5. CASE main
  <2>1. CASE UNCHANGED requests
    BY <1>5, <2>1 DEF main, TypeOK
  <2>2. CASE requests' = {[action |-> o,
                           forced |-> "force" \in given /\ o # "listDevices",
                           args |-> Arguments(o)] : o \in given \cap TopLevel}
    <3>1. \A rq \in requests' : rq.action \in TopLevel
      BY <2>2
    <3>. QED  BY <1>5, <3>1 DEF main, TypeOK
  <2>. QED  BY <1>5, <2>1, <2>2 DEF main
<1>6. CASE UNCHANGED vars
  BY <1>6 DEF vars, TypeOK
<1>. QED  BY <1>1, <1>2, <1>3, <1>4, <1>5, <1>6 DEF Next

\* The flags are ones of the program and the values are words of the line,
\* whatever the line is (getopt_long() and the switch of main()).
THEOREM TypeCorrect == Spec => []TypeOK
  BY TypeInit, TypeNext, PTL DEF Spec

-----------------------------------------------------------------------------
(* The checks of main().                                                   *)

\* What main() does not refuse has one top level option, and what it needs.
LEMMA OneTopLevel ==
    ASSUME ~Refused, "help" \notin given
    PROVE  \E o \in TopLevel : given \cap TopLevel = {o} /\ ~Missing(o)
<1>1. PICK o : o \in given \cap TopLevel
  BY DEF Refused
<1>2. \A p \in given \cap TopLevel : given \cap ExcludedBy(p) = {}
  BY DEF Refused
<1>3. ASSUME NEW p \in given \cap TopLevel PROVE p = o
  <2>1. p \notin ExcludedBy(o) /\ o \notin ExcludedBy(p)
    BY <1>1, <1>2
  <2>2. CASE o # "addDevice"
    BY <2>1, <2>2 DEF ExcludedBy
  <2>3. CASE p # "addDevice"
    BY <1>1, <2>1, <2>3 DEF ExcludedBy
  <2>. QED  BY <2>2, <2>3
<1>4. ~Missing(o)
  BY <1>1 DEF Refused
<1>. QED  BY <1>1, <1>3, <1>4

\* The arguments of an option that lacks nothing are values that were given.
LEMMA ArgumentsGiven ==
    ASSUME NEW o \in TopLevel, ~Missing(o)
    PROVE  \A i \in DOMAIN Arguments(o) : Arguments(o)[i] # None
<1>1. CASE o = "addDevice"
  <2>1. Arguments(o) = <<value["Name"], value["Address"], value["Port"]>>
    BY <1>1 DEF Arguments
  <2>2. value["Name"] # None /\ value["Address"] # None /\ value["Port"] # None
    BY <1>1 DEF Missing
  <2>. QED  BY <2>1, <2>2
<1>2. CASE o \in {"remDevice", "connect", "disconnect", "startCollecting", "stopCollecting", "remSession"}
  <2>1. Arguments(o) = <<value["Id"]>>
    BY <1>2 DEF Arguments
  <2>2. value["Id"] # None
    BY <1>2 DEF Missing
  <2>. QED  BY <2>1, <2>2
<1>3. CASE o \in {"initDatabase", "quit", "listDevices", "listSessions"}
  <2>1. CASE o = "listSessions" /\ value["Id"] # None
    <3>1. Arguments(o) = <<value["Id"]>>
      BY <2>1 DEF Arguments
    <3>. QED  BY <2>1, <3>1
  <2>2. CASE ~(o = "listSessions" /\ value["Id"] # None)
    <3>1. Arguments(o) = <<>>
      BY <1>3, <2>2 DEF Arguments
    <3>. QED  BY <3>1
  <2>. QED  BY <2>1, <2>2
<1>. QED  BY <1>1, <1>2, <1>3 DEF TopLevel

-----------------------------------------------------------------------------
(* The invariant.                                                          *)

LineInv ==
    /\ outcome # "run" => requests = {}
    /\ OneCommandOnly
    /\ NoNullArgument

LEMMA LineInit == Init => LineInv
  BY DEF Init, LineInv, OneCommandOnly, NoNullArgument

LEMMA LineNext == LineInv /\ [Next]_vars => LineInv'
<1>. SUFFICES ASSUME LineInv, [Next]_vars PROVE LineInv'
  OBVIOUS
<1>1. CASE UNCHANGED <<outcome, requests>>
  BY <1>1 DEF LineInv, OneCommandOnly, NoNullArgument
<1>2. CASE main /\ outcome' # "run"
  <2>1. outcome = "parsing" /\ outcome' # "run" /\ requests' = requests
    BY <1>2 DEF main
  <2>2. requests' = {}
    BY <2>1 DEF LineInv
  <2>3. \A rq \in requests' : \A i \in DOMAIN rq.args : rq.args[i] # None
    BY <2>2
  <2>. QED  BY <2>1, <2>2, <2>3 DEF LineInv, OneCommandOnly, NoNullArgument
<1>3. CASE main /\ outcome' = "run"
  <2>1. /\ ~Refused /\ "help" \notin given
        /\ requests' = {[action |-> o,
                         forced |-> "force" \in given /\ o # "listDevices",
                         args |-> Arguments(o)] : o \in given \cap TopLevel}
    BY <1>3 DEF main
  <2>2. PICK o \in TopLevel : given \cap TopLevel = {o} /\ ~Missing(o)
    BY <2>1, OneTopLevel
  <2>. DEFINE rq == [action |-> o, forced |-> "force" \in given /\ o # "listDevices", args |-> Arguments(o)]
  <2>3. requests' = {rq} /\ rq.args = Arguments(o)
    <3>1. \A p : p \in given \cap TopLevel <=> p = o
      BY <2>2
    <3>2. \A x : x \in requests' <=> x = rq
      BY <2>1, <3>1
    <3>. QED  BY <3>2
  <2>. HIDE DEF rq
  <2>4. Cardinality(requests') = 1
    BY <2>3, FS_Singleton
  <2>5. \A i \in DOMAIN rq.args : rq.args[i] # None
    BY <2>2, <2>3, ArgumentsGiven
  <2>. QED  BY <1>3, <2>3, <2>4, <2>5 DEF LineInv, OneCommandOnly, NoNullArgument
<1>4. CASE main
  BY <1>2, <1>3, <1>4
<1>. QED
  BY <1>1, <1>4 DEF Next, vars, getopt_word, getopt_flag, getopt_argument, getopt_missing

LEMMA LineCorrect == Spec => []LineInv
  BY LineInit, LineNext, PTL DEF Spec

\* A line that is run sends one command, for every line: the list that forgets an
\* option is made up for by the other (the lists of main()).
THEOREM OneCommandSafe == Spec => []OneCommandOnly
<1>1. LineInv => OneCommandOnly
  BY DEF LineInv
<1>. QED  BY <1>1, LineCorrect, PTL

\* No request is made from a pointer that is null, for every line (the checks of
\* main() and the constructors of the requests).
THEOREM NoNullArgumentSafe == Spec => []NoNullArgument
<1>1. LineInv => NoNullArgument
  BY DEF LineInv
<1>. QED  BY <1>1, LineCorrect, PTL

-----------------------------------------------------------------------------
(* The lines of the help text, in their short forms.                       *)

ShortOption(name) == [form |-> "short", name |-> name]
Word(w) == [form |-> "word", name |-> w]

\* The line is option o, each parameter R[j] with the word W[j], and perhaps force.
IsHelpLine(o, R, W, forced) ==
    /\ Len(line) = 2 * Len(R) + (IF forced THEN 2 ELSE 1)
    /\ line[1] = ShortOption(o)
    /\ \A j \in 1..Len(R) : line[2 * j] = ShortOption(R[j]) /\ line[2 * j + 1] = Word(W[j])
    /\ forced => line[2 * Len(R) + 2] = ShortOption("force")

\* What follows an option in the help text is its name once or three names.
LEMMA ListedType ==
    ASSUME NEW o \in TopLevel, NEW R \in Listed(o)
    PROVE  /\ R \in {<<>>, <<"Id">>, <<"Name", "Address", "Port">>}
           /\ R \in Seq(Valued) /\ Len(R) \in Nat
           /\ \A i, j \in 1..Len(R) : R[i] = R[j] => i = j
<1>1. R \in {<<>>, <<"Id">>, <<"Name", "Address", "Port">>}
  BY DEF Listed, TopLevel
<1>2. CASE R = <<>>
  BY <1>1, <1>2
<1>3. CASE R = <<"Id">>
  BY <1>1, <1>3 DEF Valued
<1>4. CASE R = <<"Name", "Address", "Port">>
  BY <1>1, <1>4 DEF Valued
<1>. QED  BY <1>1, <1>2, <1>3, <1>4

\* Two sequences, one behind the other.
LEMMA Joined ==
    ASSUME NEW a \in Seq(Tokens), NEW b \in Seq(Tokens)
    PROVE  /\ a \o b \in Seq(Tokens) /\ Len(a \o b) = Len(a) + Len(b)
           /\ \A i \in 1..Len(a) : (a \o b)[i] = a[i]
           /\ \A i \in 1..Len(b) : (a \o b)[Len(a) + i] = b[i]
<1>1. Len(a) \in Nat /\ Len(b) \in Nat
  OBVIOUS
<1>2. \A i \in 1..Len(a) + Len(b) : (a \o b)[i] = IF i <= Len(a) THEN a[i] ELSE b[i - Len(a)]
  BY ConcatProperties
<1>3. ASSUME NEW i \in 1..Len(a) PROVE (a \o b)[i] = a[i]
  <2>1. i \in 1..Len(a) + Len(b) /\ i <= Len(a)
    BY <1>1
  <2>. QED  BY <1>2, <2>1
<1>4. ASSUME NEW i \in 1..Len(b) PROVE (a \o b)[Len(a) + i] = b[i]
  <2>1. Len(a) + i \in 1..Len(a) + Len(b) /\ ~(Len(a) + i <= Len(a)) /\ (Len(a) + i) - Len(a) = i
    BY <1>1
  <2>. QED  BY <1>2, <2>1
<1>. QED  BY <1>3, <1>4, ConcatProperties

\* What the help text lists is read off its line.
LEMMA HelpLineRead ==
    ASSUME NEW o \in TopLevel, NEW R \in Listed(o), NEW W \in [1..Len(R) -> Words], NEW forced \in BOOLEAN,
           line = HelpLine(o, R, W, forced, "short")
    PROVE  IsHelpLine(o, R, W, forced)
<1>. DEFINE values == [i \in 1..2 * Len(R) |-> IF i % 2 = 1 THEN ShortOption(R[(i + 1) \div 2]) ELSE Word(W[i \div 2])]
            first == <<ShortOption(o)>>
            last == IF forced THEN <<ShortOption("force")>> ELSE <<>>
            front == first \o values
<1>1. line = front \o last
  BY DEF HelpLine, ShortOption, Word
<1>2. Len(R) \in Nat
  BY ListedType
<1>3. /\ values \in Seq(Tokens) /\ Len(values) = 2 * Len(R)
      /\ \A j \in 1..Len(R) : values[2 * j - 1] = ShortOption(R[j]) /\ values[2 * j] = Word(W[j])
  <2>1. ASSUME NEW i \in 1..2 * Len(R) PROVE values[i] \in Tokens
    <3>1. CASE i % 2 = 1
      <4>1. (i + 1) \div 2 \in 1..Len(R)
        BY <1>2, <3>1
      <4>2. R[(i + 1) \div 2] \in Valued
        BY <4>1, ListedType
      <4>3. ShortOption(R[(i + 1) \div 2]) \in Tokens
        BY <4>2 DEF ShortOption, Tokens, Options
      <4>. QED  BY <3>1, <4>3
    <3>2. CASE i % 2 # 1
      <4>1. i \div 2 \in 1..Len(R)
        BY <1>2, <3>2
      <4>2. Word(W[i \div 2]) \in Tokens
        BY <4>1 DEF Word, Tokens
      <4>. QED  BY <3>2, <4>2
    <3>. QED  BY <3>1, <3>2
  <2>2. values \in [1..2 * Len(R) -> Tokens]
    BY <2>1
  <2>3. values \in Seq(Tokens) /\ Len(values) = 2 * Len(R)
    BY <1>2, <2>2
  <2>4. ASSUME NEW j \in 1..Len(R)
        PROVE  values[2 * j - 1] = ShortOption(R[j]) /\ values[2 * j] = Word(W[j])
    <3>1. 2 * j - 1 \in 1..2 * Len(R) /\ 2 * j \in 1..2 * Len(R)
      BY <1>2
    <3>2. (2 * j - 1) % 2 = 1 /\ (2 * j) % 2 = 0 /\ (2 * j - 1 + 1) \div 2 = j /\ (2 * j) \div 2 = j
      BY <1>2
    <3>. QED  BY <3>1, <3>2
  <2>. QED  BY <2>3, <2>4
<1>4. first \in Seq(Tokens) /\ Len(first) = 1 /\ first[1] = ShortOption(o)
  BY DEF ShortOption, Tokens, Options
<1>5. /\ last \in Seq(Tokens) /\ Len(last) = (IF forced THEN 1 ELSE 0)
      /\ forced => last[1] = ShortOption("force")
  <2>1. ShortOption("force") \in Tokens
    BY DEF ShortOption, Tokens, Options
  <2>2. CASE forced = TRUE
    BY <2>1, <2>2
  <2>3. CASE forced = FALSE
    BY <2>3
  <2>. QED  BY <2>2, <2>3
<1>. HIDE DEF values, first, last
<1>6. /\ front \in Seq(Tokens) /\ Len(front) = 1 + Len(values) /\ front[1] = ShortOption(o)
      /\ \A i \in 1..Len(values) : front[1 + i] = values[i]
  <2>1. /\ front \in Seq(Tokens) /\ Len(front) = Len(first) + Len(values)
        /\ \A i \in 1..Len(first) : front[i] = first[i]
        /\ \A i \in 1..Len(values) : front[Len(first) + i] = values[i]
    BY <1>3, <1>4, Joined, Zenon
  <2>2. 1 \in 1..Len(first)
    BY <1>4
  <2>. HIDE DEF front
  <2>. QED  BY <1>4, <2>1, <2>2
<1>. HIDE DEF front
<1>7. /\ Len(line) = Len(front) + Len(last)
      /\ \A i \in 1..Len(front) : line[i] = front[i]
      /\ \A i \in 1..Len(last) : line[Len(front) + i] = last[i]
  <2>1. /\ Len(front \o last) = Len(front) + Len(last)
        /\ \A i \in 1..Len(front) : (front \o last)[i] = front[i]
        /\ \A i \in 1..Len(last) : (front \o last)[Len(front) + i] = last[i]
    BY <1>5, <1>6, Joined, Zenon
  <2>. QED  BY <1>1, <2>1, Zenon
<1>8. ASSUME NEW j \in 1..Len(R)
      PROVE  line[2 * j] = ShortOption(R[j]) /\ line[2 * j + 1] = Word(W[j])
  <2>1. 2 * j - 1 \in 1..Len(values) /\ 2 * j \in 1..Len(values)
    BY <1>2, <1>3
  <2>2. front[1 + (2 * j - 1)] = values[2 * j - 1] /\ front[1 + 2 * j] = values[2 * j]
    BY <1>6, <2>1
  <2>3. 1 + (2 * j - 1) = 2 * j /\ 1 + 2 * j = 2 * j + 1 /\ 2 * j \in 1..Len(front) /\ 2 * j + 1 \in 1..Len(front)
    BY <1>2, <1>3, <1>6, <2>1
  <2>. QED  BY <1>3, <1>7, <2>2, <2>3
<1>9. Len(line) = 2 * Len(R) + (IF forced THEN 2 ELSE 1) /\ line[1] = ShortOption(o)
  <2>1. 1 \in 1..Len(front) /\ Len(front) = 2 * Len(R) + 1
    BY <1>2, <1>3, <1>6
  <2>. QED  BY <1>2, <1>5, <1>6, <1>7, <2>1
<1>10. ASSUME forced PROVE line[2 * Len(R) + 2] = ShortOption("force")
  <2>1. Len(front) + 1 = 2 * Len(R) + 2 /\ 1 \in 1..Len(last)
    BY <1>2, <1>3, <1>5, <1>6, <1>10
  <2>2. line[Len(front) + 1] = last[1]
    BY <1>7, <2>1
  <2>. QED  BY <1>5, <1>10, <2>1, <2>2
<1>. QED  BY <1>8, <1>9, <1>10 DEF IsHelpLine

\* The values of the first j parameters are set and no others.
ValuesSet(R, W, j) ==
    /\ \A i \in 1..j : value[R[i]] = Word(W[i])
    /\ \A v \in Valued : (\A i \in 1..j : R[i] # v) => value[v] = None

\* Nothing of the line has been looked at; the option and j values; all of it.
AtStart == rest = line /\ given = {} /\ (\A v \in Valued : value[v] = None) /\ outcome = "parsing"

Past(o, R, W, j) ==
    /\ outcome = "parsing"
    /\ Len(rest) = Len(line) - (2 * j + 1)
    /\ \A i \in 1..Len(rest) : rest[i] = line[2 * j + 1 + i]
    /\ given = {o}
    /\ ValuesSet(R, W, j)

AtEnd(o, R, W, forced) ==
    /\ outcome = "parsing"
    /\ rest = <<>>
    /\ given = {o} \cup (IF forced THEN {"force"} ELSE {})
    /\ ValuesSet(R, W, Len(R))

\* What becomes of the line.
Done(o, W, forced) ==
    IF o = "quit" /\ ~forced
    THEN outcome = "refused"
    ELSE outcome = "run" /\ requests = {Asked(o, W, forced)}

Followed(o, R, W, forced) ==
    \/ AtStart
    \/ \E j \in 0..Len(R) : Past(o, R, W, j)
    \/ AtEnd(o, R, W, forced)
    \/ outcome # "parsing" /\ Done(o, W, forced)

HelpFollowed ==
    \A o \in TopLevel, forced \in BOOLEAN : \A R \in Listed(o) : \A W \in [1..Len(R) -> Words] :
        IsHelpLine(o, R, W, forced) => Followed(o, R, W, forced)

LEMMA ShortFlag ==
    ASSUME NEW o \in TopLevel \cup {"force"}
    PROVE  /\ ~TakesArgument(ShortOption(o)) /\ Flag(ShortOption(o)) = {o}
           /\ ShortOption(o).form # "word"
BY DEF TakesArgument, Flag, ShortOption, TopLevel, Valued

LEMMA ShortValue ==
    ASSUME NEW v \in Valued
    PROVE  /\ TakesArgument(ShortOption(v)) /\ Flag(ShortOption(v)) = {}
           /\ ShortOption(v).form # "word" /\ ShortOption(v).name = v
BY DEF TakesArgument, Flag, ShortOption, Valued

\* The first word is the option itself.
LEMMA OptionFollowed ==
    ASSUME TypeOK, NEW o \in TopLevel, NEW R \in Listed(o), NEW W, NEW forced \in BOOLEAN,
           IsHelpLine(o, R, W, forced), AtStart, Next
    PROVE  Past(o, R, W, 0)'
<1>1. PICK n : n = Len(line)
  OBVIOUS
<1>2. n \in Nat /\ n > 0 /\ line[1] = ShortOption(o) /\ line \in Seq(Tokens)
  BY <1>1, ListedType DEF IsHelpLine, TypeOK
<1>3. /\ line # <<>> /\ Head(line) = ShortOption(o)
      /\ Len(Tail(line)) = n - 1 /\ \A i \in 1..(n - 1) : Tail(line)[i] = line[i + 1]
  BY <1>1, <1>2, HeadTailProperties, EmptySeq
<1>4. getopt_flag
  BY <1>3, ShortFlag DEF AtStart, Next, getopt_word, getopt_argument, getopt_missing, main
<1>5. rest' = Tail(line) /\ given' = given \cup Flag(Head(line)) /\ UNCHANGED <<line, value, outcome>>
  BY <1>4 DEF getopt_flag, AtStart
<1>6. given' = {o}
  BY <1>3, <1>5, ShortFlag DEF AtStart
<1>7. ValuesSet(R, W, 0)'
  BY <1>5 DEF AtStart, ValuesSet
<1>8. Len(rest') = Len(line') - (2 * 0 + 1) /\ \A i \in 1..Len(rest') : rest'[i] = line'[2 * 0 + 1 + i]
  BY <1>1, <1>2, <1>3, <1>5
<1>. QED  BY <1>5, <1>6, <1>7, <1>8 DEF Past, AtStart

LEMMA AfterTwo ==
    ASSUME NEW q \in Seq(Tokens), Len(q) >= 2
    PROVE  /\ Len(SubSeq(q, 3, Len(q))) = Len(q) - 2
           /\ \A i \in 1..(Len(q) - 2) : SubSeq(q, 3, Len(q))[i] = q[i + 2]
<1>1. PICK m : m = Len(q)
  OBVIOUS
<1>2. m \in Nat /\ \A i \in 3..m : q[i] \in Tokens
  BY <1>1
<1>3. SubSeq(q, 3, m) = [i \in 1..(m - 2) |-> q[i + 2]]
  BY <1>1, <1>2
<1>. QED  BY <1>1, <1>2, <1>3

\* The words after it are taken two at a time: a parameter and its value.
LEMMA ValueFollowed ==
    ASSUME TypeOK, NEW o \in TopLevel, NEW R \in Listed(o), NEW W, NEW forced \in BOOLEAN,
           IsHelpLine(o, R, W, forced), NEW j \in 0..(Len(R) - 1), Past(o, R, W, j), Next
    PROVE  Past(o, R, W, j + 1)'
<1>1. PICK k, v, n : k = Len(R) /\ v = R[j + 1] /\ n = Len(line)
  OBVIOUS
<1>2. /\ k \in Nat /\ j \in Nat /\ j < k /\ j + 1 \in 1..k /\ v \in Valued /\ rest \in Seq(Tokens)
      /\ n \in Nat /\ n >= 2 * k + 1
  BY <1>1, ListedType DEF TypeOK, IsHelpLine
<1>3. Len(rest) = n - (2 * j + 1) /\ \A i \in 1..Len(rest) : rest[i] = line[2 * j + 1 + i]
  BY <1>1 DEF Past
<1>4. line[2 * (j + 1)] = ShortOption(v) /\ line[2 * (j + 1) + 1] = Word(W[j + 1])
  BY <1>1, <1>2 DEF IsHelpLine
<1>5. rest # <<>> /\ Len(rest) > 1 /\ Head(rest) = ShortOption(v) /\ rest[2] = Word(W[j + 1])
  <2>1. Len(rest) >= 2
    BY <1>2, <1>3
  <2>2. rest[1] = line[2 * j + 1 + 1] /\ rest[2] = line[2 * j + 1 + 2]
    BY <1>3, <2>1
  <2>3. 2 * j + 1 + 1 = 2 * (j + 1) /\ 2 * j + 1 + 2 = 2 * (j + 1) + 1
    BY <1>2
  <2>4. rest # <<>> /\ Head(rest) = rest[1]
    BY <1>2, <2>1, HeadTailProperties, EmptySeq
  <2>. QED  BY <1>4, <2>1, <2>2, <2>3, <2>4
<1>6. getopt_argument
  BY <1>5, ShortValue, <1>2 DEF Next, getopt_word, getopt_flag, getopt_missing, main
<1>7. /\ given' = given \cup Flag(Head(rest))
      /\ value' = [x \in Valued |-> IF x = Head(rest).name THEN rest[2] ELSE value[x]]
      /\ rest' = SubSeq(rest, 3, Len(rest))
      /\ UNCHANGED <<line, outcome>>
  BY <1>6 DEF getopt_argument
<1>8. given' = {o}
  BY <1>2, <1>5, <1>7, ShortValue DEF Past
<1>9. ValuesSet(R, W, j + 1)'
  <2>1. /\ \A i \in 1..j : value[R[i]] = Word(W[i])
        /\ \A x \in Valued : (\A i \in 1..j : R[i] # x) => value[x] = None
    BY DEF Past, ValuesSet
  <2>2. \A x \in Valued : value'[x] = IF x = v THEN Word(W[j + 1]) ELSE value[x]
    BY <1>2, <1>5, <1>7, ShortValue
  <2>3. \A i \in 1..j : R[i] \in Valued /\ R[i] # v
    <3>1. \A i \in 1..k : R[i] \in Valued
      BY <1>1, ListedType
    <3>2. \A i \in 1..j : i \in 1..k /\ i # j + 1
      BY <1>2
    <3>3. \A i \in 1..k : R[i] = R[j + 1] => i = j + 1
      BY <1>1, <1>2, ListedType
    <3>. QED  BY <1>1, <3>1, <3>2, <3>3
  <2>4. \A i \in 1..(j + 1) : i = j + 1 \/ i \in 1..j
    BY <1>2
  <2>5. ASSUME NEW i \in 1..(j + 1) PROVE value'[R[i]] = Word(W[i])
    BY <1>1, <1>2, <2>1, <2>2, <2>3, <2>4
  <2>6. ASSUME NEW x \in Valued, \A i \in 1..(j + 1) : R[i] # x PROVE value'[x] = None
    <3>1. x # v /\ \A i \in 1..j : R[i] # x
      BY <1>1, <1>2, <2>6
    <3>. QED  BY <2>1, <2>2, <3>1
  <2>. QED  BY <2>5, <2>6 DEF ValuesSet
<1>10. Len(rest') = n - (2 * (j + 1) + 1) /\ \A i \in 1..Len(rest') : rest'[i] = line'[2 * (j + 1) + 1 + i]
  <2>1. Len(rest') = Len(rest) - 2 /\ \A i \in 1..(Len(rest) - 2) : rest'[i] = rest[i + 2]
    <3>1. PICK q, r : q = rest /\ r = SubSeq(q, 3, Len(q)) /\ rest' = r
      BY <1>7
    <3>2. q \in Seq(Tokens) /\ Len(q) >= 2 /\ Len(q) \in Nat
      BY <1>2, <1>5, <3>1
    <3>3. Len(r) = Len(q) - 2 /\ \A i \in 1..(Len(q) - 2) : r[i] = q[i + 2]
      BY <3>1, <3>2, AfterTwo
    <3>. QED  BY <3>1, <3>3
  <2>2. ASSUME NEW i \in 1..(Len(rest) - 2) PROVE rest'[i] = line'[2 * (j + 1) + 1 + i]
    <3>1. i + 2 \in 1..Len(rest) /\ 2 * j + 1 + (i + 2) = 2 * (j + 1) + 1 + i
      <4>1. Len(rest) \in Nat /\ i \in 1..(Len(rest) - 2)
        BY <1>2
      <4>. QED  BY <1>2, <4>1
    <3>2. rest'[i] = rest[i + 2] /\ rest[i + 2] = line[2 * j + 1 + (i + 2)]
      BY <1>3, <2>1, <3>1
    <3>. QED  BY <1>7, <3>1, <3>2
  <2>. QED  BY <1>2, <1>3, <2>1, <2>2
<1>11. outcome' = "parsing" /\ Len(line') = n
  BY <1>1, <1>7 DEF Past
<1>. QED  BY <1>8, <1>9, <1>10, <1>11 DEF Past

\* Without force nothing is left then.
LEMMA UnforcedEnd ==
    ASSUME TypeOK, NEW o \in TopLevel, NEW R \in Listed(o), NEW W,
           IsHelpLine(o, R, W, FALSE), Past(o, R, W, Len(R))
    PROVE  AtEnd(o, R, W, FALSE)
<1>1. Len(R) \in Nat /\ rest \in Seq(Tokens) /\ Len(rest) = Len(line) - (2 * Len(R) + 1) /\ Len(line) = 2 * Len(R) + 1
  BY ListedType DEF TypeOK, Past, IsHelpLine
<1>2. rest = <<>>
  BY <1>1, EmptySeq
<1>. QED  BY <1>2 DEF AtEnd, Past

\* And force is the last word.
LEMMA ForceFollowed ==
    ASSUME TypeOK, NEW o \in TopLevel, NEW R \in Listed(o), NEW W,
           IsHelpLine(o, R, W, TRUE), Past(o, R, W, Len(R)), Next
    PROVE  AtEnd(o, R, W, TRUE)'
<1>1. PICK k : k = Len(R)
  OBVIOUS
<1>2. k \in Nat /\ rest \in Seq(Tokens) /\ Len(line) = 2 * k + 2 /\ line[2 * k + 2] = ShortOption("force")
  BY <1>1, ListedType DEF TypeOK, IsHelpLine
<1>3. Len(rest) = 1 /\ rest[1] = ShortOption("force")
  <2>1. Len(rest) = Len(line) - (2 * k + 1) /\ \A i \in 1..Len(rest) : rest[i] = line[2 * k + 1 + i]
    BY <1>1 DEF Past
  <2>2. Len(rest) = 1 /\ 1 \in 1..Len(rest) /\ 2 * k + 1 + 1 = 2 * k + 2
    BY <1>2, <2>1
  <2>. QED  BY <1>2, <2>1, <2>2
<1>4. rest # <<>> /\ Head(rest) = ShortOption("force") /\ Tail(rest) \in Seq(Tokens) /\ Len(Tail(rest)) = 0
  <2>1. rest # <<>>
    BY <1>3
  <2>2. Head(rest) = rest[1] /\ Tail(rest) \in Seq(Tokens) /\ Len(Tail(rest)) = Len(rest) - 1
    BY <1>2, <2>1, HeadTailProperties
  <2>. QED  BY <1>3, <2>1, <2>2
<1>5. Tail(rest) = <<>>
  BY <1>4, EmptySeq
<1>6. getopt_flag
  BY <1>4, ShortFlag DEF Next, getopt_word, getopt_argument, getopt_missing, main
<1>7. rest' = <<>> /\ given' = given \cup Flag(Head(rest)) /\ UNCHANGED <<value, outcome>>
  BY <1>5, <1>6 DEF getopt_flag
<1>8. given' = {o} \cup {"force"}
  BY <1>4, <1>7, ShortFlag DEF Past
<1>9. ValuesSet(R, W, Len(R))'
  BY <1>7 DEF Past, ValuesSet
<1>10. outcome' = "parsing"
  BY <1>7 DEF Past
<1>. QED  BY <1>7, <1>8, <1>9, <1>10 DEF AtEnd

\* The values of a line of the help text are the arguments of its request, and it
\* lacks none.
LEMMA ArgumentsNamed ==
    ASSUME NEW o \in TopLevel, NEW R \in Listed(o), NEW W \in [1..Len(R) -> Words], ValuesSet(R, W, Len(R))
    PROVE  /\ ~Missing(o)
           /\ Arguments(o) = [i \in DOMAIN W |-> Word(W[i])]
           /\ value["config"] = None
<1>1. \A w : Word(w) # None
  BY DEF Word, None
<1>2. DOMAIN W = 1..Len(R)
  OBVIOUS
<1>3. /\ \A i \in 1..Len(R) : value[R[i]] = Word(W[i])
      /\ \A v \in Valued : (\A i \in 1..Len(R) : R[i] # v) => value[v] = None
  BY DEF ValuesSet
<1>4. CASE R = <<>>
  <2>1. DOMAIN W = {} /\ \A v \in Valued : value[v] = None
    BY <1>2, <1>3, <1>4
  <2>2. o \in {"initDatabase", "quit", "listDevices", "listSessions"}
    BY <1>4 DEF Listed, TopLevel
  <2>3. value["Id"] = None /\ value["config"] = None
    BY <2>1 DEF Valued
  <2>4. ~Missing(o) /\ Arguments(o) = <<>>
    BY <2>2, <2>3 DEF Missing, Arguments
  <2>5. [i \in DOMAIN W |-> Word(W[i])] = <<>>
    BY <2>1
  <2>. QED  BY <2>3, <2>4, <2>5
<1>5. CASE R = <<"Id">>
  <2>1. DOMAIN W = 1..1 /\ value["Id"] = Word(W[1])
    BY <1>2, <1>3, <1>5
  <2>2. o \in {"remDevice", "connect", "disconnect", "startCollecting", "stopCollecting", "remSession", "listSessions"}
    BY <1>5 DEF Listed, TopLevel
  <2>3. value["Id"] # None
    BY <1>1, <2>1
  <2>4. ~Missing(o) /\ Arguments(o) = <<value["Id"]>>
    BY <2>2, <2>3 DEF Missing, Arguments
  <2>5. [i \in DOMAIN W |-> Word(W[i])] = <<Word(W[1])>>
    BY <2>1
  <2>6. value["config"] = None
    BY <1>3, <1>5 DEF Valued
  <2>. QED  BY <2>1, <2>4, <2>5, <2>6
<1>6. CASE R = <<"Name", "Address", "Port">>
  <2>1. DOMAIN W = 1..3 /\ value["Name"] = Word(W[1]) /\ value["Address"] = Word(W[2]) /\ value["Port"] = Word(W[3])
    BY <1>2, <1>3, <1>6
  <2>2. o = "addDevice"
    BY <1>6 DEF Listed, TopLevel
  <2>3. ~Missing(o)
    BY <1>1, <2>1, <2>2 DEF Missing
  <2>4. Arguments(o) = <<value["Name"], value["Address"], value["Port"]>>
    BY <2>2 DEF Arguments
  <2>5. [i \in DOMAIN W |-> Word(W[i])] = <<Word(W[1]), Word(W[2]), Word(W[3])>>
    BY <2>1
  <2>6. value["config"] = None
    BY <1>3, <1>6 DEF Valued
  <2>. QED  BY <2>1, <2>3, <2>4, <2>5, <2>6
<1>. QED  BY <1>4, <1>5, <1>6, ListedType

\* At its end main() has one option and the values listed with it.
LEMMA EndFollowed ==
    ASSUME NEW o \in TopLevel, NEW R \in Listed(o), NEW W \in [1..Len(R) -> Words], NEW forced \in BOOLEAN,
           AtEnd(o, R, W, forced), Next
    PROVE  outcome' # "parsing" /\ Done(o, W, forced)'
<1>1. main
  BY DEF AtEnd, Next, getopt_word, getopt_flag, getopt_argument, getopt_missing, Parsing
<1>2. /\ given \cap TopLevel = {o} /\ "help" \notin given /\ given \cap ExcludedBy(o) = {}
      /\ "force" \in given <=> forced
  BY DEF AtEnd, TopLevel, ExcludedBy
<1>3. /\ ~Missing(o)
      /\ Arguments(o) = [i \in DOMAIN W |-> Word(W[i])]
      /\ value["config"] = None
  BY ArgumentsNamed DEF AtEnd
<1>4. \A p : p \in given \cap TopLevel <=> p = o
  BY <1>2
<1>5. Refused <=> (o = "quit" /\ ~forced)
  BY <1>2, <1>3, <1>4 DEF Refused
<1>6. CASE o = "quit" /\ ~forced
  <2>1. outcome' = "refused"
    BY <1>1, <1>5, <1>6 DEF main
  <2>. QED  BY <1>6, <2>1 DEF Done
<1>7. CASE ~(o = "quit" /\ ~forced)
  <2>. DEFINE rq == [action |-> o, forced |-> "force" \in given /\ o # "listDevices", args |-> Arguments(o)]
  <2>1. /\ outcome' = "run"
        /\ requests' = {[action |-> p,
                         forced |-> "force" \in given /\ p # "listDevices",
                         args |-> Arguments(p)] : p \in given \cap TopLevel}
    BY <1>1, <1>2, <1>3, <1>5, <1>7 DEF main
  <2>2. \A x : x \in requests' <=> x = rq
    BY <1>4, <2>1
  <2>3. rq = Asked(o, W, forced)
    <3>1. ("force" \in given /\ o # "listDevices") = (forced /\ o # "listDevices")
      BY <1>2
    <3>. QED  BY <1>3, <3>1 DEF Asked, Word
  <2>4. requests' = {Asked(o, W, forced)}
    BY <2>2, <2>3
  <2>. QED  BY <1>7, <2>1, <2>4 DEF Done
<1>. QED  BY <1>6, <1>7

LEMMA FollowedStep ==
    ASSUME TypeOK, NEW o \in TopLevel, NEW R \in Listed(o), NEW W \in [1..Len(R) -> Words], NEW forced \in BOOLEAN,
           IsHelpLine(o, R, W, forced), Followed(o, R, W, forced), [Next]_vars
    PROVE  Followed(o, R, W, forced)'
<1>1. CASE UNCHANGED vars
  <2>1. ASSUME AtStart PROVE AtStart'
    BY <1>1, <2>1 DEF AtStart, vars
  <2>2. ASSUME NEW j, Past(o, R, W, j) PROVE Past(o, R, W, j)'
    BY <1>1, <2>2 DEF Past, ValuesSet, vars
  <2>3. ASSUME AtEnd(o, R, W, forced) PROVE AtEnd(o, R, W, forced)'
    BY <1>1, <2>3 DEF AtEnd, ValuesSet, vars
  <2>4. ASSUME outcome # "parsing", Done(o, W, forced) PROVE outcome' # "parsing" /\ Done(o, W, forced)'
    BY <1>1, <2>4 DEF Done, vars
  <2>. QED  BY <2>1, <2>2, <2>3, <2>4 DEF Followed
<1>2. ASSUME AtEnd(o, R, W, forced), Next
      PROVE  Followed(o, R, W, forced)'
  <2>1. outcome' # "parsing" /\ Done(o, W, forced)'
    BY <1>2, EndFollowed
  <2>. QED  BY <2>1 DEF Followed
<1>3. ASSUME Next, AtStart
      PROVE  Followed(o, R, W, forced)'
  <2>1. Past(o, R, W, 0)'
    BY <1>3, OptionFollowed
  <2>2. 0 \in 0..Len(R)
    BY ListedType
  <2>. QED  BY <2>1, <2>2 DEF Followed
<1>4. ASSUME Next, NEW j \in 0..Len(R), Past(o, R, W, j)
      PROVE  Followed(o, R, W, forced)'
  <2>1. Len(R) \in Nat
    BY ListedType
  <2>2. CASE j # Len(R)
    <3>1. j \in 0..(Len(R) - 1) /\ j + 1 \in 0..Len(R)
      BY <2>1, <2>2
    <3>2. Past(o, R, W, j + 1)'
      BY <1>4, <3>1, ValueFollowed
    <3>. QED  BY <3>1, <3>2 DEF Followed
  <2>3. CASE j = Len(R) /\ forced = FALSE
    BY <1>2, <1>4, <2>3, UnforcedEnd
  <2>4. CASE j = Len(R) /\ forced = TRUE
    <3>1. AtEnd(o, R, W, TRUE)'
      BY <1>4, <2>4, ForceFollowed
    <3>. QED  BY <2>4, <3>1 DEF Followed
  <2>. QED  BY <2>2, <2>3, <2>4
<1>5. ASSUME Next, outcome # "parsing", Done(o, W, forced)
      PROVE  Followed(o, R, W, forced)'
  BY <1>5 DEF Next, getopt_word, getopt_flag, getopt_argument, getopt_missing, Parsing, main
<1>. QED  BY <1>1, <1>2, <1>3, <1>4, <1>5 DEF Followed

LEMMA HelpFollowedStep == TypeOK /\ HelpFollowed /\ [Next]_vars => HelpFollowed'
<1>. SUFFICES ASSUME TypeOK, HelpFollowed, [Next]_vars PROVE HelpFollowed'
  OBVIOUS
<1>1. line' = line
  BY DEF Next, vars, getopt_word, getopt_flag, getopt_argument, getopt_missing, main
<1>2. ASSUME NEW o \in TopLevel, NEW forced \in BOOLEAN, NEW R \in Listed(o), NEW W \in [1..Len(R) -> Words]
      PROVE  IsHelpLine(o, R, W, forced)' => Followed(o, R, W, forced)'
  <2>1. IsHelpLine(o, R, W, forced)' => IsHelpLine(o, R, W, forced)
    BY <1>1 DEF IsHelpLine
  <2>2. IsHelpLine(o, R, W, forced) => Followed(o, R, W, forced)
    BY DEF HelpFollowed
  <2>. QED  BY <2>1, <2>2, FollowedStep
<1>. QED  BY <1>2 DEF HelpFollowed

\* Every line of the help text in its short forms, with or without force, makes the
\* request it is for, of the values it names: the letters of getopt_long() say of
\* each option what the help text says of it.  "-q" on its own is the exception,
\* and refused (main(), which asks for -f with it).
THEOREM ShortLinesRunSafe == Spec => []ShortLinesRun
<1>1. Init => HelpFollowed
  <2>1. Init => AtStart
    BY DEF Init, AtStart
  <2>. QED  BY <2>1 DEF HelpFollowed, Followed
<1>2. TypeOK /\ HelpFollowed /\ [Next]_vars => HelpFollowed'
  BY HelpFollowedStep
<1>3. HelpFollowed => ShortLinesRun
  <2>1. SUFFICES ASSUME HelpFollowed, NEW o \in TopLevel, NEW forced \in BOOLEAN,
                        NEW R \in Listed(o), NEW W \in [1..Len(R) -> Words],
                        outcome # "parsing", line = HelpLine(o, R, W, forced, "short")
                 PROVE  Done(o, W, forced)
    BY DEF ShortLinesRun, RunsAsDocumented, Done
  <2>2. IsHelpLine(o, R, W, forced)
    BY <2>1, HelpLineRead
  <2>3. Followed(o, R, W, forced)
    BY <2>1, <2>2 DEF HelpFollowed
  <2>. QED  BY <2>1, <2>3 DEF Followed, AtStart, Past, AtEnd
<1>. QED  BY <1>1, <1>2, <1>3, TypeCorrect, PTL DEF Spec
=============================================================================
