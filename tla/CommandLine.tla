---------------------------- MODULE CommandLine ----------------------------
(***************************************************************************)
(* A command line on its way through the history: command_from_cli of      *)
(* history/command.rs writes it down, and interactive_mode of app/run.rs   *)
(* reads it again with shell_words::split and Cli::try_parse_from.         *)
(*                                                                         *)
(* A word is a sequence of characters.  A name with a meaning of its own   *)
(* (an option, a subcommand, rcurl) counts as one character; of the others *)
(* only those that the splitting tells apart are kept: the blank, "'",     *)
(* "quote" for the double quote, "\\", "#", "-", and "a" for the rest.     *)
(***************************************************************************)
EXTENDS Naturals, Sequences, SequencesExt

CONSTANTS
    ValueFlags,   \* options with a value, each kept in a field of its own
    Switches,     \* options without one
    Subcommands,  \* [name of a quick command -> how many targets it has]
    None          \* an option, a URL or a subcommand that was not given

\* The characters that the splitting tells apart, and the names.
Marks == {" ", "'", "quote", "\\", "#", "-"}
Names == {"rcurl"} \cup ValueFlags \cup Switches \cup DOMAIN Subcommands
Words == Seq(Marks \cup Names \cup {"a"})

\* A parsed command line (Cli): quick_cmd with its targets, -X, the other
\* options that have values, the switches, and the URL.
EmptyCli ==
    [quick |-> None, targets |-> << >>, method |-> None, values |-> << >>,
     switches |-> << >>, url |-> None]

\* What clap accepts: a quick command with as many targets as it has, or a URL.
Clis ==
    {c \in [quick : DOMAIN Subcommands \cup {None}, targets : Seq(Words),
            method : Words \cup {None},
            values : Seq([flag : ValueFlags \ {"-X"}, word : Words]),
            switches : Seq(Switches), url : Words \cup {None}] :
       Len(c.targets) = IF c.quick = None THEN 0 ELSE Subcommands[c.quick]}

ASSUME CommandLineAssumption ==
    /\ "-X" \in ValueFlags
    /\ ValueFlags \cap Switches = {}
    /\ DOMAIN Subcommands \cap (ValueFlags \cup Switches) = {}
    /\ Marks \cap Names = {}
    /\ None \notin Names \cup Words \cup Seq(Words) \cup Clis

-----------------------------------------------------------------------------
(* command_from_cli *)

\* Faulty variant: quotes are taken as they are.
EscapedAsIs(word) == word

\* replace('\'', "'\\''")
Escaped(word) == FlattenSeq([k \in 1..Len(word) |->
    IF word[k] = "'" THEN << "'", "\\", "'", "'" >> ELSE << word[k] >>])

Quoted(word) == << "'" >> \o Escaped(word) \o << "'" >>

\* Words after one another, each with a blank before it.
Spaced(words) == FlattenSeq([k \in 1..Len(words) |-> << " " >> \o words[k]])

\* A quick command is written without the options that were given with it.
\* Targets, the method and the URL are written without quotes.
Rendered(cli) ==
    IF cli.quick # None
    THEN << "rcurl" >> \o Spaced(<< << cli.quick >> >> \o cli.targets)
    ELSE << "rcurl" >>
         \o (IF cli.method = None THEN << >> ELSE Spaced(<< << "-X" >>, cli.method >>))
         \o FlattenSeq([k \in 1..Len(cli.values) |->
              Spaced(<< << cli.values[k].flag >>, Quoted(cli.values[k].word) >>)])
         \o Spaced([k \in 1..Len(cli.switches) |-> << cli.switches[k] >>])
         \o (IF cli.url = None THEN << >> ELSE Spaced(<< cli.url >>))

-----------------------------------------------------------------------------
(* shell_words::split.  A blank stands for all white space. *)

Push(s, c) == [s EXCEPT !.word = Append(@, c)]

\* What begins where no quotes are open.
Opened == [c \in {"'", "quote", "\\"} |->
    CASE c = "'" -> "single" [] c = "quote" -> "double" [] c = "\\" -> "escape"]

\* Before the next word, with these behind it.
BetweenWords(words) == [at |-> "gap", word |-> << >>, words |-> words]

Scanned(s, c) ==
    CASE s.at = "comment" -> s
      [] s.at = "single" -> IF c = "'" THEN [s EXCEPT !.at = "bare"] ELSE Push(s, c)
      [] s.at = "double" ->
           CASE c = "quote" -> [s EXCEPT !.at = "bare"]
             [] c = "\\" -> [s EXCEPT !.at = "double escape"]
             [] OTHER -> Push(s, c)
      [] s.at = "escape" -> Push([s EXCEPT !.at = "bare"], c)
      [] s.at = "double escape" ->
           LET kept == IF c \in {"quote", "\\"} THEN s ELSE Push(s, "\\")
           IN  Push([kept EXCEPT !.at = "double"], c)
      [] s.at \in {"gap", "bare"} ->
           CASE c \in DOMAIN Opened -> [s EXCEPT !.at = Opened[c]]
             [] c = " " /\ s.at = "gap" -> s
             [] c = " " /\ s.at = "bare" ->
                  BetweenWords(Append(s.words, s.word))
             [] c = "#" /\ s.at = "gap" -> [s EXCEPT !.at = "comment"]
             [] OTHER -> Push([s EXCEPT !.at = "bare"], c)

Lexed(line) ==
    LET upTo[k \in 0..Len(line)] ==
          IF k = 0 THEN BetweenWords(<< >>) ELSE Scanned(upTo[k-1], line[k])
    IN  upTo[Len(line)]

\* The words of a line, or None when a quote is left open.
Split(line) ==
    LET s == Lexed(line)
    IN  CASE s.at \in {"single", "double", "double escape"} -> None
          [] s.at \in {"gap", "comment"} -> s.words
          [] s.at = "bare" -> Append(s.words, s.word)
          [] s.at = "escape" -> Append(s.words, Append(s.word, "\\"))

-----------------------------------------------------------------------------
(* Cli::try_parse_from *)

\* clap takes it for an option.
Dashed(word) ==
    word # << >> /\ \/ Head(word) \in ValueFlags \cup Switches
                    \/ Head(word) = "-" /\ Len(word) > 1

WithValue(cli, flag, word) ==
    IF flag = "-X" THEN [cli EXCEPT !.method = word]
    ELSE [cli EXCEPT !.values = Append(@, [flag |-> flag, word |-> word])]

\* What the words up to here make: a command line that may end or go on, one
\* that goes on with the value of a flag, or none.
Ready(cli) == [cli |-> cli, pending |-> None, bad |-> FALSE]
Waits(cli, flag) == [cli |-> cli, pending |-> flag, bad |-> FALSE]
Rejected == [cli |-> EmptyCli, pending |-> None, bad |-> TRUE]

\* An option.  Only -o is allowed behind a subcommand.
OptionTaken(cli, word) ==
    IF Len(word) > 1 \/ (cli.quick # None /\ word # << "-o" >>) THEN Rejected
    ELSE IF word[1] \in ValueFlags THEN Waits(cli, word[1])
    ELSE Ready([cli EXCEPT !.switches = Append(@, word[1])])

\* A word in its place: a target, a subcommand or the URL.
PlaceTaken(cli, word) ==
    IF cli.quick # None THEN Ready([cli EXCEPT !.targets = Append(@, word)])
    ELSE IF Len(word) = 1 /\ word[1] \in DOMAIN Subcommands
         THEN Ready([cli EXCEPT !.quick = word[1]])
    ELSE IF cli.url = None THEN Ready([cli EXCEPT !.url = word])
    ELSE Rejected

\* One word after the other.
Taken(s, word) ==
    IF s.bad THEN s
    ELSE IF s.pending # None
         THEN IF Dashed(word) THEN Rejected ELSE Ready(WithValue(s.cli, s.pending, word))
    ELSE IF Dashed(word) THEN OptionTaken(s.cli, word)
    ELSE PlaceTaken(s.cli, word)

Filled(args) ==
    LET upTo[k \in 0..Len(args)] ==
          IF k = 0 THEN Ready(EmptyCli) ELSE Taken(upTo[k-1], args[k])
    IN  upTo[Len(args)]

\* The command line that the words after the program's name make, or None.
Parsed(words) ==
    LET s == Filled(Tail(words))
    IN  IF \/ s.bad
           \/ s.pending # None
           \/ s.cli.quick # None /\ Len(s.cli.targets) # Subcommands[s.cli.quick]
        THEN None ELSE s.cli

\* What interactive_mode makes of a line of the history.
Reread(line) ==
    LET words == Split(line) IN IF words = None THEN None ELSE Parsed(words)

-----------------------------------------------------------------------------
(* What can be expected *)

\* A word that the shell splitting and clap leave as it is.
Plain(word) ==
    /\ word # << >>
    /\ ToSet(word) \cap {" ", "'", "quote", "\\"} = {}
    /\ Head(word) # "#"
    /\ ~Dashed(word)

\* A line that can be written down and read again: what is written without
\* quotes does not need them, no value looks like an option, and the URL is not
\* the name of a quick command.
Rereadable(cli) ==
    IF cli.quick # None THEN \A k \in 1..Len(cli.targets) : Plain(cli.targets[k])
    ELSE /\ cli.method # None => Plain(cli.method)
         /\ cli.url # None => Plain(cli.url) /\ cli.url \notin {<< q >> : q \in DOMAIN Subcommands}
         /\ \A k \in 1..Len(cli.values) : ~Dashed(cli.values[k].word)

\* What is left of a command line in the history.
Remembered(cli) ==
    IF cli.quick # None THEN [EmptyCli EXCEPT !.quick = cli.quick, !.targets = cli.targets]
    ELSE cli
=============================================================================
