----------------------------- MODULE CommandLine -----------------------------
(***************************************************************************)
(* suil::args: a Parser with global arguments and Commands that have their *)
(* own, and one command line read word by word.  A word is positional, a   *)
(* long flag, a cluster of short flags, or of bad syntax, with or without  *)
(* "=value".  What the help looks like is left out.                        *)
(***************************************************************************)
EXTENDS Integers, Sequences, FiniteSets

CONSTANTS Flags,        \* arguments an application declares
          GlobalFlags,  \* those it may declare for all commands
          CmdDecls,     \* commands: a name and arguments
          MaxDecls,     \* bound: declarations
          CmdWords,     \* words of a command line
          MaxCmdWords   \* bound: words after the command

NoLf == "none"  \* no long name, nothing wanted
NoSf == "none"

\* A flag has a long name, which Command insists on and Parser takes from the
\* application; the letters of a cluster are at least one, as Command::isValid() has it.
ASSUME ArgsAssumption ==
    /\ GlobalFlags \subseteq Flags /\ \A d \in CmdDecls : d[2] \in Seq(Flags)
    /\ \A a \in Flags : a.lf # NoLf
    /\ \A w \in CmdWords : w.kind \in {"pos", "long", "short", "bad"}
    /\ \A w \in CmdWords : w.kind = "short" => w.sfs \in Seq(STRING) /\ w.sfs # <<>>

VARIABLES mGlobals, mCommands,
          adding, copied,   \* the command being added, and how many globals it was compared with
          argv,         \* the words read so far, the command first
          mParsed,      \* of the command: long name -> value
          mPositionals,
          want,         \* the long name that the next word is the value of
          outcome       \* "declare", "adding", "words", or how parse() ended

argsVars == <<mGlobals, mCommands, adding, copied, argv, mParsed, mPositionals, want, outcome>>

\* A word: its name or value, the letters of a cluster, whether "=value" follows.
Word(kind, name, sfs, eq) == [kind |-> kind, name |-> name, sfs |-> sfs, eq |-> eq]
One == Word("given", "1", <<>>, FALSE)
Empty == Word("given", "empty", <<>>, FALSE)
Typed == Word("given", "typed", <<>>, FALSE)
Arg(lf, sf, option, required) ==
    [lf |-> lf, sf |-> sf, option |-> option, required |-> required,
     prompt |-> "no", default |-> FALSE]
Help == Arg("help", "h", TRUE, FALSE)

\* Arg::check(), Command::check(), Parser::findArg() and Parser::find(): the first of
\* a list, 0 when there is none.
Checks(a, lf, sf) == (sf # NoSf /\ sf = a.sf) \/ lf = a.lf
First(is) == IF is = {} THEN 0 ELSE CHOOSE i \in is : \A j \in is : i <= j
Find(args, lf, sf) == First({i \in DOMAIN args : Checks(args[i], lf, sf)})
FindCommand(cmds, name) == First({i \in DOMAIN cmds : cmds[i].name = name})

\* Command::operator()(Arg&&): two that could be confused are refused.
CommandArgs(args) ==
    \A i, j \in DOMAIN args : i < j => ~Checks(args[i], args[j].lf, args[j].sf)

Command(name, args, internal) == [name |-> name, args |-> args, internal |-> internal]
NoCommand == Command(NoLf, <<>>, FALSE)

\* Parser::Parser(): the global flag help, the commands version and help.
ArgsInit ==
    /\ mGlobals = <<Help>>
    /\ mCommands = <<Command("version", <<Help>>, TRUE), Command("help", <<Help>>, TRUE)>>
    /\ adding = NoCommand /\ copied = 0
    /\ argv = <<>> /\ mParsed = [x \in {} |-> One] /\ mPositionals = <<>> /\ want = NoLf
    /\ outcome = "declare"

Declared == Len(mGlobals) + Len(mCommands) - 3

\* Parser::add(Arg&&): refused when the long name is there, whatever its letter.
AddGlobal(a) ==
    /\ outcome = "declare" /\ Declared < MaxDecls
    /\ \A i \in DOMAIN mGlobals : mGlobals[i].lf # a.lf
    /\ mGlobals' = Append(mGlobals, a)
    /\ UNCHANGED <<mCommands, adding, copied, argv, mParsed, mPositionals, want, outcome>>

\* Parser::add(Command&&): the command gets a copy of the global arguments declared
\* so far, one after the other, except where it has a flag with that name or letter.
AddCommand(name, args) ==
    /\ outcome = "declare" /\ Declared < MaxDecls
    /\ FindCommand(mCommands, name) = 0 /\ CommandArgs(args)
    /\ adding' = Command(name, args, FALSE) /\ copied' = 0 /\ outcome' = "adding"
    /\ UNCHANGED <<mGlobals, mCommands, argv, mParsed, mPositionals, want>>
CopyGlobal ==
    /\ outcome = "adding" /\ copied < Len(mGlobals)
    /\ LET g == mGlobals[copied + 1]
       IN  adding' = IF Find(adding.args, g.lf, g.sf) # 0 THEN adding
                     ELSE [adding EXCEPT !.args = Append(@, g)]
    /\ copied' = copied + 1
    /\ UNCHANGED <<mGlobals, mCommands, argv, mParsed, mPositionals, want, outcome>>
CommandAdded ==
    /\ outcome = "adding" /\ copied = Len(mGlobals)
    /\ mCommands' = Append(mCommands, adding)
    /\ adding' = NoCommand /\ copied' = 0 /\ outcome' = "declare"
    /\ UNCHANGED <<mGlobals, argv, mParsed, mPositionals, want>>

\* Parser::parse(), the first word: no word, a flag or an unknown command ends it.
ParserParse(w) ==
    /\ outcome = "declare" /\ argv' = <<w>>
    /\ outcome' = IF w.kind # "pos" \/ FindCommand(mCommands, w.name) = 0 THEN "failure" ELSE "words"
    /\ UNCHANGED <<mGlobals, mCommands, adding, copied, mParsed, mPositionals, want>>

Cmd == mCommands[FindCommand(mCommands, argv[1].name)]
Emplace_last(m, lfs, v) == [x \in DOMAIN m \cup lfs |-> IF x \in lfs THEN v ELSE m[x]]
Emplace(m, lfs, v) == [x \in DOMAIN m \cup lfs |-> IF x \in DOMAIN m THEN m[x] ELSE v]

\* What one word does to <<mParsed, want, outcome>>.
Failure(m) == <<m, NoLf, "failure">>

\* A long flag.  "=value" is cut off before its value is taken: what remains of it
\* is the empty string.
LongFlag(w) ==
    LET i == Find(Cmd.args, w.name, NoSf)
        a == Cmd.args[i]
    IN  IF i = 0 \/ a.prompt # "no" THEN Failure(mParsed)
        ELSE IF a.sf = "h" THEN <<mParsed, NoLf, "help">>
        ELSE IF a.lf \in DOMAIN mParsed THEN Failure(mParsed)
        ELSE IF a.option
        THEN IF w.eq THEN Failure(mParsed) ELSE <<Emplace(mParsed, {a.lf}, One), NoLf, "words">>
        ELSE IF w.eq THEN <<Emplace(mParsed, {a.lf}, Empty), NoLf, "words">>
        ELSE <<mParsed, a.lf, "words">>

\* A cluster of short flags: options, up to the first letter that is none; only the
\* last letter may take a value.
ShortFlags(w) ==
    LET at(k) == Find(Cmd.args, NoLf, w.sfs[k])
        flag(k) == Cmd.args[at(k)]
        ends == {k \in DOMAIN w.sfs : at(k) = 0 \/ flag(k).sf = "h" \/ ~flag(k).option \/ w.eq}
        n == First(ends)
        m == Emplace(mParsed, {flag(k).lf : k \in {k \in DOMAIN w.sfs : n = 0 \/ k < n}}, One)
    IN  IF n = 0 THEN <<m, NoLf, "words">>
        ELSE IF at(n) = 0 THEN Failure(m)
        ELSE IF flag(n).sf = "h" THEN <<m, NoLf, "help">>
        ELSE IF flag(n).option \/ n < Len(w.sfs) THEN Failure(m)
        ELSE IF w.eq THEN <<Emplace(m, {flag(n).lf}, Empty), NoLf, "words">>
        ELSE <<m, flag(n).lf, "words">>

\* One turn of the loop of Command::parse(), or the value that a turn goes on to take.
ReadWord(w) ==
    /\ outcome = "words" /\ Len(argv) <= MaxCmdWords
    /\ argv' = Append(argv, w)
    /\ mPositionals' = IF want = NoLf /\ w.kind = "pos" THEN Append(mPositionals, w.name)
                       ELSE mPositionals
    /\ LET r == IF want # NoLf THEN <<Emplace(mParsed, {want}, w), NoLf, "words">>
                ELSE CASE w.kind = "pos" -> <<mParsed, NoLf, "words">>
                       [] w.kind = "long" -> LongFlag(w)
                       [] w.kind = "short" -> ShortFlags(w)
                       [] OTHER -> Failure(mParsed)
       IN  mParsed' = r[1] /\ want' = r[2] /\ outcome' = r[3]
    /\ UNCHANGED <<mGlobals, mCommands, adding, copied>>

\* The end of the words: the required arguments that are missing are asked for, or
\* are an error.  readPasswd() always has an answer, readParam() at the end of
\* the input only a default.
Missing == {i \in DOMAIN Cmd.args : Cmd.args[i].required /\ Cmd.args[i].lf \notin DOMAIN mParsed}
EndOfWords(typed) ==
    LET asked == {i \in Missing : want = NoLf /\ Cmd.args[i].prompt # "no"}
        answered == {i \in asked : typed \/ Cmd.args[i].prompt = "hidden" \/ Cmd.args[i].default}
        lfs == {Cmd.args[i].lf : i \in answered}
    IN  /\ outcome = "words"
        /\ mParsed' = [x \in DOMAIN mParsed \cup lfs |-> IF x \in lfs THEN Typed ELSE mParsed[x]]
        /\ outcome' = CASE want # NoLf \/ answered # Missing -> "failure"
                        [] Cmd.internal -> "internal"
                        [] OTHER -> "parsed"
        /\ UNCHANGED <<mGlobals, mCommands, adding, copied, argv, mPositionals, want>>

ArgsNext ==
    \/ \E a \in GlobalFlags : AddGlobal(a)
    \/ \E d \in CmdDecls : AddCommand(d[1], d[2])
    \/ CopyGlobal \/ CommandAdded
    \/ \E w \in CmdWords : ParserParse(w) \/ ReadWord(w)
    \/ \E typed \in BOOLEAN : EndOfWords(typed)
ArgsSpec == ArgsInit /\ [][ArgsNext]_argsVars
-----------------------------------------------------------------------------
\* Whether a word names the argument a by its last flag, and whether that flag takes
\* the word after it as its value.
ArgNames(w, a) ==
    \/ w.kind = "long" /\ w.name = a.lf
    \/ w.kind = "short" /\ a.sf # NoSf /\ w.sfs[Len(w.sfs)] = a.sf
Takes(w) == ~w.eq /\ \E k \in DOMAIN Cmd.args : ~Cmd.args[k].option /\ ArgNames(w, Cmd.args[k])

\* A word is the value of the word before it, unless that one is a value itself.
Values(v) == \A i \in DOMAIN argv : v[i] <=> i > 2 /\ Takes(argv[i - 1]) /\ ~v[i - 1]
IsValue == CHOOSE v \in [DOMAIN argv -> BOOLEAN] : Values(v)

\* The words that are positional, given which are values, in their order.
Places(v) == {i \in 2 .. Len(argv) : argv[i].kind = "pos" /\ ~v[i]}
InOrder(v) ==
    /\ Len(mPositionals) = Cardinality(Places(v))
    /\ \A i \in Places(v) :
          mPositionals[Cardinality({j \in Places(v) : j <= i})] = argv[i].name

\* Whether a flag of the word is the argument a, whether the flags of a word are the
\* command's, with a value where they may have one, and the flags of a, in argv.
HasFlag(w, a) ==
    \/ w.kind = "long" /\ w.name = a.lf
    \/ w.kind = "short" /\ a.sf # NoSf /\ \E k \in DOMAIN w.sfs : w.sfs[k] = a.sf
FlagsKnown(w) ==
    /\ w.kind \in {"pos", "long", "short"}
    /\ w.kind = "long" => \E k \in DOMAIN Cmd.args : HasFlag(w, Cmd.args[k])
    /\ w.kind = "short" => \A n \in DOMAIN w.sfs : \E k \in DOMAIN Cmd.args : Cmd.args[k].sf = w.sfs[n]
    /\ \A k \in DOMAIN Cmd.args : HasFlag(w, Cmd.args[k]) =>
          IF Cmd.args[k].option THEN ~w.eq ELSE ArgNames(w, Cmd.args[k])
FlagsOf(a, v) == {i \in 2 .. Len(argv) : ~v[i] /\ HasFlag(argv[i], a)}
IsFirst(i, is) == i \in is /\ \A j \in is : i <= j

\* The value of an argument is what its flag at i says: an option is on, what comes
\* after "=" is lost, and otherwise it is the next word.
Says(a, i, v) ==
    /\ a.lf \in DOMAIN mParsed
    /\ a.option => mParsed[a.lf] = One
    /\ ~a.option /\ argv[i].eq => mParsed[a.lf] = Empty
    /\ ~a.option /\ ~argv[i].eq => i < Len(argv) /\ v[i + 1] /\ mParsed[a.lf] = argv[i + 1]

\* What became of an argument: the first of its flags gave it its value, and those
\* after it, all in clusters, changed nothing; or it has no flag, and a value only
\* if it is required, from a prompt.
ArgUsed(a, v) ==
    /\ \A i \in FlagsOf(a, v) : IsFirst(i, FlagsOf(a, v)) => Says(a, i, v)
    /\ \A i, j \in FlagsOf(a, v) : i < j => argv[j].kind = "short"
    /\ FlagsOf(a, v) = {} => (a.lf \in DOMAIN mParsed <=> a.required)
    /\ FlagsOf(a, v) = {} /\ a.required => a.prompt # "no" /\ mParsed[a.lf] = Typed

\* What parse() makes of every word of a command line it accepts.  The words that are
\* neither flags nor the values of flags are the positionals, in their order; every
\* flag is one of the command's; and every argument has the value that the first of
\* its flags gives it.  The value of a flag that is repeated in a cluster of short
\* flags is dropped (mParsed.emplace() finds the argument there), a long flag that is
\* repeated is refused; after "=" there is no value.
WordsUsedOnce ==
    outcome = "parsed" =>
        /\ InOrder(IsValue)
        /\ \A i \in 2 .. Len(argv) : IsValue[i] \/ FlagsKnown(argv[i])
        /\ \A k \in DOMAIN Cmd.args : ArgUsed(Cmd.args[k], IsValue)
        /\ DOMAIN mParsed \subseteq {Cmd.args[k].lf : k \in DOMAIN Cmd.args}
=============================================================================
