-------------------------- MODULE CommandLineProofs --------------------------
(***************************************************************************)
(* The command line. Which of its words are values follows from the word   *)
(* before each; while words are read, the positionals are the others, the  *)
(* first flag of each argument has given it its value or is about to, and  *)
(* the loop wants a value exactly when the last word takes one.            *)
(***************************************************************************)
EXTENDS CommandLine, SequenceLemmas, FiniteSetTheorems, TLAPS

\* The types: arguments with the flag help, commands, and what can be parsed.
AllFlags == Flags \cup {Help}
Commands == [name : {NoLf, "version", "help"} \cup {d[1] : d \in CmdDecls},
             args : Seq(AllFlags), internal : BOOLEAN]
Results == CmdWords \cup {One, Typed, Empty}
ArgsTypeOK ==
    /\ mGlobals \in Seq(AllFlags) /\ mCommands \in Seq(Commands) /\ adding \in Commands
    /\ copied \in Nat /\ argv \in Seq(CmdWords)
    /\ mPositionals \in Seq({w.name : w \in CmdWords}) /\ mParsed \in [DOMAIN mParsed -> Results]

\* Whether the first word has chosen a command, and whether no word was read.
Chosen == argv # <<>> /\ argv[1].kind = "pos" /\ FindCommand(mCommands, argv[1].name) # 0
Untouched == argv = <<>> /\ DOMAIN mParsed = {} /\ mPositionals = <<>> /\ want = NoLf

\* What is known of the words, given which of them are values.
Lfs == {Cmd.args[k].lf : k \in DOMAIN Cmd.args}
WordsKnown(v) ==
    /\ Values(v) /\ InOrder(v) /\ DOMAIN mParsed \subseteq Lfs
    /\ \A i \in 2 .. Len(argv) : v[i] \/ FlagsKnown(argv[i])

\* An argument while words are read: no value without a flag, and the value that the
\* first of its flags gives it, unless that is still to come.
ArgRead(a, v) ==
    /\ FlagsOf(a, v) = {} => a.lf \notin DOMAIN mParsed
    /\ \A i \in FlagsOf(a, v) : IsFirst(i, FlagsOf(a, v)) =>
          IF want = a.lf /\ i = Len(argv) THEN a.lf \notin DOMAIN mParsed ELSE Says(a, i, v)
    /\ \A i, j \in FlagsOf(a, v) : i < j => argv[j].kind = "short"
WordsInv(v) == WordsKnown(v) /\ \A k \in DOMAIN Cmd.args : ArgRead(Cmd.args[k], v)
AllUsed(v) == WordsKnown(v) /\ \A k \in DOMAIN Cmd.args : ArgUsed(Cmd.args[k], v)

\* The loop wants the value of an argument when the last word is a flag that takes
\* one, and is no value itself.
Taker(w, lf) == ~w.eq /\ \E k \in DOMAIN Cmd.args : /\ Cmd.args[k].lf = lf /\ ~Cmd.args[k].option
                                                    /\ ArgNames(w, Cmd.args[k])
WantInv(v) ==
    LET n == Len(argv)
    IN  IF want = NoLf THEN n = 1 \/ v[n] \/ ~Takes(argv[n])
        ELSE n > 1 /\ ~v[n] /\ Taker(argv[n], want)

Marks == [DOMAIN argv -> BOOLEAN]
CommandsOK ==
    CommandArgs(adding.args) /\ \A i \in DOMAIN mCommands : CommandArgs(mCommands[i].args)
ArgsInv ==
    /\ ArgsTypeOK /\ CommandsOK
    /\ outcome \in {"declare", "adding"} => Untouched
    /\ outcome \in {"words", "parsed"} => Chosen
    /\ outcome = "words" => \E v \in Marks : WordsInv(v) /\ WantInv(v)
    /\ outcome = "parsed" => \E v \in Marks : AllUsed(v)

\* The first of some indexes is one of them, if there are any.
LEMMA FirstIs ==
    ASSUME NEW is \in SUBSET Nat, 0 \notin is
    PROVE  /\ First(is) = 0 <=> is = {}
           /\ First(is) # 0 => First(is) \in is /\ \A j \in is : First(is) <= j
<1>1. CASE is = {}
  BY <1>1 DEF First
<1>2. CASE is # {}
  <2>1. \E i \in is : \A j \in is : i <= j
    BY <1>2, LeastExists
  <2>2. First(is) = CHOOSE i \in is : \A j \in is : i <= j
    BY <1>2 DEF First
  <2>3. First(is) \in is /\ \A j \in is : First(is) <= j
    BY <2>1, <2>2
  <2> QED
    BY <2>3, <1>2
<1> QED
  BY <1>1, <1>2

\* What a search in a list of arguments finds, or says by finding nothing.
LEMMA FindIs ==
    ASSUME NEW args \in Seq(AllFlags), NEW lf, NEW sf
    PROVE  /\ Find(args, lf, sf) # 0 => /\ Find(args, lf, sf) \in DOMAIN args
                                        /\ Checks(args[Find(args, lf, sf)], lf, sf)
           /\ Find(args, lf, sf) = 0 => \A i \in DOMAIN args : ~Checks(args[i], lf, sf)
<1> DEFINE is == {i \in DOMAIN args : Checks(args[i], lf, sf)}
<1>1. is \in SUBSET Nat /\ 0 \notin is
  OBVIOUS
<1>2. Find(args, lf, sf) = First(is)
  BY DEF Find
<1>3. /\ First(is) = 0 <=> is = {}
      /\ First(is) # 0 => First(is) \in is
  BY <1>1, FirstIs
<1> QED
  BY <1>2, <1>3

\* The command that was chosen is one of the table.
LEMMA CmdIs ==
    ASSUME ArgsTypeOK, CommandsOK, Chosen
    PROVE  Cmd.args \in Seq(AllFlags) /\ CommandArgs(Cmd.args) /\ Cmd \in Commands
<1> DEFINE is == {i \in DOMAIN mCommands : mCommands[i].name = argv[1].name}
<1>1. is \in SUBSET Nat /\ 0 \notin is
  BY DEF ArgsTypeOK
<1>2. FindCommand(mCommands, argv[1].name) = First(is)
  BY DEF FindCommand
<1>3. First(is) \in DOMAIN mCommands
  BY <1>1, <1>2, FirstIs DEF Chosen
<1>4. Cmd = mCommands[First(is)]
  BY <1>2 DEF Cmd
<1>5. Cmd \in Commands
  BY <1>3, <1>4 DEF ArgsTypeOK
<1> QED
  BY <1>3, <1>4, <1>5 DEF CommandsOK, Commands

\* No two arguments of a command have the same long name, or the same letter.
LEMMA NotConfused ==
    ASSUME NEW args \in Seq(AllFlags), CommandArgs(args),
           NEW i \in DOMAIN args, NEW j \in DOMAIN args,
           args[i].lf = args[j].lf \/ (args[i].sf = args[j].sf /\ args[i].sf # NoSf)
    PROVE  i = j
<1>1. Checks(args[i], args[j].lf, args[j].sf) /\ Checks(args[j], args[i].lf, args[i].sf)
  BY DEF Checks
<1>2. i \in Nat /\ j \in Nat
  OBVIOUS
<1> QED
  BY <1>1, <1>2 DEF CommandArgs

\* A copy of a global argument is added only where it can be told from the others.
LEMMA CopyApart ==
    ASSUME NEW args \in Seq(AllFlags), CommandArgs(args), NEW g \in AllFlags,
           Find(args, g.lf, g.sf) = 0
    PROVE  CommandArgs(Append(args, g))
<1>1. \A i \in DOMAIN args : ~Checks(args[i], g.lf, g.sf)
  BY FindIs
<1> DEFINE b == Append(args, g)
<1>2. /\ DOMAIN b = 1 .. Len(args) + 1 /\ DOMAIN args = 1 .. Len(args) /\ Len(args) \in Nat
      /\ \A i \in 1 .. Len(args) : b[i] = args[i]
      /\ b[Len(args) + 1] = g
  OBVIOUS
<1> HIDE DEF b
<1>3. ASSUME NEW i \in DOMAIN b, NEW j \in DOMAIN b, i < j PROVE ~Checks(b[i], b[j].lf, b[j].sf)
  <2>1. i \in DOMAIN args /\ b[i] = args[i]
    BY <1>2, <1>3
  <2>2. CASE j \in DOMAIN args
    BY <2>1, <2>2, <1>2, <1>3 DEF CommandArgs
  <2>3. CASE j = Len(args) + 1
    BY <2>1, <2>3, <1>1, <1>2
  <2> QED
    BY <2>2, <2>3, <1>2
<1>4. CommandArgs(b)
  BY <1>3 DEF CommandArgs
<1> QED
  BY <1>4 DEF b

\* Every flag has a long name.
LEMMA FlagIs == ASSUME NEW a \in AllFlags PROVE a.lf # NoLf
  BY ArgsAssumption DEF AllFlags, Help, Arg, NoLf

\* The results are a map of them.
MapOK(m) == m \in [DOMAIN m -> Results]

\* What a word adds to what has been parsed, what it does to an argument, and whether
\* it wants a value.
Keeps(m) == DOMAIN mParsed \subseteq DOMAIN m /\ \A x \in DOMAIN mParsed : m[x] = mParsed[x]
Effect(w, a, m, lf) ==
    IF HasFlag(w, a)
    THEN IF a.lf \in DOMAIN mParsed THEN w.kind = "short"
         ELSE \/ lf = a.lf /\ a.lf \notin DOMAIN m
              \/ /\ lf # a.lf /\ a.lf \in DOMAIN m
                 /\ \/ a.option /\ m[a.lf] = One
                    \/ ~a.option /\ w.eq /\ m[a.lf] = Empty
    ELSE lf # a.lf /\ (a.lf \in DOMAIN m => a.lf \in DOMAIN mParsed)
Adds(w, m, lf) ==
    /\ DOMAIN m \subseteq DOMAIN mParsed \cup Lfs /\ FlagsKnown(w)
    /\ \A k \in DOMAIN Cmd.args : Effect(w, Cmd.args[k], m, lf)
Fitting(w, m, lf, how) ==
    /\ MapOK(m) /\ how \in {"words", "failure", "help"}
    /\ how = "words" => /\ Keeps(m) /\ Adds(w, m, lf)
                        /\ IF lf = NoLf THEN ~Takes(w) ELSE Taker(w, lf)
Fits(w, r) == Fitting(w, r[1], r[2], r[3])

\* A result is fitting if its parts are.
LEMMA PartsFit ==
    ASSUME NEW w, NEW m, NEW lf, NEW how, Fitting(w, m, lf, how)
    PROVE  Fits(w, <<m, lf, how>>)
<1>1. <<m, lf, how>>[1] = m /\ <<m, lf, how>>[2] = lf /\ <<m, lf, how>>[3] = how
  OBVIOUS
<1> QED
  BY <1>1, Zenon DEF Fits

\* Names that are put into a map keep what is there.
LEMMA EmplaceIs ==
    ASSUME NEW m, MapOK(m), NEW lfs, NEW v \in Results
    PROVE  /\ MapOK(Emplace(m, lfs, v)) /\ DOMAIN Emplace(m, lfs, v) = DOMAIN m \cup lfs
           /\ \A x \in DOMAIN m : Emplace(m, lfs, v)[x] = m[x]
           /\ \A x \in lfs : x \notin DOMAIN m => Emplace(m, lfs, v)[x] = v
  BY DEF Emplace, MapOK

\* The same for one name.
LEMMA EmplaceOne ==
    ASSUME NEW m, MapOK(m), NEW lf, NEW v \in Results
    PROVE  /\ MapOK(Emplace(m, {lf}, v)) /\ DOMAIN Emplace(m, {lf}, v) = DOMAIN m \cup {lf}
           /\ \A x \in DOMAIN m : Emplace(m, {lf}, v)[x] = m[x]
           /\ lf \notin DOMAIN m => Emplace(m, {lf}, v)[lf] = v
  BY DEF Emplace, MapOK

\* A value was said by a flag, was asked for, or is a word: it can be told which.
LEMMA ResultsDiffer ==
    /\ One # Typed /\ One # Empty /\ Typed # Empty
    /\ \A w \in CmdWords : w # One /\ w # Typed /\ w # Empty
<1>1. /\ One.name = "1" /\ Typed.name = "typed" /\ Empty.name = "empty"
      /\ One.kind = "given" /\ Typed.kind = "given" /\ Empty.kind = "given"
  BY DEF One, Typed, Empty, Word
<1>2. ASSUME NEW w \in CmdWords PROVE w.kind # "given"
  <2>1. w.kind \in {"pos", "long", "short", "bad"}
    BY ArgsAssumption
  <2> QED
    BY <2>1
<1> QED
  BY <1>1, <1>2

\* A result that changes nothing of the map, or ends the parsing.
LEMMA FailureFits ==
    ASSUME NEW w, NEW m, MapOK(m), NEW o \in {"failure", "help"}
    PROVE  Fits(w, <<m, NoLf, o>>) /\ Fits(w, Failure(m))
<1>1. Fitting(w, m, NoLf, o) /\ Fitting(w, m, NoLf, "failure")
  BY DEF Fitting
<1> QED
  BY <1>1, PartsFit DEF Failure

\* A long flag: the argument with its name, and no other, is meant.
LEMMA LongFits ==
    ASSUME ArgsTypeOK, CommandsOK, Chosen, NEW w \in CmdWords, w.kind = "long"
    PROVE  Fits(w, LongFlag(w))
<1> DEFINE i == Find(Cmd.args, w.name, NoSf)
           a == Cmd.args[i]
<1>1. Cmd.args \in Seq(AllFlags) /\ CommandArgs(Cmd.args)
  BY CmdIs
<1>2. MapOK(mParsed)
  BY DEF ArgsTypeOK, MapOK, Results
<1>3. LongFlag(w) =
        IF i = 0 \/ a.prompt # "no" THEN Failure(mParsed)
        ELSE IF a.sf = "h" THEN <<mParsed, NoLf, "help">>
        ELSE IF a.lf \in DOMAIN mParsed THEN Failure(mParsed)
        ELSE IF a.option
        THEN IF w.eq THEN Failure(mParsed) ELSE <<Emplace(mParsed, {a.lf}, One), NoLf, "words">>
        ELSE IF w.eq THEN <<Emplace(mParsed, {a.lf}, Empty), NoLf, "words">>
        ELSE <<mParsed, a.lf, "words">>
  BY DEF LongFlag
<1>4. Fits(w, Failure(mParsed)) /\ Fits(w, <<mParsed, NoLf, "help">>)
  BY <1>2, FailureFits
<1>5. ASSUME i # 0
      PROVE  /\ i \in DOMAIN Cmd.args /\ a \in AllFlags /\ a.lf = w.name
             /\ a.lf # NoLf
             /\ ArgNames(w, a) /\ \A k \in DOMAIN Cmd.args : ArgNames(w, Cmd.args[k]) => k = i
  <2>1. i \in DOMAIN Cmd.args /\ Checks(a, w.name, NoSf)
    BY <1>1, <1>5, FindIs
  <2>2. a.lf = w.name /\ a \in AllFlags
    BY <2>1, <1>1 DEF Checks
  <2>3. a.lf # NoLf
    BY <2>2, FlagIs
  <2>4. ASSUME NEW k \in DOMAIN Cmd.args, ArgNames(w, Cmd.args[k]) PROVE k = i
    <3>1. Cmd.args[k].lf = a.lf
      BY <2>2, <2>4 DEF ArgNames
    <3> QED
      BY <3>1, <2>1, <1>1, NotConfused
  <2> QED
    BY <2>1, <2>2, <2>3, <2>4 DEF ArgNames
<1> HIDE DEF i
<1>6. ASSUME i # 0
      PROVE  \A k \in DOMAIN Cmd.args : /\ HasFlag(w, Cmd.args[k]) <=> k = i
                                        /\ Cmd.args[k].lf = a.lf <=> k = i
                                        /\ Cmd.args[k].lf # NoLf
  <2>1. \A k \in DOMAIN Cmd.args : Cmd.args[k].lf = a.lf => ArgNames(w, Cmd.args[k])
    BY <1>5, <1>6 DEF ArgNames
  <2>2. \A k \in DOMAIN Cmd.args : HasFlag(w, Cmd.args[k]) <=> Cmd.args[k].lf = a.lf
    BY <1>5, <1>6 DEF HasFlag
  <2>3. \A k \in DOMAIN Cmd.args : Cmd.args[k] \in AllFlags
    BY <1>1
  <2> HIDE DEF a
  <2> QED
    BY <2>1, <2>2, <2>3, <1>5, <1>6, FlagIs DEF a
<1>7. ASSUME i # 0, a.option => ~w.eq PROVE FlagsKnown(w) /\ a.lf \in Lfs
  <2>1. \A k \in DOMAIN Cmd.args : HasFlag(w, Cmd.args[k]) => k = i
    BY <1>6, <1>7
  <2>2. HasFlag(w, Cmd.args[i]) /\ i \in DOMAIN Cmd.args /\ ArgNames(w, Cmd.args[i])
    BY <1>5, <1>6, <1>7
  <2> QED
    BY <2>1, <2>2, <1>7 DEF FlagsKnown, Lfs
<1>8. ASSUME i # 0, a.lf \notin DOMAIN mParsed, NEW e \in {One, Empty},
             IF e = One THEN a.option /\ ~w.eq ELSE ~a.option /\ w.eq
      PROVE  Fits(w, <<Emplace(mParsed, {a.lf}, e), NoLf, "words">>)
  <2> DEFINE m == Emplace(mParsed, {a.lf}, e)
  <2>1. /\ MapOK(m) /\ DOMAIN m = DOMAIN mParsed \cup {a.lf} /\ m[a.lf] = e
        /\ \A x \in DOMAIN mParsed : m[x] = mParsed[x]
    <3>1. e \in Results
      BY DEF Results
    <3> HIDE DEF a
    <3> QED
      BY <3>1, <1>2, <1>8, EmplaceOne
  <2> HIDE DEF m
  <2>2. Keeps(m)
    BY <2>1 DEF Keeps
  <2>3. ASSUME NEW k \in DOMAIN Cmd.args PROVE Effect(w, Cmd.args[k], m, NoLf)
    <3>1. CASE k = i
      <4>1. HasFlag(w, a) /\ a.lf \notin DOMAIN mParsed /\ a.lf # NoLf
        BY <3>1, <1>6, <1>8
      <4>2. /\ a.lf \in DOMAIN m
            /\ (a.option /\ m[a.lf] = One) \/ (~a.option /\ w.eq /\ m[a.lf] = Empty)
        BY <2>1, <1>8
      <4> QED
        BY <3>1, <4>1, <4>2 DEF Effect
    <3>2. CASE k # i
      <4>1. ~HasFlag(w, Cmd.args[k]) /\ Cmd.args[k].lf # a.lf /\ Cmd.args[k].lf # NoLf
        BY <3>2, <1>6, <1>8
      <4> QED
        BY <4>1, <2>1 DEF Effect
    <3> QED
      BY <3>1, <3>2
  <2>4. Adds(w, m, NoLf)
    BY <2>1, <2>3, <1>7, <1>8 DEF Adds
  <2>5. ~Takes(w)
    BY <1>5, <1>8 DEF Takes
  <2> QED
    <3>1. Fitting(w, m, NoLf, "words")
      BY <2>1, <2>2, <2>4, <2>5 DEF Fitting
    <3> QED
      BY <3>1, PartsFit DEF m
<1>9. ASSUME i # 0, ~a.option, ~w.eq, a.lf \notin DOMAIN mParsed
      PROVE  Fits(w, <<mParsed, a.lf, "words">>)
  <2>1. ASSUME NEW k \in DOMAIN Cmd.args PROVE Effect(w, Cmd.args[k], mParsed, a.lf)
    BY <1>6, <1>9 DEF Effect
  <2>2. Keeps(mParsed) /\ Adds(w, mParsed, a.lf)
    BY <2>1, <1>7, <1>9 DEF Keeps, Adds
  <2>3. Taker(w, a.lf)
    BY <1>5, <1>9 DEF Taker
  <2> QED
    <3>1. Fitting(w, mParsed, a.lf, "words")
      BY <2>2, <2>3, <1>2, <1>5, <1>9 DEF Fitting
    <3> QED
      BY <3>1, PartsFit
<1>10. One # Empty
  BY ResultsDiffer
<1> HIDE DEF a
<1>11. ASSUME i # 0, a.lf \notin DOMAIN mParsed, a.option, ~w.eq
       PROVE  Fits(w, <<Emplace(mParsed, {a.lf}, One), NoLf, "words">>)
  BY <1>8, <1>11
<1>12. ASSUME i # 0, a.lf \notin DOMAIN mParsed, ~a.option, w.eq
       PROVE  Fits(w, <<Emplace(mParsed, {a.lf}, Empty), NoLf, "words">>)
  BY <1>8, <1>10, <1>12
<1> QED
  BY <1>3, <1>4, <1>9, <1>11, <1>12

\* A cluster of short flags: options, and a last flag that may take a value.
LEMMA ShortFits ==
    ASSUME ArgsTypeOK, CommandsOK, Chosen, NEW w \in CmdWords, w.kind = "short"
    PROVE  Fits(w, ShortFlags(w))
<1> DEFINE at(k) == Find(Cmd.args, NoLf, w.sfs[k])
           flag(k) == Cmd.args[at(k)]
           ends == {k \in DOMAIN w.sfs : at(k) = 0 \/ flag(k).sf = "h" \/ ~flag(k).option \/ w.eq}
           n == First(ends)
           before == {k \in DOMAIN w.sfs : n = 0 \/ k < n}
           lfs == {flag(k).lf : k \in before}
           m == Emplace(mParsed, lfs, One)
           last == Len(w.sfs)
<1>1. Cmd.args \in Seq(AllFlags) /\ CommandArgs(Cmd.args)
  BY CmdIs
<1>2. MapOK(mParsed)
  BY DEF ArgsTypeOK, MapOK, Results
<1>3. DOMAIN w.sfs = 1 .. last /\ last \in Nat /\ last \in DOMAIN w.sfs
  BY ArgsAssumption
<1>4. ShortFlags(w) =
        IF n = 0 THEN <<m, NoLf, "words">>
        ELSE IF at(n) = 0 THEN Failure(m)
        ELSE IF flag(n).sf = "h" THEN <<m, NoLf, "help">>
        ELSE IF flag(n).option \/ n < last THEN Failure(m)
        ELSE IF w.eq THEN <<Emplace(m, {flag(n).lf}, Empty), NoLf, "words">>
        ELSE <<m, flag(n).lf, "words">>
  BY DEF ShortFlags
<1>5. /\ n = 0 => ends = {}
      /\ n # 0 => n \in ends /\ n \in DOMAIN w.sfs /\ \A j \in ends : n <= j
  <2>1. ends \in SUBSET Nat /\ 0 \notin ends
    BY <1>3
  <2> HIDE DEF ends
  <2>2. /\ n = 0 <=> ends = {}
        /\ n # 0 => n \in ends /\ \A j \in ends : n <= j
    BY <2>1, FirstIs
  <2> QED
    BY <2>2 DEF ends
<1>6. ASSUME NEW k \in DOMAIN w.sfs, at(k) # 0
      PROVE  /\ at(k) \in DOMAIN Cmd.args /\ flag(k) \in AllFlags
             /\ flag(k).lf # NoLf
             /\ flag(k).sf = w.sfs[k] /\ flag(k).sf # NoSf
  <2>1. at(k) \in DOMAIN Cmd.args /\ Checks(flag(k), NoLf, w.sfs[k])
    BY <1>1, <1>6, FindIs
  <2>2. flag(k) \in AllFlags
    BY <2>1, <1>1
  <2>3. flag(k).lf # NoLf
    BY <2>2, FlagIs
  <2> QED
    BY <2>1, <2>2, <2>3 DEF Checks
<1>7. ASSUME NEW k \in before PROVE k \in DOMAIN w.sfs /\ at(k) # 0 /\ flag(k).option /\ ~w.eq
  <2>1. k \in DOMAIN w.sfs /\ k \in Nat /\ n \in Nat
    <3>1. k \in DOMAIN w.sfs
      OBVIOUS
    <3> HIDE DEF n, before, ends, last
    <3> QED
      BY <3>1, <1>3, <1>5
  <2>2. k \notin ends
    <3>1. CASE n = 0
      BY <3>1, <1>5
    <3>2. CASE n # 0
      <4>1. k < n
        BY <3>2
      <4>2. \A j \in ends : n <= j
        BY <3>2, <1>5
      <4> HIDE DEF ends, n, before
      <4> QED
        BY <4>1, <4>2, <2>1
    <3> QED
      BY <3>1, <3>2
  <2> QED
    BY <2>1, <2>2
<1>9. /\ MapOK(m) /\ DOMAIN m = DOMAIN mParsed \cup lfs
      /\ \A x \in DOMAIN mParsed : m[x] = mParsed[x]
      /\ \A x \in lfs : x \notin DOMAIN mParsed => m[x] = One
  <2> HIDE DEF lfs
  <2> QED
    BY <1>2, EmplaceIs DEF Results
<1>10. ASSUME NEW x \in lfs
       PROVE  \E k \in DOMAIN Cmd.args : Cmd.args[k].lf = x /\ Cmd.args[k].option
  <2>1. PICK k \in before : x = flag(k).lf
    OBVIOUS
  <2> HIDE DEF before
  <2>2. flag(k).option /\ at(k) \in DOMAIN Cmd.args
    BY <1>6, <1>7
  <2> QED
    BY <2>1, <2>2
<1>11. Keeps(m)
  <2> HIDE DEF lfs, m
  <2> QED
    BY <1>9 DEF Keeps
<1>12. ASSUME at(last) # 0, NEW k \in DOMAIN Cmd.args, ArgNames(w, Cmd.args[k])
       PROVE  k = at(last)
  <2>1. Cmd.args[k].sf = w.sfs[last] /\ Cmd.args[k].sf # NoSf
    BY <1>12 DEF ArgNames
  <2>2. Cmd.args[k].sf = flag(last).sf /\ at(last) \in DOMAIN Cmd.args
    BY <2>1, <1>3, <1>6, <1>12
  <2> HIDE DEF at
  <2> QED
    BY <2>1, <2>2, <1>1, NotConfused
<1>13. ASSUME at(last) # 0 PROVE ArgNames(w, flag(last))
  BY <1>13, <1>3, <1>6 DEF ArgNames
<1>14. Fits(w, Failure(m)) /\ Fits(w, <<m, NoLf, "help">>)
  <2> HIDE DEF m
  <2> QED
    BY <1>9, FailureFits
<1>15. ASSUME n = 0 PROVE before = DOMAIN w.sfs /\ last \in before
  BY <1>3, <1>15
<1>16. ASSUME n # 0, at(n) # 0, ~(flag(n).option \/ n < last)
       PROVE  /\ n = last /\ at(last) # 0 /\ ~flag(last).option
              /\ \A j \in DOMAIN w.sfs : j # last => j \in before
  <2>1. n \in 1 .. last /\ last \in Nat /\ ~(n < last)
    BY <1>3, <1>5, <1>16
  <2>2. n = last
    <3> HIDE DEF n, last
    <3> QED
      BY <2>1
  <2>3. \A j \in DOMAIN w.sfs : j # last => j < last
    <3> HIDE DEF n, last
    <3> QED
      BY <1>3
  <2> QED
    BY <2>2, <2>3, <1>16
<1>17. ASSUME \A j \in DOMAIN w.sfs : j \in before \/ at(j) # 0
       PROVE  /\ \A k \in DOMAIN Cmd.args :
                    HasFlag(w, Cmd.args[k]) <=> \E j \in DOMAIN w.sfs : at(j) = k
              /\ \A j \in DOMAIN w.sfs, k \in DOMAIN Cmd.args : flag(j).lf = Cmd.args[k].lf => at(j) = k
              /\ \A j \in DOMAIN w.sfs : at(j) \in DOMAIN Cmd.args /\ flag(j).sf = w.sfs[j]
  <2>1. \A j \in DOMAIN w.sfs : at(j) # 0
    BY <1>7, <1>17
  <2>2. ASSUME NEW j \in DOMAIN w.sfs
        PROVE  /\ at(j) \in DOMAIN Cmd.args /\ flag(j).sf = w.sfs[j] /\ flag(j).sf # NoSf
    BY <2>1, <1>6
  <2> HIDE DEF at, before
  <2>3. ASSUME NEW j \in DOMAIN w.sfs, NEW k \in DOMAIN Cmd.args,
               flag(j).lf = Cmd.args[k].lf \/ Cmd.args[k].sf = w.sfs[j]
        PROVE  at(j) = k
    BY <2>2, <2>3, <1>1, NotConfused
  <2>4. ASSUME NEW k \in DOMAIN Cmd.args
        PROVE  HasFlag(w, Cmd.args[k]) <=> \E j \in DOMAIN w.sfs : at(j) = k
    BY <2>2, <2>3 DEF HasFlag
  <2> QED
    BY <2>2, <2>3, <2>4
<1>18. ASSUME \A j \in DOMAIN w.sfs : j \in before \/ at(j) # 0,
              \A j \in DOMAIN w.sfs : j \in before \/ (j = last /\ ~flag(j).option)
       PROVE  FlagsKnown(w)
  <2>1. \A j \in DOMAIN w.sfs : \E k \in DOMAIN Cmd.args : Cmd.args[k].sf = w.sfs[j]
    BY <1>17, <1>18
  <2>2. ASSUME NEW k \in DOMAIN Cmd.args, HasFlag(w, Cmd.args[k])
        PROVE  IF Cmd.args[k].option THEN ~w.eq ELSE ArgNames(w, Cmd.args[k])
    <3>1. PICK j \in DOMAIN w.sfs : at(j) = k
      BY <2>2, <1>17, <1>18
    <3>2. CASE j \in before
      BY <3>1, <3>2, <1>7
    <3>3. CASE j = last /\ ~flag(j).option
      <4>1. at(last) # 0
        <5>1. at(last) = k /\ k # 0
          BY <3>1, <3>3, <1>1
        <5> QED
          BY <5>1
      <4>2. ArgNames(w, flag(last)) /\ at(last) = k
        BY <3>1, <3>3, <4>1, <1>13
      <4> HIDE DEF at, last
      <4> QED
        BY <3>1, <3>3, <4>2
    <3> QED
      BY <3>2, <3>3, <1>18
  <2> QED
    BY <2>1, <2>2 DEF FlagsKnown
<1>19. ASSUME n = 0 PROVE Fits(w, <<m, NoLf, "words">>)
  <2>1. \A j \in DOMAIN w.sfs : j \in before
    BY <1>15, <1>19
  <2>2. at(last) # 0 /\ flag(last).option
    BY <1>7, <1>15, <1>19
  <2>3. ~Takes(w)
    BY <2>2, <1>12 DEF Takes
  <2>4. FlagsKnown(w)
    BY <2>1, <1>18
  <2>5. ASSUME NEW k \in DOMAIN Cmd.args
        PROVE  /\ HasFlag(w, Cmd.args[k]) <=> Cmd.args[k].lf \in lfs
               /\ Cmd.args[k].lf \in lfs => Cmd.args[k].option
               /\ Cmd.args[k].lf # NoLf
    <3>1. \A j \in DOMAIN w.sfs : at(j) = k <=> flag(j).lf = Cmd.args[k].lf
      BY <2>1, <1>17
    <3>2. Cmd.args[k].lf # NoLf
      BY <1>1, FlagIs
    <3>3. HasFlag(w, Cmd.args[k]) <=> \E j \in before : at(j) = k
      BY <2>1, <1>17
    <3>4. \A j \in before : flag(j).option /\ j \in DOMAIN w.sfs
      BY <1>7
    <3> HIDE DEF at, before
    <3>5. Cmd.args[k].lf \in lfs <=> \E j \in before : flag(j).lf = Cmd.args[k].lf
      OBVIOUS
    <3> HIDE DEF lfs
    <3> QED
      BY <3>1, <3>2, <3>3, <3>4, <3>5
  <2> HIDE DEF m, lfs
  <2>6. ASSUME NEW k \in DOMAIN Cmd.args PROVE Effect(w, Cmd.args[k], m, NoLf)
    BY <2>5, <1>9 DEF Effect
  <2>7. DOMAIN m \subseteq DOMAIN mParsed \cup Lfs
    BY <1>9, <1>10 DEF Lfs
  <2>8. Fitting(w, m, NoLf, "words")
    BY <2>3, <2>4, <2>6, <2>7, <1>9, <1>11 DEF Fitting, Adds
  <2> QED
    BY <2>8, PartsFit
<1>20. ASSUME n # 0, at(n) # 0, ~(flag(n).option \/ n < last)
       PROVE  /\ at(last) \in DOMAIN Cmd.args /\ FlagsKnown(w) /\ flag(last).lf \notin lfs
              /\ \A k \in DOMAIN Cmd.args :
                    /\ HasFlag(w, Cmd.args[k]) <=> Cmd.args[k].lf \in lfs \/ k = at(last)
                    /\ Cmd.args[k].lf \in lfs => Cmd.args[k].option
                    /\ Cmd.args[k].lf = flag(last).lf <=> k = at(last)
                    /\ Cmd.args[k].lf # NoLf
  <2>1. /\ at(last) # 0 /\ ~flag(last).option /\ last \in DOMAIN w.sfs
        /\ \A j \in DOMAIN w.sfs : j \in before \/ j = last
    BY <1>3, <1>16, <1>20
  <2>2. \A j \in DOMAIN w.sfs : j \in before \/ at(j) # 0
    BY <2>1
  <2>3. FlagsKnown(w)
    BY <2>1, <2>2, <1>18
  <2>4. /\ \A k \in DOMAIN Cmd.args :
              HasFlag(w, Cmd.args[k]) <=> \E j \in DOMAIN w.sfs : at(j) = k
        /\ \A j \in DOMAIN w.sfs, k \in DOMAIN Cmd.args : flag(j).lf = Cmd.args[k].lf => at(j) = k
        /\ \A j \in DOMAIN w.sfs : at(j) \in DOMAIN Cmd.args
    BY <2>2, <1>17
  <2>5. \A j \in before : flag(j).option /\ j \in DOMAIN w.sfs
    BY <1>7
  <2>6. \A k \in DOMAIN Cmd.args : Cmd.args[k].lf # NoLf
    BY <1>1, FlagIs
  <2> HIDE DEF at, before, last
  <2>7. ASSUME NEW k \in DOMAIN Cmd.args
        PROVE  Cmd.args[k].lf \in lfs <=> \E j \in before : at(j) = k
    <3>1. Cmd.args[k].lf \in lfs <=> \E j \in before : flag(j).lf = Cmd.args[k].lf
      OBVIOUS
    <3> HIDE DEF lfs
    <3> QED
      BY <3>1, <2>4, <2>5
  <2> HIDE DEF lfs
  <2>8. ASSUME NEW k \in DOMAIN Cmd.args
        PROVE  /\ HasFlag(w, Cmd.args[k]) <=> Cmd.args[k].lf \in lfs \/ k = at(last)
               /\ Cmd.args[k].lf \in lfs => Cmd.args[k].option
               /\ Cmd.args[k].lf = flag(last).lf <=> k = at(last)
    BY <2>1, <2>4, <2>5, <2>7
  <2>9. flag(last).lf \notin lfs
    BY <2>1, <2>4, <2>8
  <2> QED
    BY <2>1, <2>3, <2>4, <2>6, <2>8, <2>9
<1>21. ASSUME n # 0, at(n) # 0, ~(flag(n).option \/ n < last), w.eq
       PROVE  Fits(w, <<Emplace(m, {flag(n).lf}, Empty), NoLf, "words">>)
  <2> DEFINE f == flag(last)
             e == Emplace(m, {f.lf}, Empty)
  <2>1. n = last /\ at(last) # 0 /\ ~f.option
    BY <1>16, <1>21
  <2>2. /\ at(last) \in DOMAIN Cmd.args /\ FlagsKnown(w) /\ f.lf \notin lfs
        /\ \A k \in DOMAIN Cmd.args :
              /\ HasFlag(w, Cmd.args[k]) <=> Cmd.args[k].lf \in lfs \/ k = at(last)
              /\ Cmd.args[k].lf \in lfs => Cmd.args[k].option
              /\ Cmd.args[k].lf = f.lf <=> k = at(last)
              /\ Cmd.args[k].lf # NoLf
    BY <1>20, <1>21
  <2>3. /\ MapOK(e) /\ DOMAIN e = DOMAIN m \cup {f.lf}
        /\ \A x \in DOMAIN m : e[x] = m[x]
        /\ f.lf \notin DOMAIN m => e[f.lf] = Empty
    <3> HIDE DEF m, f
    <3> QED
      <4>1. Empty \in Results
        BY DEF Results
      <4> QED
        BY <4>1, <1>9, EmplaceOne
  <2>4. Keeps(e)
    <3> HIDE DEF m, e
    <3> QED
      BY <2>3, <1>11 DEF Keeps
  <2>5. f.lf \in Lfs
    BY <2>2 DEF Lfs
  <2> HIDE DEF m, e, lfs, at, last
  <2>6. ASSUME NEW k \in DOMAIN Cmd.args PROVE Effect(w, Cmd.args[k], e, NoLf)
    <3> HIDE DEF f
    <3>1. CASE k = at(last)
      <4>1. Cmd.args[k].lf = f.lf /\ HasFlag(w, Cmd.args[k]) /\ f.lf # NoLf /\ f = Cmd.args[k]
        BY <2>2, <3>1 DEF f
      <4> QED
        BY <4>1, <2>1, <2>2, <2>3, <1>9, <1>21 DEF Effect
    <3>2. CASE k # at(last)
      BY <3>2, <2>2, <2>3, <1>9 DEF Effect
    <3> QED
      BY <3>1, <3>2
  <2>7. DOMAIN e \subseteq DOMAIN mParsed \cup Lfs
    BY <2>3, <2>5, <1>9, <1>10 DEF Lfs
  <2>8. ~Takes(w)
    BY <1>21 DEF Takes
  <2>9. Fitting(w, e, NoLf, "words")
    BY <2>2, <2>3, <2>4, <2>6, <2>7, <2>8 DEF Fitting, Adds
  <2> QED
    BY <2>1, <2>9, PartsFit DEF e
<1>22. ASSUME n # 0, at(n) # 0, ~(flag(n).option \/ n < last), ~w.eq
       PROVE  Fits(w, <<m, flag(n).lf, "words">>)
  <2> DEFINE f == flag(last)
  <2>1. n = last /\ at(last) # 0 /\ ~f.option
    BY <1>16, <1>22
  <2>2. /\ at(last) \in DOMAIN Cmd.args /\ FlagsKnown(w) /\ f.lf \notin lfs
        /\ \A k \in DOMAIN Cmd.args :
              /\ HasFlag(w, Cmd.args[k]) <=> Cmd.args[k].lf \in lfs \/ k = at(last)
              /\ Cmd.args[k].lf \in lfs => Cmd.args[k].option
              /\ Cmd.args[k].lf = f.lf <=> k = at(last)
              /\ Cmd.args[k].lf # NoLf
    BY <1>20, <1>22
  <2>3. Taker(w, f.lf) /\ f.lf # NoLf
    BY <2>1, <2>2, <1>13, <1>22 DEF Taker
  <2> HIDE DEF m, lfs, at, last
  <2>4. ASSUME NEW k \in DOMAIN Cmd.args PROVE Effect(w, Cmd.args[k], m, f.lf)
    <3> HIDE DEF f
    <3>1. CASE k = at(last)
      <4>1. Cmd.args[k].lf = f.lf /\ HasFlag(w, Cmd.args[k])
        BY <2>2, <3>1
      <4> QED
        BY <4>1, <2>2, <1>9 DEF Effect
    <3>2. CASE k # at(last)
      BY <3>2, <2>2, <1>9 DEF Effect
    <3> QED
      BY <3>1, <3>2
  <2>5. DOMAIN m \subseteq DOMAIN mParsed \cup Lfs
    BY <1>9, <1>10 DEF Lfs
  <2>6. Fitting(w, m, f.lf, "words")
    <3> HIDE DEF f
    <3> QED
      BY <2>2, <2>3, <2>4, <2>5, <1>9, <1>11 DEF Fitting, Adds
  <2> QED
    BY <2>1, <2>6, PartsFit
<1> HIDE DEF m, n, at, flag
<1> QED
  BY <1>4, <1>14, <1>19, <1>21, <1>22

\* More words were read: the ones before are the same, and which of them are values.
Longer(v, u) ==
    /\ Len(argv) \in Nat /\ Len(argv') \in Nat /\ Len(argv) <= Len(argv')
    /\ \A i \in 1 .. Len(argv) : argv'[i] = argv[i] /\ u[i] = v[i]

\* What a flag says of an argument that keeps its value stays so.
LEMMA SaysStays ==
    ASSUME NEW a, NEW v, NEW u, Longer(v, u), NEW i \in 1 .. Len(argv), Says(a, i, v),
           a.lf \in DOMAIN mParsed', mParsed'[a.lf] = mParsed[a.lf]
    PROVE  Says(a, i, u)'
<1>1. argv'[i] = argv[i]
  BY DEF Longer
<1>2. ASSUME i < Len(argv)
      PROVE  i < Len(argv') /\ argv'[i + 1] = argv[i + 1] /\ u[i + 1] = v[i + 1]
  BY <1>2 DEF Longer
<1> QED
  BY <1>1, <1>2 DEF Says

\* The flags of an argument when one more word was read: that word is one of them if
\* it is no value and names the argument.
LEMMA FlagsGrow ==
    ASSUME NEW a, NEW v, NEW u, Longer(v, u), Len(argv) >= 1, Len(argv') = Len(argv) + 1
    PROVE  /\ FlagsOf(a, v) \subseteq 2 .. Len(argv)
           /\ FlagsOf(a, u)' = IF ~u[Len(argv')] /\ HasFlag(argv'[Len(argv')], a)
                               THEN FlagsOf(a, v) \cup {Len(argv')} ELSE FlagsOf(a, v)
<1> DEFINE n == Len(argv)
<1>1. n \in Nat /\ n >= 1 /\ Len(argv') = n + 1
  BY DEF Longer
<1>2. \A i \in 2 .. n : argv'[i] = argv[i] /\ u[i] = v[i]
  BY DEF Longer
<1>3. FlagsOf(a, v) = {i \in 2 .. n : ~v[i] /\ HasFlag(argv[i], a)}
  BY DEF FlagsOf
<1>4. FlagsOf(a, u)' = {i \in 2 .. n + 1 : ~u[i] /\ HasFlag(argv'[i], a)}
  BY <1>1 DEF FlagsOf, HasFlag
<1> HIDE DEF n
<1>5. 2 .. n + 1 = (2 .. n) \cup {n + 1} /\ n + 1 \notin 2 .. n
  BY <1>1
<1> QED
  BY <1>1, <1>2, <1>3, <1>4, <1>5 DEF n

\* An argument with flags has a first one.
LEMMA HasFirst ==
    ASSUME NEW is \in SUBSET Nat, is # {}
    PROVE  \E i \in is : IsFirst(i, is)
  BY LeastExists DEF IsFirst

\* An argument that the last word, a value, is for, or that it is not for.
LEMMA ValueReads ==
    ASSUME NEW a, NEW v, NEW u, Longer(v, u), Len(argv) >= 1, Len(argv') = Len(argv) + 1,
           u[Len(argv')], ArgRead(a, v), a.lf # NoLf, want' = NoLf,
           want = a.lf => /\ Len(argv) \in FlagsOf(a, v) /\ ~a.option /\ ~argv[Len(argv)].eq
                          /\ a.lf \in DOMAIN mParsed'
                          /\ a.lf \notin DOMAIN mParsed => mParsed'[a.lf] = argv'[Len(argv')],
           want # a.lf => (a.lf \in DOMAIN mParsed' => a.lf \in DOMAIN mParsed),
           Keeps(mParsed')
    PROVE  ArgRead(a, u)'
<1> DEFINE n == Len(argv)
           F == FlagsOf(a, v)
<1>1. FlagsOf(a, u)' = F /\ F \subseteq 2 .. n
  BY FlagsGrow
<1>2. n \in Nat /\ n >= 1 /\ Len(argv') = n + 1 /\ \A i \in 2 .. n : i \in 1 .. n /\ argv'[i] = argv[i]
  BY DEF Longer
<1>3. /\ F = {} => a.lf \notin DOMAIN mParsed
      /\ \A i \in F : IsFirst(i, F) =>
            IF want = a.lf /\ i = n THEN a.lf \notin DOMAIN mParsed ELSE Says(a, i, v)
      /\ \A i, j \in F : i < j => argv[j].kind = "short"
  BY DEF ArgRead
<1>4. F = {} => a.lf \notin DOMAIN mParsed'
  BY <1>3
<1>5. ASSUME NEW i \in F, IsFirst(i, F) PROVE Says(a, i, u)'
  <2>1. i \in 1 .. n
    BY <1>1, <1>2
  <2>2. CASE want = a.lf /\ i = n
    <3>1. a.lf \in DOMAIN mParsed' /\ mParsed'[a.lf] = argv'[i + 1] /\ ~a.option /\ ~argv[i].eq
      BY <2>2, <1>2, <1>3, <1>5
    <3>2. argv'[i] = argv[i] /\ i < Len(argv') /\ u[i + 1]
      BY <2>1, <2>2, <1>1, <1>2
    <3> QED
      BY <3>1, <3>2 DEF Says
  <2>3. CASE ~(want = a.lf /\ i = n)
    <3>1. Says(a, i, v)
      BY <2>3, <1>3, <1>5
    <3>2. a.lf \in DOMAIN mParsed' /\ mParsed'[a.lf] = mParsed[a.lf]
      BY <3>1 DEF Says, Keeps
    <3> HIDE DEF n, F
    <3> QED
      BY <3>1, <3>2, <2>1, SaysStays DEF n
  <2> QED
    BY <2>2, <2>3
<1>6. \A i, j \in F : i < j => argv'[j].kind = "short"
  BY <1>1, <1>2, <1>3
<1> HIDE DEF n, F
<1> QED
  BY <1>1, <1>4, <1>5, <1>6 DEF ArgRead, IsFirst

\* What a word that is no value does to an argument.
LEMMA FlagReads ==
    ASSUME NEW a, NEW v, NEW u, Longer(v, u), Len(argv) >= 1, Len(argv') = Len(argv) + 1,
           ~u[Len(argv')], ArgRead(a, v), a.lf # NoLf, want = NoLf, Keeps(mParsed'),
           Effect(argv'[Len(argv')], a, mParsed', want')
    PROVE  ArgRead(a, u)'
<1> DEFINE n == Len(argv)
           F == FlagsOf(a, v)
           w == argv'[n + 1]
<1>1. FlagsOf(a, u)' = (IF HasFlag(w, a) THEN F \cup {n + 1} ELSE F) /\ F \subseteq 2 .. n
  BY FlagsGrow
<1>2. n \in Nat /\ n >= 1 /\ Len(argv') = n + 1 /\ \A i \in 2 .. n : i \in 1 .. n /\ argv'[i] = argv[i]
  BY DEF Longer
<1>3. /\ F = {} => a.lf \notin DOMAIN mParsed
      /\ \A i \in F : IsFirst(i, F) => Says(a, i, v)
      /\ \A i, j \in F : i < j => argv[j].kind = "short"
  BY DEF ArgRead
<1>4. ASSUME NEW i \in F, IsFirst(i, F) PROVE Says(a, i, u)' /\ i # n + 1 /\ a.lf \in DOMAIN mParsed
  <2>1. i \in 1 .. n /\ i # n + 1
    BY <1>1, <1>2
  <2>2. Says(a, i, v)
    BY <1>3, <1>4
  <2>3. a.lf \in DOMAIN mParsed /\ a.lf \in DOMAIN mParsed' /\ mParsed'[a.lf] = mParsed[a.lf]
    BY <2>2 DEF Says, Keeps
  <2> HIDE DEF n, F
  <2> QED
    BY <2>1, <2>2, <2>3, SaysStays DEF n
<1>5. \A i, j \in F : i < j => argv'[j].kind = "short"
  BY <1>1, <1>2, <1>3
<1>6. Effect(w, a, mParsed', want')
  BY <1>2
<1>7. CASE ~HasFlag(w, a)
  <2>1. want' # a.lf /\ (a.lf \in DOMAIN mParsed' => a.lf \in DOMAIN mParsed)
    BY <1>6, <1>7 DEF Effect
  <2>2. FlagsOf(a, u)' = F
    BY <1>1, <1>7
  <2> HIDE DEF n, F, w
  <2> QED
    BY <2>1, <2>2, <1>3, <1>4, <1>5 DEF ArgRead, IsFirst
<1>8. CASE HasFlag(w, a) /\ F # {}
  <2> DEFINE G == F \cup {n + 1}
  <2>1. FlagsOf(a, u)' = G
    BY <1>1, <1>8
  <2>2. PICK i \in F : IsFirst(i, F)
    <3>1. F \in SUBSET Nat
      BY <1>1
    <3> HIDE DEF F
    <3> QED
      BY <3>1, <1>8, HasFirst
  <2>3. w.kind = "short"
    BY <2>2, <1>4, <1>6, <1>8 DEF Effect
  <2>4. ASSUME NEW j \in G, IsFirst(j, G) PROVE Says(a, j, u)' /\ j # n + 1
    <3>1. j \in F
      <4>1. j <= i /\ i \in 2 .. n /\ (j \in F \/ j = n + 1)
        BY <2>2, <2>4, <1>1 DEF IsFirst
      <4> HIDE DEF F, n
      <4> QED
        BY <4>1, <1>2
    <3>2. IsFirst(j, F)
      BY <2>4, <3>1 DEF IsFirst
    <3> QED
      BY <3>1, <3>2, <1>4
  <2>5. ASSUME NEW j \in G, NEW k \in G, j < k PROVE argv'[k].kind = "short"
    <3>1. CASE k = n + 1
      BY <3>1, <2>3
    <3>2. CASE k # n + 1
      <4>1. k \in F /\ k \in 2 .. n
        BY <3>2, <1>1
      <4>2. j \in F
        <5>1. j # n + 1
          <6> HIDE DEF n, F
          <6> QED
            BY <4>1, <2>5, <1>2
        <5> QED
          BY <5>1
      <4> QED
        BY <4>1, <4>2, <2>5, <1>5
    <3> QED
      BY <3>1, <3>2
  <2>6. G # {} /\ Len(argv') = n + 1
    BY <1>2
  <2> HIDE DEF n, F, w, G
  <2> QED
    BY <2>1, <2>4, <2>5, <2>6 DEF ArgRead, IsFirst
<1>9. CASE HasFlag(w, a) /\ F = {}
  <2>1. FlagsOf(a, u)' = {n + 1}
    BY <1>1, <1>9
  <2>2. \/ want' = a.lf /\ a.lf \notin DOMAIN mParsed'
        \/ /\ want' # a.lf /\ a.lf \in DOMAIN mParsed'
           /\ (a.option /\ mParsed'[a.lf] = One) \/ (~a.option /\ w.eq /\ mParsed'[a.lf] = Empty)
    BY <1>3, <1>6, <1>9 DEF Effect
  <2>3. PICK c \in Nat : c = n + 1
    BY <1>2
  <2>4. argv'[c] = w /\ Len(argv') = c
    BY <2>3, <1>2
  <2>5. want' # a.lf => Says(a, c, u)'
    BY <2>2, <2>4 DEF Says
  <2> HIDE DEF n, F, w
  <2>6. /\ {c} # {}
        /\ \A i \in {c} : IF want' = a.lf /\ i = Len(argv') THEN a.lf \notin DOMAIN mParsed'
                         ELSE Says(a, i, u)'
    BY <2>2, <2>4, <2>5
  <2>7. \A i, j \in {c} : ~(i < j)
    OBVIOUS
  <2>8. FlagsOf(a, u)' = {c}
    BY <2>1, <2>3
  <2> QED
    BY <2>6, <2>7, <2>8 DEF ArgRead, IsFirst
<1> HIDE DEF n, F, w
<1> QED
  BY <1>7, <1>8, <1>9

\* What one turn of the loop makes of a word when no value is wanted.
LEMMA TurnFits ==
    ASSUME ArgsTypeOK, CommandsOK, Chosen, NEW w \in CmdWords
    PROVE  Fits(w, CASE w.kind = "pos" -> <<mParsed, NoLf, "words">>
                     [] w.kind = "long" -> LongFlag(w)
                     [] w.kind = "short" -> ShortFlags(w)
                     [] OTHER -> Failure(mParsed))
<1>1. MapOK(mParsed)
  BY DEF ArgsTypeOK, MapOK
<1>2. CASE w.kind = "pos"
  <2>1. \A k \in DOMAIN Cmd.args : ~HasFlag(w, Cmd.args[k]) /\ Cmd.args[k].lf # NoLf
    <3>1. Cmd.args \in Seq(AllFlags)
      BY CmdIs
    <3> QED
      BY <3>1, <1>2, FlagIs DEF HasFlag
  <2>2. ~Takes(w) /\ Keeps(mParsed) /\ Adds(w, mParsed, NoLf)
    BY <2>1, <1>2 DEF Takes, ArgNames, Keeps, Adds, Effect, FlagsKnown
  <2>3. Fitting(w, mParsed, NoLf, "words")
    BY <2>2, <1>1 DEF Fitting
  <2> QED
    BY <1>2, <2>3, PartsFit
<1>3. CASE w.kind = "long"
  BY <1>3, LongFits
<1>4. CASE w.kind = "short"
  BY <1>4, ShortFits
<1>5. CASE w.kind \notin {"pos", "long", "short"}
  <2>1. Fits(w, Failure(mParsed))
    BY <1>1, FailureFits
  <2> QED
    BY <1>5, <2>1
<1> QED
  BY <1>2, <1>3, <1>4, <1>5

\* The loop of Command::parse(), one word.
LEMMA ReadKeeps ==
    ASSUME ArgsInv, NEW w \in CmdWords, ReadWord(w)
    PROVE  ArgsInv'
<1> DEFINE n == Len(argv)
<1>1. /\ ArgsTypeOK /\ CommandsOK /\ Chosen /\ outcome = "words"
      /\ \E v \in Marks : WordsInv(v) /\ WantInv(v)
  BY DEF ArgsInv, ReadWord
<1>2. /\ n \in Nat /\ n >= 1 /\ DOMAIN argv = 1 .. n /\ argv' \in Seq(CmdWords)
      /\ Len(argv') = n + 1 /\ DOMAIN argv' = 1 .. n + 1
      /\ \A i \in 1 .. n : argv'[i] = argv[i]
      /\ argv'[n + 1] = w
  BY <1>1 DEF ReadWord, ArgsTypeOK, Chosen
<1>3. mCommands' = mCommands /\ adding' = adding /\ mGlobals' = mGlobals /\ copied' = copied
  BY DEF ReadWord
<1> HIDE DEF n
<1>4. argv'[1] = argv[1] /\ argv' # <<>>
  BY <1>2
<1>5. Cmd' = Cmd
  BY <1>3, <1>4 DEF Cmd
<1>6. Chosen' /\ CommandsOK'
  BY <1>1, <1>3, <1>4 DEF Chosen, CommandsOK
<1>7. ASSUME NEW i PROVE Takes(argv[i])' <=> Takes(argv'[i])
  BY <1>5 DEF Takes, ArgNames
<1>8. ASSUME NEW i PROVE FlagsKnown(argv[i])' <=> FlagsKnown(argv'[i])
  BY <1>5 DEF FlagsKnown, HasFlag, ArgNames
<1>9. Lfs' = Lfs /\ Cmd.args \in Seq(AllFlags) /\ CommandArgs(Cmd.args)
  BY <1>1, <1>5, CmdIs DEF Lfs
<1>10. ASSUME NEW k \in DOMAIN Cmd.args PROVE Cmd.args[k].lf # NoLf
  BY <1>9, FlagIs
<1>11. ASSUME NEW v, NEW u, WordsInv(v), u[n + 1] \/ FlagsKnown(w), \A i \in 1 .. n : u[i] = v[i]
       PROVE  Longer(v, u) /\ \A i \in 2 .. n + 1 : u[i] \/ FlagsKnown(argv[i])'
  <2>1. Longer(v, u)
    BY <1>2, <1>11 DEF Longer, n
  <2>2. ASSUME NEW i \in 2 .. n + 1 PROVE u[i] \/ FlagsKnown(argv'[i])
    <3>1. i = n + 1 \/ (i \in 2 .. n /\ i \in 1 .. n)
      BY <1>2
    <3>2. i \in 2 .. n => v[i] \/ FlagsKnown(argv[i])
      BY <1>11 DEF WordsInv, WordsKnown, n
    <3> QED
      BY <3>1, <3>2, <1>2, <1>11
  <2> QED
    BY <2>1, <2>2, <1>8
<1>12. CASE want # NoLf
  <2>1. /\ mParsed' = Emplace(mParsed, {want}, w) /\ want' = NoLf /\ outcome' = "words"
        /\ mPositionals' = mPositionals
    BY <1>12 DEF ReadWord
  <2>2. MapOK(mParsed) /\ w \in Results
    BY <1>1 DEF ArgsTypeOK, MapOK, Results
  <2>3. /\ MapOK(mParsed') /\ DOMAIN mParsed' = DOMAIN mParsed \cup {want}
        /\ \A x \in DOMAIN mParsed : mParsed'[x] = mParsed[x]
        /\ want \notin DOMAIN mParsed => mParsed'[want] = w
    <3> DEFINE e == Emplace(mParsed, {want}, w)
    <3>1. /\ MapOK(e) /\ DOMAIN e = DOMAIN mParsed \cup {want}
          /\ \A x \in DOMAIN mParsed : e[x] = mParsed[x]
          /\ want \notin DOMAIN mParsed => e[want] = w
      BY <2>2, EmplaceOne
    <3>2. mParsed' = e
      BY <2>1
    <3> HIDE DEF e
    <3> QED
      BY <3>1, <3>2
  <2>4. PICK v \in Marks : WordsInv(v) /\ WantInv(v)
    BY <1>1
  <2>5. PICK u \in [1 .. n + 1 -> BOOLEAN] : u[n + 1] = TRUE /\ \A i \in 1 .. n : u[i] = v[i]
    <3> DEFINE f == [i \in 1 .. n + 1 |-> IF i = n + 1 THEN TRUE ELSE v[i]]
    <3>1. f \in [1 .. n + 1 -> BOOLEAN] /\ f[n + 1] = TRUE /\ \A i \in 1 .. n : f[i] = v[i]
      <4>1. \A i \in 1 .. n : v[i] \in BOOLEAN
        BY <2>4, <1>2 DEF Marks
      <4>2. \A i \in 1 .. n + 1 : i # n + 1 => i \in 1 .. n
        BY <1>2
      <4>3. n + 1 \in 1 .. n + 1 /\ \A i \in 1 .. n : i \in 1 .. n + 1 /\ i # n + 1
        BY <1>2
      <4> QED
        BY <4>1, <4>2, <4>3
    <3> QED
      BY <3>1
  <2>6. n > 1 /\ ~v[n] /\ Taker(argv[n], want)
    BY <1>12, <2>4 DEF WantInv, n
  <2>7. Values(u)'
    <3>1. Takes(argv[n])
      BY <2>6 DEF Taker, Takes
    <3>2. ASSUME NEW i \in 1 .. n + 1
          PROVE  u[i] <=> i > 2 /\ Takes(argv[i - 1])' /\ ~u[i - 1]
      <4>1. CASE i = n + 1
        <5>1. i > 2 /\ i - 1 = n /\ argv'[n] = argv[n] /\ u[n] = v[n]
          BY <4>1, <1>2, <2>5, <2>6
        <5> QED
          BY <4>1, <5>1, <3>1, <1>7, <2>5, <2>6
      <4>2. CASE i # n + 1
        <5>1. i \in 1 .. n /\ (i > 2 => i - 1 \in 1 .. n)
          BY <4>2, <1>2
        <5>2. v[i] <=> i > 2 /\ Takes(argv[i - 1]) /\ ~v[i - 1]
          BY <5>1, <1>2, <2>4 DEF WordsInv, WordsKnown, Values
        <5>3. i > 2 => argv'[i - 1] = argv[i - 1] /\ u[i - 1] = v[i - 1]
          BY <5>1, <1>2, <2>5
        <5> QED
          BY <5>1, <5>2, <5>3, <2>5, <1>7
      <4> QED
        BY <4>1, <4>2
    <3> QED
      BY <3>2, <1>2 DEF Values
  <2>8. InOrder(u)'
    <3>1. Places(u)' = Places(v)
      <4>1. ASSUME NEW i \in 2 .. n + 1
            PROVE  argv'[i].kind = "pos" /\ ~u[i] <=> i \in 2 .. n /\ argv[i].kind = "pos" /\ ~v[i]
        <5>1. i = n + 1 \/ (i \in 2 .. n /\ i \in 1 .. n)
          BY <1>2
        <5>2. n + 1 \notin 2 .. n
          BY <1>2
        <5> QED
          BY <5>1, <5>2, <1>2, <2>5
      <4>2. 2 .. n \subseteq 2 .. n + 1
        BY <1>2
      <4> QED
        BY <4>1, <4>2, <1>2 DEF Places, n
    <3>2. \A i \in Places(v) : argv'[i].name = argv[i].name
      BY <1>2 DEF Places, n
    <3>3. InOrder(v)
      BY <2>4 DEF WordsInv, WordsKnown
    <3> QED
      BY <3>1, <3>2, <3>3, <2>1 DEF InOrder
  <2>9. ASSUME NEW k \in DOMAIN Cmd.args PROVE ArgRead(Cmd.args[k], u)'
    <3>1. PICK a : a = Cmd.args[k]
      OBVIOUS
    <3>2. Longer(v, u) /\ Len(argv) >= 1 /\ Len(argv') = Len(argv) + 1 /\ u[Len(argv')]
      BY <1>2, <1>11, <2>4, <2>5 DEF n
    <3>3. ArgRead(a, v) /\ a.lf # NoLf /\ want' = NoLf /\ Keeps(mParsed')
      BY <3>1, <1>10, <2>1, <2>3, <2>4 DEF WordsInv, Keeps
    <3>4. want # a.lf => (a.lf \in DOMAIN mParsed' => a.lf \in DOMAIN mParsed)
      BY <2>3
    <3>5. ASSUME want = a.lf
          PROVE  /\ Len(argv) \in FlagsOf(a, v) /\ ~a.option /\ ~argv[Len(argv)].eq
                 /\ a.lf \in DOMAIN mParsed'
                 /\ a.lf \notin DOMAIN mParsed => mParsed'[a.lf] = argv'[Len(argv')]
      <4>1. PICK j \in DOMAIN Cmd.args : /\ Cmd.args[j].lf = want /\ ~Cmd.args[j].option
                                         /\ ArgNames(argv[n], Cmd.args[j]) /\ ~argv[n].eq
        BY <2>6 DEF Taker
      <4>2. j = k
        BY <3>1, <3>5, <4>1, <1>9, NotConfused
      <4>3. ArgNames(argv[n], a) /\ ~a.option /\ ~argv[n].eq
        BY <3>1, <4>1, <4>2
      <4>4. HasFlag(argv[n], a)
        <5>1. argv[n] \in CmdWords
          BY <1>1, <1>2 DEF ArgsTypeOK
        <5>2. argv[n].kind = "short" => Len(argv[n].sfs) \in DOMAIN argv[n].sfs
          BY <5>1, ArgsAssumption
        <5> QED
          BY <4>3, <5>2 DEF ArgNames, HasFlag
      <4>5. n \in FlagsOf(a, v)
        <5>1. n \in 2 .. n
          BY <1>2, <2>6
        <5> QED
          BY <4>4, <5>1, <2>6 DEF FlagsOf, n
      <4> QED
        BY <4>3, <4>5, <3>5, <1>2, <2>3 DEF n
    <3>6. ArgRead(a, u)'
      BY <3>2, <3>3, <3>4, <3>5, ValueReads
    <3> QED
      BY <3>1, <3>6, <1>5
  <2>10. WordsInv(u)'
    <3>1. DOMAIN mParsed' \subseteq Lfs
      <4>1. want \in Lfs
        BY <2>6 DEF Taker, Lfs
      <4> QED
        BY <4>1, <2>3, <2>4 DEF WordsInv, WordsKnown
    <3>2. \A i \in 2 .. Len(argv') : u[i] \/ FlagsKnown(argv[i])'
      BY <1>2, <1>11, <2>4, <2>5
    <3>3. WordsKnown(u)'
      BY <3>1, <3>2, <2>7, <2>8, <1>9 DEF WordsKnown
    <3> QED
      BY <3>3, <2>9, <1>5 DEF WordsInv
  <2>11. WantInv(u)'
    BY <2>1, <2>5, <1>2 DEF WantInv
  <2>12. ArgsTypeOK'
    BY <1>1, <1>2, <1>3, <2>1, <2>3 DEF ArgsTypeOK, MapOK
  <2>13. u \in Marks'
    BY <1>2 DEF Marks
  <2> QED
    BY <2>1, <2>10, <2>11, <2>12, <2>13, <1>6 DEF ArgsInv
<1>13. CASE want = NoLf
  <2>1. PICK r : /\ Fits(w, r)
                 /\ mParsed' = r[1] /\ want' = r[2] /\ outcome' = r[3]
    <3>1. PICK r : /\ r = CASE w.kind = "pos" -> <<mParsed, NoLf, "words">>
                            [] w.kind = "long" -> LongFlag(w)
                            [] w.kind = "short" -> ShortFlags(w)
                            [] OTHER -> Failure(mParsed)
                   /\ mParsed' = r[1] /\ want' = r[2] /\ outcome' = r[3]
      BY <1>13 DEF ReadWord
    <3>2. Fits(w, r)
      BY <1>1, <3>1, TurnFits, Zenon
    <3> QED
      BY <3>1, <3>2
  <2>2. /\ MapOK(mParsed') /\ outcome' \in {"words", "failure", "help"}
        /\ outcome' = "words" => /\ Keeps(mParsed') /\ Adds(w, mParsed', want')
                                 /\ IF want' = NoLf THEN ~Takes(w) ELSE Taker(w, want')
    BY <2>1 DEF Fits, Fitting
  <2>3. mPositionals' = IF w.kind = "pos" THEN Append(mPositionals, w.name) ELSE mPositionals
    BY <1>13 DEF ReadWord
  <2>4. mPositionals' \in Seq({x.name : x \in CmdWords})
    BY <2>3, <1>1 DEF ArgsTypeOK
  <2>5. ArgsTypeOK'
    BY <1>1, <1>2, <1>3, <2>2, <2>4 DEF ArgsTypeOK, MapOK
  <2>6. CASE outcome' # "words"
    BY <2>2, <2>5, <2>6, <1>6 DEF ArgsInv
  <2>7. CASE outcome' = "words"
    <3>1. PICK v \in Marks : WordsInv(v) /\ WantInv(v)
      BY <1>1
    <3>2. PICK u \in [1 .. n + 1 -> BOOLEAN] : u[n + 1] = FALSE /\ \A i \in 1 .. n : u[i] = v[i]
      <4> DEFINE f == [i \in 1 .. n + 1 |-> IF i = n + 1 THEN FALSE ELSE v[i]]
      <4>1. f \in [1 .. n + 1 -> BOOLEAN] /\ f[n + 1] = FALSE /\ \A i \in 1 .. n : f[i] = v[i]
        <5>1. \A i \in 1 .. n : v[i] \in BOOLEAN
          BY <3>1, <1>2 DEF Marks
        <5>2. \A i \in 1 .. n + 1 : i # n + 1 => i \in 1 .. n
          BY <1>2
        <5>3. n + 1 \in 1 .. n + 1 /\ \A i \in 1 .. n : i \in 1 .. n + 1 /\ i # n + 1
          BY <1>2
        <5> QED
          BY <5>1, <5>2, <5>3
      <4> QED
        BY <4>1
    <3>3. n = 1 \/ v[n] \/ ~Takes(argv[n])
      BY <1>13, <3>1 DEF WantInv, n
    <3>4. Values(u)'
      <4>1. ASSUME NEW i \in 1 .. n + 1
            PROVE  u[i] <=> i > 2 /\ Takes(argv[i - 1])' /\ ~u[i - 1]
        <5>1. CASE i = n + 1
          <6>1. i - 1 = n /\ argv'[n] = argv[n] /\ u[n] = v[n] /\ (n = 1 => ~(i > 2))
            BY <5>1, <1>2, <3>2
          <6>2. Takes(argv[i - 1])' <=> Takes(argv[n])
            BY <6>1, <1>7
          <6> QED
            BY <5>1, <6>1, <6>2, <3>2, <3>3
        <5>2. CASE i # n + 1
          <6>1. i \in 1 .. n /\ (i > 2 => i - 1 \in 1 .. n)
            BY <5>2, <1>2
          <6>2. v[i] <=> i > 2 /\ Takes(argv[i - 1]) /\ ~v[i - 1]
            BY <6>1, <1>2, <3>1 DEF WordsInv, WordsKnown, Values
          <6>3. i > 2 => argv'[i - 1] = argv[i - 1] /\ u[i - 1] = v[i - 1]
            BY <6>1, <1>2, <3>2
          <6> QED
            BY <6>1, <6>2, <6>3, <3>2, <1>7
        <5> QED
          BY <5>1, <5>2
      <4> QED
        BY <4>1, <1>2 DEF Values
    <3>5. /\ IsFiniteSet(Places(v)) /\ Places(v) \subseteq 2 .. n
          /\ Places(u)' = IF w.kind = "pos" THEN Places(v) \cup {n + 1} ELSE Places(v)
          /\ n + 1 \notin Places(v)
      <4>1. Places(v) \subseteq 2 .. n /\ IsFiniteSet(2 .. n)
        <5>1. Places(v) \subseteq 2 .. n
          BY DEF Places, n
        <5>2. IsFiniteSet(2 .. n)
          BY <1>2, FS_Interval
        <5> QED
          BY <5>1, <5>2
      <4>2. ASSUME NEW i \in 2 .. n + 1
            PROVE  argv'[i].kind = "pos" /\ ~u[i] <=>
                      \/ i \in 2 .. n /\ argv[i].kind = "pos" /\ ~v[i]
                      \/ i = n + 1 /\ w.kind = "pos"
        <5>1. i = n + 1 \/ (i \in 2 .. n /\ i \in 1 .. n)
          BY <1>2
        <5>2. n + 1 \notin 2 .. n
          BY <1>2
        <5> QED
          BY <5>1, <5>2, <1>2, <3>2
      <4>3. 2 .. n \subseteq 2 .. n + 1 /\ n + 1 \in 2 .. n + 1 /\ n + 1 \notin 2 .. n
        BY <1>2
      <4>4. Places(u)' = {i \in 2 .. n + 1 : argv'[i].kind = "pos" /\ ~u[i]}
        BY <1>2 DEF Places
      <4>5. Places(v) = {i \in 2 .. n : argv[i].kind = "pos" /\ ~v[i]}
        BY DEF Places, n
      <4> QED
        BY <4>1, <4>2, <4>3, <4>4, <4>5, FS_Subset
    <3>6. InOrder(u)'
      <4> DEFINE P == Places(v)
                 rank(S, i) == Cardinality({j \in S : j <= i})
      <4>1. /\ Len(mPositionals) = Cardinality(P)
            /\ \A i \in P : mPositionals[rank(P, i)] = argv[i].name
        BY <3>1 DEF WordsInv, WordsKnown, InOrder
      <4>2. \A i \in P : argv'[i].name = argv[i].name
        BY <3>5, <1>2
      <4>3. CASE w.kind # "pos"
        BY <4>1, <4>2, <4>3, <3>5, <2>3 DEF InOrder
      <4>4. CASE w.kind = "pos"
        <5> DEFINE Q == P \cup {n + 1}
        <5>1. Places(u)' = Q /\ Cardinality(Q) = Cardinality(P) + 1
          BY <4>4, <3>5, FS_AddElement
        <5>2. /\ mPositionals' = Append(mPositionals, w.name)
              /\ mPositionals \in Seq({x.name : x \in CmdWords})
          BY <4>4, <2>3, <1>1 DEF ArgsTypeOK
        <5>3. /\ Len(mPositionals') = Cardinality(P) + 1
              /\ mPositionals'[Cardinality(P) + 1] = w.name
              /\ \A k \in 1 .. Cardinality(P) : mPositionals'[k] = mPositionals[k]
          BY <4>1, <5>2
        <5>4. ASSUME NEW i \in P PROVE mPositionals'[rank(Q, i)] = argv'[i].name
          <6>1. i \in 2 .. n /\ ~(n + 1 <= i)
            BY <3>5, <1>2
          <6>2. {j \in Q : j <= i} = {j \in P : j <= i}
            BY <6>1
          <6>3. {j \in P : j <= i} \subseteq P /\ i \in {j \in P : j <= i}
            BY <6>1
          <6>4. rank(P, i) \in 1 .. Cardinality(P)
            <7>1. /\ IsFiniteSet({j \in P : j <= i}) /\ rank(P, i) <= Cardinality(P)
                  /\ rank(P, i) \in Nat /\ Cardinality(P) \in Nat
              BY <6>3, <3>5, FS_Subset, FS_CardinalityType
            <7>2. rank(P, i) # 0
              BY <6>3, <7>1, FS_EmptySet
            <7> QED
              BY <7>1, <7>2
          <6> QED
            BY <6>2, <6>4, <5>3, <4>1, <4>2
        <5>5. mPositionals'[rank(Q, n + 1)] = argv'[n + 1].name
          <6>1. {j \in Q : j <= n + 1} = Q
            BY <3>5, <1>2
          <6> QED
            BY <6>1, <5>1, <5>3, <1>2
        <5>6. \A i \in Q : mPositionals'[rank(Q, i)] = argv'[i].name
          BY <5>4, <5>5
        <5> HIDE DEF Q
        <5> QED
          BY <5>1, <5>3, <5>6 DEF InOrder
      <4> QED
        BY <4>3, <4>4
    <3>7. ASSUME NEW k \in DOMAIN Cmd.args PROVE ArgRead(Cmd.args[k], u)'
      <4>1. PICK a : a = Cmd.args[k]
        OBVIOUS
      <4>2. Longer(v, u)
        BY <1>11, <2>2, <2>7, <3>1, <3>2 DEF Adds
      <4>3. /\ Len(argv) >= 1 /\ Len(argv') = Len(argv) + 1 /\ ~u[Len(argv')]
            /\ argv'[Len(argv')] = w
        BY <1>2, <3>2 DEF n
      <4>4. ArgRead(a, v) /\ a.lf # NoLf /\ want = NoLf /\ Keeps(mParsed')
        BY <4>1, <1>13, <1>10, <2>2, <2>7, <3>1 DEF WordsInv
      <4>5. Effect(w, a, mParsed', want')
        BY <4>1, <2>2, <2>7 DEF Adds
      <4>6. ArgRead(a, u)'
        BY <4>2, <4>3, <4>4, <4>5, FlagReads
      <4> QED
        BY <4>1, <4>6, <1>5
    <3>8. WordsInv(u)'
      <4>1. DOMAIN mParsed' \subseteq Lfs
        BY <2>2, <2>7, <3>1 DEF Adds, WordsInv, WordsKnown
      <4>2. \A i \in 2 .. Len(argv') : u[i] \/ FlagsKnown(argv[i])'
        BY <1>2, <1>11, <2>2, <2>7, <3>1, <3>2 DEF Adds
      <4>3. WordsKnown(u)'
        BY <4>1, <4>2, <3>4, <3>6, <1>9 DEF WordsKnown
      <4> QED
        BY <4>3, <3>7, <1>5 DEF WordsInv
    <3>9. WantInv(u)'
      <4>1. argv'[Len(argv')] = w /\ Len(argv') = n + 1
        BY <1>2
      <4>2. Takes(argv[Len(argv)])' <=> Takes(w)
        BY <4>1, <1>5 DEF Takes, ArgNames
      <4>3. Taker(argv[Len(argv)], want)' <=> Taker(w, want')
        BY <4>1, <1>5 DEF Taker, ArgNames
      <4>4. u[n + 1] = FALSE /\ (want' # NoLf => n + 1 > 1)
        BY <3>2, <1>2
      <4> QED
        BY <4>1, <4>2, <4>3, <4>4, <2>2, <2>7 DEF WantInv
    <3>10. u \in Marks'
      BY <1>2 DEF Marks
    <3> QED
      BY <2>5, <2>7, <3>8, <3>9, <3>10, <1>6 DEF ArgsInv
  <2> QED
    BY <2>6, <2>7
<1> QED
  BY <1>12, <1>13

\* What the parser starts with: no two of its flags can be confused.
LEMMA StartsApart == ArgsInit => ArgsInv
<1> SUFFICES ASSUME ArgsInit PROVE ArgsInv
  OBVIOUS
<1>1. Help \in AllFlags /\ <<Help>> \in Seq(AllFlags) /\ <<>> \in Seq(AllFlags)
  BY DEF AllFlags
<1>2. CommandArgs(<<Help>>) /\ CommandArgs(<<>>)
  BY DEF CommandArgs
<1>3. /\ Command("version", <<Help>>, TRUE) \in Commands
      /\ Command("help", <<Help>>, TRUE) \in Commands
      /\ NoCommand \in Commands
  BY <1>1 DEF Command, Commands, NoCommand, NoLf
<1>4. mCommands \in Seq(Commands) /\ adding \in Commands
  <2>1. \A c, d \in Commands : <<c, d>> \in Seq(Commands)
    OBVIOUS
  <2>2. mCommands = <<Command("version", <<Help>>, TRUE), Command("help", <<Help>>, TRUE)>>
        /\ adding = NoCommand
    BY DEF ArgsInit
  <2> QED
    BY <1>3, <2>1, <2>2
<1>5. ArgsTypeOK
  <2>1. mGlobals \in Seq(AllFlags) /\ copied \in Nat /\ argv \in Seq(CmdWords)
    BY <1>1 DEF ArgsInit
  <2>2. mPositionals \in Seq({w.name : w \in CmdWords})
    BY DEF ArgsInit
  <2>3. mParsed \in [DOMAIN mParsed -> Results]
    BY DEF ArgsInit
  <2> QED
    BY <1>4, <2>1, <2>2, <2>3 DEF ArgsTypeOK
<1>6. \A i \in DOMAIN mCommands : mCommands[i].args = <<Help>>
  BY DEF ArgsInit, Command
<1>7. adding.args = <<>>
  BY DEF ArgsInit, NoCommand, Command
<1>8. CommandsOK
  BY <1>2, <1>6, <1>7 DEF CommandsOK
<1>9. Untouched /\ outcome = "declare"
  BY DEF ArgsInit, Untouched
<1> QED
  BY <1>5, <1>8, <1>9 DEF ArgsInv

\* Declaring arguments and commands reads no word.
LEMMA DeclareKeeps ==
    ASSUME ArgsInv,
           \/ \E a \in GlobalFlags : AddGlobal(a)
           \/ \E d \in CmdDecls : AddCommand(d[1], d[2])
           \/ CopyGlobal \/ CommandAdded
    PROVE  ArgsInv'
<1>1. ArgsTypeOK /\ CommandsOK
  BY DEF ArgsInv
<1>2. /\ outcome \in {"declare", "adding"} /\ outcome' \in {"declare", "adding"}
      /\ UNCHANGED <<argv, mParsed, mPositionals, want>>
  BY DEF AddGlobal, AddCommand, CopyGlobal, CommandAdded
<1>3. Untouched'
  BY <1>2 DEF ArgsInv, Untouched
<1>4. ASSUME NEW a \in GlobalFlags, AddGlobal(a) PROVE ArgsTypeOK' /\ CommandsOK'
  <2>1. a \in AllFlags /\ mGlobals' = Append(mGlobals, a)
    BY <1>4, ArgsAssumption DEF AllFlags, AddGlobal
  <2>2. mGlobals' \in Seq(AllFlags)
    BY <2>1, <1>1 DEF ArgsTypeOK
  <2>3. UNCHANGED <<mCommands, adding, copied>>
    BY <1>4 DEF AddGlobal
  <2> QED
    BY <2>2, <2>3, <1>1, <1>2 DEF ArgsTypeOK, CommandsOK
<1>5. ASSUME NEW d \in CmdDecls, AddCommand(d[1], d[2]) PROVE ArgsTypeOK' /\ CommandsOK'
  <2>1. d[2] \in Seq(AllFlags)
    <3>1. d[2] \in Seq(Flags) /\ Flags \subseteq AllFlags
      BY ArgsAssumption DEF AllFlags
    <3> QED
      BY <3>1
  <2>2. adding' = Command(d[1], d[2], FALSE) /\ copied' = 0 /\ CommandArgs(d[2])
    BY <1>5 DEF AddCommand
  <2>3. adding' \in Commands /\ adding'.args = d[2]
    BY <2>1, <2>2 DEF Command, Commands
  <2>4. UNCHANGED <<mGlobals, mCommands>>
    BY <1>5 DEF AddCommand
  <2> QED
    BY <2>2, <2>3, <2>4, <1>1, <1>2 DEF ArgsTypeOK, CommandsOK
<1>6. ASSUME CopyGlobal PROVE ArgsTypeOK' /\ CommandsOK'
  <2> DEFINE g == mGlobals[copied + 1]
  <2>1. /\ adding' = IF Find(adding.args, g.lf, g.sf) # 0 THEN adding
                     ELSE [adding EXCEPT !.args = Append(adding.args, g)]
        /\ copied' = copied + 1 /\ UNCHANGED <<mGlobals, mCommands>>
    BY <1>6 DEF CopyGlobal
  <2>2. g \in AllFlags /\ copied' \in Nat
    BY <1>1, <1>6, <2>1 DEF CopyGlobal, ArgsTypeOK
  <2>3. adding.args \in Seq(AllFlags) /\ CommandArgs(adding.args) /\ adding \in Commands
    BY <1>1 DEF ArgsTypeOK, CommandsOK, Commands
  <2> HIDE DEF g
  <2>4. adding' \in Commands /\ CommandArgs(adding'.args)
    <3>1. CASE Find(adding.args, g.lf, g.sf) # 0
      BY <3>1, <2>1, <2>3
    <3>2. CASE Find(adding.args, g.lf, g.sf) = 0
      <4>1. CommandArgs(Append(adding.args, g)) /\ Append(adding.args, g) \in Seq(AllFlags)
        BY <3>2, <2>2, <2>3, CopyApart
      <4>2. adding' = [adding EXCEPT !.args = Append(adding.args, g)]
        BY <3>2, <2>1
      <4>3. adding' \in Commands /\ adding'.args = Append(adding.args, g)
        BY <4>1, <4>2, <2>3 DEF Commands
      <4> QED
        BY <4>1, <4>3
    <3> QED
      BY <3>1, <3>2
  <2> QED
    BY <2>1, <2>2, <2>4, <1>1, <1>2 DEF ArgsTypeOK, CommandsOK
<1>7. ASSUME CommandAdded PROVE ArgsTypeOK' /\ CommandsOK'
  <2>1. /\ mCommands' = Append(mCommands, adding) /\ adding' = NoCommand /\ copied' = 0
        /\ UNCHANGED mGlobals
    BY <1>7 DEF CommandAdded
  <2>2. mCommands' \in Seq(Commands)
    BY <2>1, <1>1 DEF ArgsTypeOK
  <2>3. \A i \in DOMAIN mCommands' : CommandArgs(mCommands'[i].args)
    <3>1. mCommands \in Seq(Commands)
      BY <1>1 DEF ArgsTypeOK
    <3>2. \A i \in DOMAIN mCommands' :
             (i \in DOMAIN mCommands /\ mCommands'[i] = mCommands[i]) \/ mCommands'[i] = adding
      BY <3>1, <2>1
    <3> QED
      BY <3>2, <1>1 DEF CommandsOK
  <2>4. adding' \in Commands /\ CommandArgs(adding'.args)
    BY <2>1 DEF NoCommand, Command, Commands, CommandArgs
  <2> QED
    BY <2>1, <2>2, <2>3, <2>4, <1>1, <1>2 DEF ArgsTypeOK, CommandsOK
<1>8. ArgsTypeOK' /\ CommandsOK'
  BY <1>4, <1>5, <1>6, <1>7
<1> QED
  BY <1>2, <1>3, <1>8 DEF ArgsInv

\* The first word chooses the command: nothing of the line is used yet.
LEMMA ParseKeeps ==
    ASSUME ArgsInv, NEW w \in CmdWords, ParserParse(w)
    PROVE  ArgsInv'
<1>1. /\ ArgsTypeOK /\ CommandsOK /\ Untouched
      /\ argv' = <<w>> /\ outcome' \in {"failure", "words"}
      /\ outcome' = "words" => w.kind = "pos" /\ FindCommand(mCommands, w.name) # 0
      /\ UNCHANGED <<mGlobals, mCommands, adding, copied, mParsed, mPositionals, want>>
  BY DEF ArgsInv, ParserParse
<1>2. /\ Len(argv') = 1 /\ DOMAIN argv' = {1} /\ argv'[1] = w
      /\ argv' # <<>> /\ argv' \in Seq(CmdWords)
  BY <1>1
<1>3. ArgsTypeOK' /\ CommandsOK'
  BY <1>1, <1>2 DEF ArgsTypeOK, CommandsOK
<1>4. outcome' = "words" => Chosen'
  BY <1>1, <1>2 DEF Chosen
<1> DEFINE v == [i \in {1} |-> FALSE]
<1>5. v \in Marks' /\ v[1] = FALSE
  BY <1>2 DEF Marks
<1> HIDE DEF v
<1>6. Values(v)'
  BY <1>2, <1>5 DEF Values
<1>7. InOrder(v)'
  <2>1. 2 .. 1 = {}
    OBVIOUS
  <2>2. Places(v)' = {}
    BY <1>2, <2>1 DEF Places
  <2>3. Len(mPositionals') = 0
    BY <1>1 DEF Untouched
  <2> QED
    BY <2>2, <2>3, FS_EmptySet DEF InOrder
<1>8. WordsKnown(v)' /\ WantInv(v)'
  <2>1. 2 .. 1 = {}
    OBVIOUS
  <2> QED
    BY <2>1, <1>1, <1>2, <1>6, <1>7 DEF WordsKnown, WantInv, Untouched
<1>9. ASSUME NEW a PROVE ArgRead(a, v)'
  <2>1. 2 .. 1 = {}
    OBVIOUS
  <2>2. FlagsOf(a, v)' = {}
    BY <2>1, <1>2 DEF FlagsOf
  <2> QED
    BY <2>2, <1>1 DEF ArgRead, Untouched
<1>10. ASSUME outcome' = "words", NEW k \in (DOMAIN Cmd.args)' PROVE ArgRead(Cmd.args[k], v)'
  <2>1. PICK a : a = Cmd'.args[k]
    OBVIOUS
  <2> QED
    BY <2>1, <1>9
<1>11. outcome' = "words" => WordsInv(v)'
  BY <1>8, <1>10 DEF WordsInv
<1> QED
  BY <1>1, <1>3, <1>4, <1>5, <1>8, <1>11 DEF ArgsInv

\* At the end of the words, the required arguments have been given or are asked for.
LEMMA EndKeeps ==
    ASSUME ArgsInv, NEW typed \in BOOLEAN, EndOfWords(typed)
    PROVE  ArgsInv'
<1> DEFINE asked == {i \in Missing : want = NoLf /\ Cmd.args[i].prompt # "no"}
           answered == {i \in asked : typed \/ Cmd.args[i].prompt = "hidden" \/ Cmd.args[i].default}
           lfs == {Cmd.args[i].lf : i \in answered}
<1>1. /\ outcome = "words"
      /\ mParsed' = [x \in DOMAIN mParsed \cup lfs |-> IF x \in lfs THEN Typed ELSE mParsed[x]]
      /\ outcome' = CASE want # NoLf \/ answered # Missing -> "failure"
                      [] Cmd.internal -> "internal"
                      [] OTHER -> "parsed"
      /\ UNCHANGED <<mGlobals, mCommands, adding, copied, argv, mPositionals, want>>
  BY DEF EndOfWords
<1>2. ArgsTypeOK /\ CommandsOK /\ Chosen /\ \E v \in Marks : WordsInv(v) /\ WantInv(v)
  BY <1>1 DEF ArgsInv
<1>3. /\ Cmd.args \in Seq(AllFlags) /\ CommandArgs(Cmd.args)
      /\ lfs \cap DOMAIN mParsed = {} /\ lfs \subseteq Lfs
  <2>1. \A i \in answered : i \in DOMAIN Cmd.args /\ Cmd.args[i].lf \notin DOMAIN mParsed
    BY DEF Missing
  <2>2. \A x \in lfs : x \in Lfs /\ x \notin DOMAIN mParsed
    BY <2>1 DEF Lfs
  <2> QED
    BY <2>2, <1>2, CmdIs
<1>4. ASSUME answered = Missing, NEW k \in DOMAIN Cmd.args
      PROVE  /\ Cmd.args[k].lf \in lfs <=> Cmd.args[k].required /\ Cmd.args[k].lf \notin DOMAIN mParsed
             /\ Cmd.args[k].lf \in lfs => Cmd.args[k].prompt # "no"
  <2>1. ASSUME Cmd.args[k].lf \in lfs PROVE k \in answered
    <3>1. PICK i \in answered : Cmd.args[i].lf = Cmd.args[k].lf
      BY <2>1
    <3>2. i \in DOMAIN Cmd.args
      BY DEF Missing
    <3>3. i = k
      BY <1>3, <3>1, <3>2, NotConfused
    <3> QED
      BY <3>3
  <2>2. k \in answered => Cmd.args[k].lf \in lfs /\ Cmd.args[k].prompt # "no"
    OBVIOUS
  <2>3. k \in answered <=> Cmd.args[k].required /\ Cmd.args[k].lf \notin DOMAIN mParsed
    BY <1>4 DEF Missing
  <2> HIDE DEF answered, lfs
  <2> QED
    BY <2>1, <2>2, <2>3
<1> HIDE DEF lfs
<1>5. /\ MapOK(mParsed') /\ DOMAIN mParsed' = DOMAIN mParsed \cup lfs
      /\ \A x \in lfs : mParsed'[x] = Typed
      /\ \A x \in DOMAIN mParsed : x \notin lfs => mParsed'[x] = mParsed[x]
  BY <1>1, <1>2 DEF MapOK, ArgsTypeOK, Results
<1>6. Cmd' = Cmd /\ Lfs' = Lfs
  BY <1>1 DEF Cmd, Lfs
<1>7. ArgsTypeOK' /\ CommandsOK' /\ Chosen'
  BY <1>1, <1>2, <1>5 DEF ArgsTypeOK, CommandsOK, Chosen, MapOK
<1>8. /\ outcome' \in {"failure", "internal", "parsed"}
      /\ outcome' = "parsed" => answered = Missing /\ want = NoLf
  BY <1>1
<1>9. PICK v \in Marks : WordsInv(v)
  BY <1>2
<1>10. v \in Marks' /\ WordsKnown(v)'
  <2>1. Values(v) /\ InOrder(v)
    BY <1>9 DEF WordsInv, WordsKnown
  <2>2. Values(v)'
    BY <2>1, <1>1, <1>6 DEF Values, Takes, ArgNames
  <2>3. Places(v)' = Places(v)
    BY <1>1 DEF Places
  <2>4. InOrder(v)'
    BY <2>1, <2>3, <1>1 DEF InOrder
  <2>5. DOMAIN mParsed' \subseteq Lfs'
    BY <1>3, <1>5, <1>6, <1>9 DEF WordsInv, WordsKnown
  <2>6. ASSUME NEW i PROVE FlagsKnown(argv[i])' <=> FlagsKnown(argv[i])
    BY <1>1, <1>6 DEF FlagsKnown, HasFlag, ArgNames
  <2>7. \A i \in 2 .. Len(argv) : v[i] \/ FlagsKnown(argv[i])
    BY <1>9 DEF WordsInv, WordsKnown
  <2> QED
    BY <2>2, <2>4, <2>5, <2>6, <2>7, <1>1, <1>9 DEF Marks, WordsKnown
<1>11. ASSUME outcome' = "parsed", NEW k \in DOMAIN Cmd.args
       PROVE  ArgUsed(Cmd.args[k], v)'
  <2>1. PICK a : a = Cmd.args[k]
    OBVIOUS
  <2> DEFINE F == FlagsOf(a, v)
  <2>2. FlagsOf(a, v)' = F /\ F \subseteq 1 .. Len(argv)
    BY <1>1 DEF FlagsOf, HasFlag
  <2>3. a.lf # NoLf /\ want = NoLf
    BY <1>3, <1>8, <1>11, <2>1, FlagIs
  <2>4. /\ a.lf \in lfs <=> a.required /\ a.lf \notin DOMAIN mParsed
        /\ a.lf \in lfs => a.prompt # "no"
    BY <1>4, <1>8, <1>11, <2>1
  <2>5. /\ F = {} => a.lf \notin DOMAIN mParsed
        /\ \A i \in F : IsFirst(i, F) => Says(a, i, v)
        /\ \A i, j \in F : i < j => argv[j].kind = "short"
    BY <1>9, <2>1, <2>3 DEF WordsInv, ArgRead
  <2>6. ASSUME NEW i \in F, IsFirst(i, F) PROVE Says(a, i, v)'
    <3>1. Says(a, i, v) /\ i \in 1 .. Len(argv)
      BY <2>2, <2>5, <2>6
    <3>2. a.lf \in DOMAIN mParsed /\ a.lf \notin lfs
      BY <3>1, <1>3 DEF Says
    <3>3. a.lf \in DOMAIN mParsed' /\ mParsed'[a.lf] = mParsed[a.lf]
      BY <3>2, <1>5
    <3>4. Longer(v, v)
      BY <1>1, <1>2 DEF Longer, ArgsTypeOK
    <3> HIDE DEF F
    <3> QED
      BY <3>1, <3>3, <3>4, SaysStays
  <2>7. ASSUME F = {}
        PROVE  /\ a.lf \in DOMAIN mParsed' <=> a.required
               /\ a.required => a.prompt # "no" /\ mParsed'[a.lf] = Typed
    BY <2>4, <2>5, <2>7, <1>5
  <2>8. \A i, j \in F : i < j => argv'[j].kind = "short"
    BY <2>5, <1>1
  <2> HIDE DEF F
  <2>9. ArgUsed(a, v)'
    BY <2>2, <2>6, <2>7, <2>8 DEF ArgUsed, IsFirst
  <2> QED
    BY <2>1, <2>9, <1>6
<1>12. outcome' = "parsed" => AllUsed(v)'
  BY <1>6, <1>10, <1>11 DEF AllUsed
<1> HIDE DEF answered
<1> QED
  BY <1>7, <1>8, <1>10, <1>12 DEF ArgsInv

\* Nothing of the invariant changes when nothing does.
LEMMA StutterKeeps == ArgsInv /\ UNCHANGED argsVars => ArgsInv'
<1> SUFFICES ASSUME ArgsInv, UNCHANGED argsVars PROVE ArgsInv'
  OBVIOUS
<1>1. UNCHANGED <<mGlobals, mCommands, adding, copied, argv, mParsed, mPositionals, want, outcome>>
  BY DEF argsVars
<1>2. Cmd' = Cmd /\ Marks' = Marks
  BY <1>1 DEF Cmd, Marks
<1>3. /\ ArgsTypeOK' = ArgsTypeOK /\ CommandsOK' = CommandsOK
      /\ Chosen' = Chosen /\ Untouched' = Untouched
  BY <1>1 DEF ArgsTypeOK, CommandsOK, Chosen, Untouched
<1>4. ASSUME NEW v PROVE WordsKnown(v)' = WordsKnown(v) /\ WantInv(v)' = WantInv(v)
  <2>1. ASSUME NEW i PROVE FlagsKnown(argv[i])' <=> FlagsKnown(argv[i])
    BY <1>1, <1>2 DEF FlagsKnown, HasFlag, ArgNames
  <2>2. Values(v)' = Values(v) /\ InOrder(v)' = InOrder(v) /\ WantInv(v)' = WantInv(v) /\ Lfs' = Lfs
    BY <1>1, <1>2 DEF WantInv, Values, InOrder, Places, Takes, Taker, ArgNames, Lfs
  <2> QED
    BY <2>1, <2>2, <1>1 DEF WordsKnown
<1>5. ASSUME NEW a, NEW v PROVE ArgRead(a, v)' = ArgRead(a, v) /\ ArgUsed(a, v)' = ArgUsed(a, v)
  <2>1. FlagsOf(a, v)' = FlagsOf(a, v)
    BY <1>1 DEF FlagsOf, HasFlag
  <2>2. ASSUME NEW i PROVE Says(a, i, v)' = Says(a, i, v)
    BY <1>1 DEF Says
  <2> QED
    BY <2>1, <2>2, <1>1 DEF ArgRead, ArgUsed, IsFirst
<1>6. ASSUME NEW v, NEW k
      PROVE  /\ ArgRead(Cmd.args[k], v)' = ArgRead(Cmd.args[k], v)
             /\ ArgUsed(Cmd.args[k], v)' = ArgUsed(Cmd.args[k], v)
  <2>1. PICK a : a = Cmd.args[k]
    OBVIOUS
  <2> QED
    BY <2>1, <1>2, <1>5
<1>7. ASSUME NEW v PROVE WordsInv(v)' = WordsInv(v) /\ AllUsed(v)' = AllUsed(v)
  BY <1>2, <1>4, <1>6 DEF WordsInv, AllUsed
<1> QED
  BY <1>1, <1>2, <1>3, <1>4, <1>7 DEF ArgsInv

\* Which words are values follows from the words: there is one answer.
LEMMA ValuesUnique ==
    ASSUME argv \in Seq(CmdWords), NEW u \in Marks, NEW v \in Marks, Values(u), Values(v)
    PROVE  u = v
<1> DEFINE apart == {i \in DOMAIN argv : u[i] # v[i]}
<1>1. SUFFICES ASSUME apart # {} PROVE FALSE
  BY DEF Marks
<1>2. PICK i \in apart : \A j \in apart : i <= j
  <2>1. apart \in SUBSET Nat
    OBVIOUS
  <2> HIDE DEF apart
  <2> QED
    BY <2>1, <1>1, LeastExists
<1>3. i \in DOMAIN argv /\ u[i] # v[i] /\ i \in Nat /\ u[i] \in BOOLEAN /\ v[i] \in BOOLEAN
  BY DEF Marks
<1>4. i > 2 => i - 1 \in DOMAIN argv /\ ~(i <= i - 1)
  BY <1>3
<1>5. i > 2 => u[i - 1] = v[i - 1]
  BY <1>2, <1>4
<1> HIDE DEF apart
<1>6. /\ u[i] <=> i > 2 /\ Takes(argv[i - 1]) /\ ~u[i - 1]
      /\ v[i] <=> i > 2 /\ Takes(argv[i - 1]) /\ ~v[i - 1]
  BY <1>3 DEF Values
<1> QED
  BY <1>3, <1>5, <1>6

\* What the invariant says of the words is what was to be shown of them.
LEMMA InvUsed == ArgsInv => WordsUsedOnce
<1> SUFFICES ASSUME ArgsInv, outcome = "parsed"
             PROVE  /\ InOrder(IsValue)
                    /\ \A i \in 2 .. Len(argv) : IsValue[i] \/ FlagsKnown(argv[i])
                    /\ \A k \in DOMAIN Cmd.args : ArgUsed(Cmd.args[k], IsValue)
                    /\ DOMAIN mParsed \subseteq {Cmd.args[k].lf : k \in DOMAIN Cmd.args}
  BY DEF WordsUsedOnce
<1>1. argv \in Seq(CmdWords)
  BY DEF ArgsInv, ArgsTypeOK
<1>2. PICK v \in Marks : AllUsed(v)
  BY DEF ArgsInv
<1>3. IsValue = v
  <2>1. Values(v)
    BY <1>2 DEF AllUsed, WordsKnown
  <2>2. \A u \in Marks : Values(u) => u = v
    BY <1>1, <2>1, ValuesUnique
  <2>3. IsValue = CHOOSE u \in Marks : Values(u)
    BY DEF IsValue, Marks
  <2>4. IsValue \in Marks /\ Values(IsValue)
    BY <2>1, <2>3
  <2> QED
    BY <2>2, <2>4
<1> QED
  BY <1>2, <1>3 DEF AllUsed, WordsKnown, Lfs

\* Command::parse(): what becomes of every word of a command line that is accepted.
\* The positionals are the words that are no flags and no values, in their order; every
\* flag is known; every argument has the value that its first flag gives it, and the
\* later ones, which only clusters of short flags repeat, change nothing.
THEOREM WordsUsed == ArgsSpec => []WordsUsedOnce
<1>1. ArgsInit => ArgsInv
  BY StartsApart
<1>2. ArgsInv /\ [ArgsNext]_argsVars => ArgsInv'
  <2> SUFFICES ASSUME ArgsInv, [ArgsNext]_argsVars PROVE ArgsInv'
    OBVIOUS
  <2>1. CASE \/ \E a \in GlobalFlags : AddGlobal(a)
             \/ \E d \in CmdDecls : AddCommand(d[1], d[2])
             \/ CopyGlobal \/ CommandAdded
    BY <2>1, DeclareKeeps
  <2>2. CASE \E w \in CmdWords : ParserParse(w)
    BY <2>2, ParseKeeps
  <2>3. CASE \E w \in CmdWords : ReadWord(w)
    BY <2>3, ReadKeeps
  <2>4. CASE \E typed \in BOOLEAN : EndOfWords(typed)
    BY <2>4, EndKeeps
  <2>5. CASE UNCHANGED argsVars
    BY <2>5, StutterKeeps
  <2> QED
    BY <2>1, <2>2, <2>3, <2>4, <2>5 DEF ArgsNext
<1>3. ArgsInv => WordsUsedOnce
  BY InvUsed
<1> QED
  BY <1>1, <1>2, <1>3, PTL DEF ArgsSpec
=============================================================================
