------------------------------- MODULE MCData -------------------------------
(***************************************************************************)
(* What the threads work on: query ids, the tables the resolver asks, text *)
(* and command lines, each by one thread; and the schedule queue, by       *)
(* several, in its four parts: how a thread finds its sub-queue, the       *)
(* sub-queue, the list of its blocks, and how items are taken.  A          *)
(* behaviour is one of a single part, chosen at the start.                 *)
(***************************************************************************)
EXTENDS Permutor, DnsHosts, DnsConf, DnsHints, Text, CommandLine,
        ProducerHash, SubQueue, FreeList, QueueFront

VARIABLE part     \* the part of this behaviour

MCRanges == {<<1, 3>>, <<1, 4>>, <<0, 1>>}

HA1 == Address("v4", "a1")
HA2 == Address("v4", "a2")
HB1 == Address("v6", "b1")
MCHostLines ==
    { <<HA1, Name("x", FALSE), Name("y", TRUE)>>, <<HA1, Name("y", FALSE)>>,
      <<HA2, Name("x", TRUE), Comment, Name("y", FALSE)>>,
      <<HB1, Name("y", FALSE), Name("x", FALSE), HA1>>,
      <<Name("x", FALSE), HA1, Name("y", FALSE)>>, <<Comment, HA1, Name("x", FALSE)>>, <<HA2>> }

MCResLines ==
    { <<"nameserver", <<"a1", 0>>>>, <<"nameserver", <<"a2", 5353>>>>, <<"nameserver", <<"bad", 0>>>>,
      <<"search", "s1", "s2", "s3">>, <<"domain", "s4">>, <<"search">>,
      <<"lookup", "file">>, <<"lookup", "cache", "x", "bind", "file">>,
      <<"options", <<"ndots", 2>>, <<"rotate">>, <<"tcp">>>>,
      <<"options", <<"tcp", "0">>, <<"tcp", "x">>, <<"ndots", 0>>, <<"attempts", 1>>, <<"smart">>, <<"edns0">>>>,
      <<"interface", <<"a1", 1>>>>, <<"sortlist", <<"a1", 0>>>> }
MCClauses ==
    { <<"files">>, <<"dns", <<"success", "continue">>, <<"bogus", "return">>>>,
      <<"mdns", <<"notfound", "return">>, <<"notfound", "merge">>>>, <<"nis", <<"unavail", "return">>>>,
      <<"dns", <<"tryagain", "return">>, <<"unavail", "merge">>>>, <<"files", <<"success", "merge">>>> }
MCHostDomain == <<>>

MCZones == {<<>>, <<"c">>, <<"b", "c">>}
MCAddrs == {<<"a1", 0>>, <<"a2", 54>>}
MCServerLists == {[servers |-> <<<<"a1", 53>>, <<"a3", 0>>>>, rotate |-> r] : r \in BOOLEAN}

MCDelims == {<<44>>, <<44, 44>>, <<44, 37>>}

\* Letters of arguments clash between a command and the parser, flags can be repeated
\* in clusters, and some arguments are asked for at a prompt.
W(k, n, e) == Word(k, n, <<>>, e)
Letters(sfs, e) == Word("short", "", sfs, e)
MCCmdWords ==
    { W("pos", "add", FALSE), W("pos", "version", FALSE), W("long", "one", FALSE), W("long", "one", TRUE),
      W("long", "two", FALSE), W("long", "help", FALSE), W("long", "pin", FALSE), W("bad", "--", FALSE),
      Letters(<<"t", "o">>, FALSE), Letters(<<"o", "t">>, FALSE), Letters(<<"o">>, TRUE),
      Letters(<<"v">>, FALSE) }
Asks(a, how) == [a EXCEPT !.prompt = how]
FVerbose == Arg("verbose", "v", TRUE, FALSE)
FVolume == Arg("volume", "v", FALSE, FALSE)
FOne(required) == Arg("one", "o", FALSE, required)
FTwo == Arg("two", "t", TRUE, FALSE)
FPin == Asks(Arg("pin", "p", FALSE, TRUE), "hidden")
FKey == Asks(Arg("key", NoSf, FALSE, TRUE), "shown")
MCGlobalFlags == {FVerbose, FVolume}
MCFlags == MCGlobalFlags \cup {FOne(FALSE), FOne(TRUE), FTwo, FPin, FKey}
MCCmdDecls == {<<"add", <<FOne(TRUE), FTwo>>>>, <<"add", <<FOne(FALSE), FTwo, FPin, FKey>>>>}

MCHash == [t \in Senders |-> 0]    \* all collide

\* A part that is not chosen starts, and stays, in one state.  The range of two ids
\* is there for the s-boxes of the shuffle, the others for the keys of the permutor.
Identity == [sbox |-> [b \in Bytes |-> b], seed |-> [i \in 1 .. 4 |-> 0]]
ZeroKey == \A i \in DOMAIN perm.F : \A x \in DOMAIN perm.F[i] : perm.F[i][x] = 0
MCPermInit ==
    /\ KeyInit
    /\ perm.p.length = 2 => ZeroKey
    /\ part # "permutor" => perm.p.length = 2
    /\ IF part = "permutor" /\ perm.p.length = 2
       THEN BoxInit /\ box.seed[3] = 0 /\ box.seed[4] = 3 * box.seed[2] % 4
       ELSE box = Identity
DataInit ==
    /\ part \in {"permutor", "hosts", "conf", "hints", "text", "args",
                "hash", "items", "blocks", "front"}
    /\ MCPermInit /\ HostsInit /\ ConfInit /\ HintsInit /\ TextInit /\ ArgsInit
    /\ HashInit /\ SubInit /\ FreeListInit /\ FrontInit

tableVars == <<permVars, hostsVars, confVars, hintsVars>>
textVars == <<text, argsVars>>
queueVars == <<hashVars, subVars, freeVars, frontVars>>
DataNext ==
    \/ /\ part = "permutor" /\ PermNext
       /\ UNCHANGED <<part, hostsVars, confVars, hintsVars, textVars, queueVars>>
    \/ /\ part = "hosts" /\ HostsNext
       /\ UNCHANGED <<part, permVars, confVars, hintsVars, textVars, queueVars>>
    \/ /\ part = "conf" /\ ConfNext
       /\ UNCHANGED <<part, permVars, hostsVars, hintsVars, textVars, queueVars>>
    \/ /\ part = "hints" /\ HintsNext
       /\ UNCHANGED <<part, permVars, hostsVars, confVars, textVars, queueVars>>
    \/ /\ part = "text" /\ TextNext
       /\ UNCHANGED <<part, tableVars, argsVars, queueVars>>
    \/ /\ part = "args" /\ ArgsNext
       /\ UNCHANGED <<part, tableVars, text, queueVars>>
    \/ /\ part = "hash" /\ HashNext
       /\ UNCHANGED <<part, tableVars, textVars, subVars, freeVars, frontVars>>
    \/ /\ part = "items" /\ SubNext
       /\ UNCHANGED <<part, tableVars, textVars, hashVars, freeVars, frontVars>>
    \/ /\ part = "blocks" /\ FreeListNext
       /\ UNCHANGED <<part, tableVars, textVars, hashVars, subVars, frontVars>>
    \/ /\ part = "front" /\ FrontNext
       /\ UNCHANGED <<part, tableVars, textVars, hashVars, subVars, freeVars>>

\* The query ids drawn from the permutor never repeat before their time, and the
\* shuffle has no ties (NeverRepeats of Permutor; the other parts draw none).
IdsNeverRepeat == part = "permutor" => NeverRepeats
=============================================================================
