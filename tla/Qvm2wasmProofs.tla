---------------------------- MODULE Qvm2wasmProofs ---------------------------
(***************************************************************************)
(* Proofs about the two commands and QVM2WASM_Compile: for every command   *)
(* line, every answer of the operating system and the allocator, every     *)
(* buffer size and every list of sections and function bodies.             *)
(***************************************************************************)
EXTENDS Qvm2wasm, Lemmas

-----------------------------------------------------------------------------
(* The driver: what each stage of main() knows of the command line.        *)

DriverTypeInv ==
  /\ program \in {"qvm2wasm", "host"}
  /\ argv \in Seq(Seq(STRING)) /\ \A k \in 1 .. Len(argv) : argv[k] # NULL
  /\ i \in 1 .. Len(argv) + 1
  /\ run \in BOOLEAN /\ wrote \in BOOLEAN
  /\ how \in {"running", "return", "exit"}
  /\ stage = "over" <=> how # "running"

\* The options as the scan of the first n - 1 arguments leaves them.
Scanned(n, in, out, r) == i = n /\ inPath = in /\ outPath = out /\ run = r

\* The three ways to write a command line: path -o out, -o out path, -r path args.
PathFirst == Len(argv) = 3 /\ argv[1] \notin Flags /\ argv[2] = FlagOut
OutFirst  == Len(argv) = 3 /\ argv[1] = FlagOut /\ argv[3] \notin Flags
RunFirst  ==
  /\ Len(argv) >= 2 /\ argv[1] = FlagRun /\ argv[2] \notin Flags
  /\ Len(argv) >= 3 => argv[3] \notin Flags

\* How far a scan of such a command line may have come.
ScanInv == program = "qvm2wasm" =>
  /\ PathFirst => \/ Scanned(1, NULL, NULL, FALSE) \/ Scanned(2, argv[1], NULL, FALSE)
                  \/ Scanned(4, argv[1], argv[3], FALSE)
  /\ OutFirst  => \/ Scanned(1, NULL, NULL, FALSE) \/ Scanned(3, NULL, argv[2], FALSE)
                  \/ Scanned(4, argv[3], argv[2], FALSE)
  /\ RunFirst  => \/ Scanned(1, NULL, NULL, FALSE) \/ Scanned(2, NULL, NULL, TRUE)
                  \/ Scanned(3, argv[2], NULL, TRUE)

\* main() works on a file only when it has read the arguments and found a path.
PastArgs == stage \notin {"args", "over"} \/ passed # <<>> \/ wrote
DoneInv ==
  /\ PastArgs /\ program = "qvm2wasm" => inPath # NULL /\ (i > Len(argv) \/ run)
  /\ PastArgs /\ program = "host" => inPath = argv[1]

\* The files opened so far, in order.
OpenedInv ==
  /\ stage \in {"args", "open"} => opened = <<>>
  /\ stage \in {"size", "alloc", "read", "create", "translate", "openout", "engine", "enter"}
       => opened = <<inPath>>
  /\ stage = "call" => opened = <<inPath, MapFile(inPath)>>
  /\ stage \in {"write", "close"} \/ wrote => opened = <<inPath, outPath>>
  /\ passed # <<>> => opened[1] = inPath

\* Which command, and which of its two jobs, is at which stage.
RouteInv ==
  /\ stage \in {"create", "call"} => program = "qvm2wasm" /\ run
  /\ stage = "free" /\ program = "qvm2wasm" => run
  /\ stage \in {"translate", "openout", "write", "close"} => program = "qvm2wasm" /\ ~ run
  /\ stage \in {"engine", "enter"} => program = "host"
  /\ wrote => how = "return" /\ ~ run
  /\ passed # <<>> => /\ stage \in {"free", "over"}
                      /\ program = "host" => passed = ArgsFrom(2)
                      /\ program = "qvm2wasm" => passed = ArgsFrom(i)

\* The exit code of a translation; --help exits with 0 as well.
HelpAsked == FlagHelp \in {argv[k] : k \in DOMAIN argv}
CodeInv == how = "return" /\ ~ run /\ program = "qvm2wasm" /\ inPath # NULL =>
             HelpAsked \/ (code = 0 <=> wrote)

DriverInv == DriverTypeInv /\ ScanInv /\ DoneInv /\ OpenedInv /\ RouteInv /\ CodeInv

LEMMA FlagsDiffer == FlagRun # FlagOut /\ FlagRun # FlagHelp /\ FlagOut # FlagHelp
BY DEF FlagRun, FlagOut, FlagHelp

LEMMA AppendSecond == ASSUME NEW a, NEW b PROVE Append(<<a>>, b) = <<a, b>>
<1> DEFINE s == Append(<<a>>, b)
<1>1. <<a>> \in Seq({a, b}) OBVIOUS
<1>2. s \in Seq({a, b}) /\ Len(s) = 2 /\ s[1] = a /\ s[2] = b BY <1>1
<1> HIDE DEF s
<1>3. s = [k \in 1 .. 2 |-> s[k]] BY <1>2
<1>4. s = <<s[1], s[2]>> BY <1>3
<1>5. QED BY <1>2, <1>4 DEF s

\* Init => DriverInv, and every step keeps it: one step per action of main().
LEMMA DriverInitially == Init => DriverInv
<1> SUFFICES ASSUME Init PROVE DriverInv OBVIOUS
<1>1. PICK c \in CommandLines : program = c.program /\ argv = c.argv BY DEF Init
<1>2. c.program \in {"qvm2wasm", "host"} /\ c.argv \in Seq(Seq(STRING)) BY DriverAssumption
<1>3. \A k \in DOMAIN c.argv : c.argv[k] # NULL BY NullAssumption
<1>4. DriverTypeInv
  <2>1. argv \in Seq(Seq(STRING)) /\ Len(argv) \in Nat BY <1>1, <1>2
  <2>2. \A k \in 1 .. Len(argv) : argv[k] # NULL BY <1>1, <1>3, <2>1
  <2>3. i \in 1 .. Len(argv) + 1 BY <2>1 DEF Init
  <2>4. program \in {"qvm2wasm", "host"} BY <1>1, <1>2
  <2>5. QED BY <2>1, <2>2, <2>3, <2>4 DEF Init, DriverTypeInv
<1>5. ScanInv BY DEF Init, ScanInv, Scanned
<1>6. DoneInv /\ OpenedInv /\ RouteInv /\ CodeInv
      BY DEF Init, DoneInv, PastArgs, OpenedInv, RouteInv, CodeInv
<1>7. QED BY <1>4, <1>5, <1>6 DEF DriverInv

LEMMA DriverKeeps == DriverInv /\ Next => DriverInv'
<1> SUFFICES ASSUME DriverInv, Next PROVE DriverInv' OBVIOUS
<1>0. DriverTypeInv /\ ScanInv /\ DoneInv /\ OpenedInv /\ RouteInv /\ CodeInv BY DEF DriverInv
<1>1. CASE OptionRun
  <2>1. DriverTypeInv' BY <1>0, <1>1 DEF DriverTypeInv, OptionRun, Next1, files
  <2>2. ScanInv'
    <3>1. /\ i \in Nat /\ i <= Len(argv) /\ argv[i] = FlagRun /\ i' = i + 1 /\ run'
          /\ UNCHANGED <<program, argv, inPath, outPath>>
          BY <1>0, <1>1 DEF DriverTypeInv, OptionRun, Next1, ThisArg
    <3>2. FlagRun \in Flags BY DEF Flags
    <3>3. ASSUME program = "qvm2wasm", PathFirst PROVE FALSE
          BY <1>0, <3>1, <3>2, <3>3, FlagsDiffer DEF ScanInv, Scanned, PathFirst
    <3>4. ASSUME program = "qvm2wasm", OutFirst PROVE FALSE
          BY <1>0, <3>1, <3>2, <3>4, FlagsDiffer DEF ScanInv, Scanned, OutFirst
    <3>5. ASSUME program = "qvm2wasm", RunFirst PROVE Scanned(2, NULL, NULL, TRUE)'
          BY <1>0, <3>1, <3>2, <3>5, FlagsDiffer DEF ScanInv, Scanned, RunFirst
    <3>6. QED BY <3>1, <3>3, <3>4, <3>5 DEF ScanInv, PathFirst, OutFirst, RunFirst
  <2>3. DoneInv' BY <1>0, <1>1 DEF DoneInv, PastArgs, OptionRun, files
  <2>4. OpenedInv' BY <1>0, <1>1 DEF OpenedInv, OptionRun, files
  <2>5. RouteInv' BY <1>0, <1>1 DEF RouteInv, OptionRun, Next1, At, files
  <2>6. CodeInv' BY <1>0, <1>1 DEF CodeInv, OptionRun
  <2>7. QED BY <2>1, <2>2, <2>3, <2>4, <2>5, <2>6 DEF DriverInv
<1>2. CASE OptionOut
  <2>1. DriverTypeInv' BY <1>0, <1>2 DEF DriverTypeInv, OptionOut, IsValue, files
  <2>2. ScanInv'
    <3>1. /\ i \in Nat /\ i < Len(argv) /\ argv[i] = FlagOut /\ i' = i + 2
          /\ outPath' = argv[i + 1] /\ UNCHANGED <<program, argv, inPath, run>>
          BY <1>0, <1>2 DEF DriverTypeInv, OptionOut, Next1, ThisArg, IsValue
    <3>2. FlagOut \in Flags BY DEF Flags
    <3>3. ASSUME program = "qvm2wasm", PathFirst PROVE Scanned(4, argv[1], argv[3], FALSE)'
          BY <1>0, <3>1, <3>2, <3>3, FlagsDiffer DEF ScanInv, Scanned, PathFirst
    <3>4. ASSUME program = "qvm2wasm", OutFirst PROVE Scanned(3, NULL, argv[2], FALSE)'
          BY <1>0, <3>1, <3>2, <3>4, FlagsDiffer DEF ScanInv, Scanned, OutFirst
    <3>5. ASSUME program = "qvm2wasm", RunFirst PROVE FALSE
          BY <1>0, <3>1, <3>2, <3>5, FlagsDiffer DEF ScanInv, Scanned, RunFirst
    <3>6. QED BY <3>1, <3>3, <3>4, <3>5 DEF ScanInv, PathFirst, OutFirst, RunFirst
  <2>3. DoneInv' BY <1>0, <1>2 DEF DriverTypeInv, DoneInv, PastArgs, OptionOut, files
  <2>4. OpenedInv' BY <1>0, <1>2 DEF OpenedInv, OptionOut, Next1, At, files
  <2>5. RouteInv' BY <1>0, <1>2 DEF RouteInv, OptionOut, Next1, At, files
  <2>6. CodeInv' BY <1>0, <1>2 DEF CodeInv, OptionOut, Next1, At
  <2>7. QED BY <2>1, <2>2, <2>3, <2>4, <2>5, <2>6 DEF DriverInv
<1>3. CASE OptionHelp
  <2>1. DriverTypeInv' BY <1>0, <1>3 DEF DriverTypeInv, OptionHelp, Ends, options, files
  <2>2. ScanInv' BY <1>0, <1>3, FlagsDiffer
                    DEF ScanInv, Scanned, PathFirst, OutFirst, RunFirst, OptionHelp, options
  <2>3. DoneInv' BY <1>0, <1>3 DEF DoneInv, PastArgs, OptionHelp, Ends, options, files
  <2>4. OpenedInv' BY <1>0, <1>3 DEF OpenedInv, OptionHelp, Ends, options, files
  <2>5. RouteInv' BY <1>0, <1>3 DEF RouteInv, OptionHelp, Next1, At, Ends, files
  <2>6. CodeInv' BY <1>0, <1>3
                    DEF DriverTypeInv, CodeInv, HelpAsked, OptionHelp, Next1, ThisArg, options
  <2>7. QED BY <2>1, <2>2, <2>3, <2>4, <2>5, <2>6 DEF DriverInv
<1>4. CASE InPath
  <2>1. DriverTypeInv' BY <1>0, <1>4 DEF DriverTypeInv, InPath, Next1, files
  <2>2. ScanInv' BY <1>0, <1>4, FlagsDiffer
                    DEF DriverTypeInv, ScanInv, Scanned, PathFirst, OutFirst, RunFirst,
                        InPath, IsValue, Plain, ThisArg
  <2>3. DoneInv' BY <1>0, <1>4 DEF DoneInv, PastArgs, InPath, Next1, files
  <2>4. OpenedInv' BY <1>0, <1>4 DEF OpenedInv, InPath, Next1, At, files, RouteInv
  <2>5. RouteInv' BY <1>0, <1>4 DEF RouteInv, InPath, Next1, At, files
  <2>6. CodeInv' BY <1>0, <1>4 DEF CodeInv, InPath, Next1, At
  <2>7. QED BY <2>1, <2>2, <2>3, <2>4, <2>5, <2>6 DEF DriverInv
<1>5. CASE Remaining
  <2>1. DriverTypeInv' BY <1>0, <1>5
                          DEF DriverTypeInv, Remaining, Next1, At, Ends, GoOn, options,
                              files
  <2>2. ScanInv' BY <1>0, <1>5
                    DEF ScanInv, Scanned, PathFirst, OutFirst, RunFirst, Remaining, options
  <2>3. DoneInv' BY <1>0, <1>5 DEF DoneInv, PastArgs, Remaining, Next1, Ends, options, files
  <2>4. OpenedInv' BY <1>0, <1>5 DEF OpenedInv, Remaining, Next1, At, Ends, GoOn, options, files
  <2>5. RouteInv' BY <1>0, <1>5 DEF RouteInv, Remaining, Next1, At, Ends, GoOn, files
  <2>6. CodeInv' BY <1>0, <1>5 DEF CodeInv, Remaining, Next1, At, Ends, GoOn, files, RouteInv
  <2>7. QED BY <2>1, <2>2, <2>3, <2>4, <2>5, <2>6 DEF DriverInv
<1>6. CASE ArgsOver
  <2>1. DriverTypeInv' BY <1>0, <1>6 DEF DriverTypeInv, ArgsOver, At, Ends, GoOn, options, files
  <2>2. ScanInv' BY <1>0, <1>6
                    DEF ScanInv, Scanned, PathFirst, OutFirst, RunFirst, ArgsOver, options
  <2>3. DoneInv' BY <1>0, <1>6 DEF DoneInv, PastArgs, ArgsOver, Ends, options, files
  <2>4. OpenedInv' BY <1>0, <1>6 DEF OpenedInv, ArgsOver, At, Ends, GoOn, options, files
  <2>5. RouteInv' BY <1>0, <1>6 DEF RouteInv, ArgsOver, At, Ends, GoOn, files
  <2>6. CodeInv' BY <1>0, <1>6 DEF CodeInv, ArgsOver, At, GoOn, options
  <2>7. QED BY <2>1, <2>2, <2>3, <2>4, <2>5, <2>6 DEF DriverInv
<1>7. CASE HostArgs
  <2>1. DriverTypeInv' BY <1>0, <1>7 DEF DriverTypeInv, HostArgs, At, Ends, GoOn, files
  <2>2. ScanInv' BY <1>0, <1>7 DEF ScanInv, HostArgs
  <2>3. DoneInv' BY <1>0, <1>7 DEF DoneInv, PastArgs, HostArgs, Ends, files
  <2>4. OpenedInv' BY <1>0, <1>7 DEF OpenedInv, HostArgs, At, Ends, GoOn, files, RouteInv
  <2>5. RouteInv' BY <1>0, <1>7 DEF RouteInv, HostArgs, At, Ends, GoOn, files
  <2>6. CodeInv' BY <1>0, <1>7 DEF CodeInv, HostArgs
  <2>7. QED BY <2>1, <2>2, <2>3, <2>4, <2>5, <2>6 DEF DriverInv
<1>8. CASE LoadFails
  <2>1. DriverTypeInv' BY <1>0, <1>8 DEF DriverTypeInv, LoadFails, Ends, options
  <2>2. ScanInv' BY <1>0, <1>8
                    DEF ScanInv, Scanned, PathFirst, OutFirst, RunFirst, LoadFails, options
  <2>3. DoneInv' BY <1>0, <1>8 DEF DoneInv, PastArgs, LoadFails, options
  <2>4. OpenedInv' BY <1>0, <1>8 DEF OpenedInv, LoadFails, Ends, options
  <2>5. RouteInv' BY <1>0, <1>8 DEF RouteInv, LoadFails, Ends
  <2>6. CodeInv' BY <1>0, <1>8 DEF CodeInv, LoadFails, Ends, RouteInv
  <2>7. QED BY <2>1, <2>2, <2>3, <2>4, <2>5, <2>6 DEF DriverInv
<1>9. CASE OpenImage
  <2>1. DriverTypeInv' BY <1>0, <1>9 DEF DriverTypeInv, OpenImage, At, GoOn, options
  <2>2. ScanInv' BY <1>0, <1>9
                    DEF ScanInv, Scanned, PathFirst, OutFirst, RunFirst, OpenImage, options
  <2>3. DoneInv' BY <1>0, <1>9 DEF DoneInv, PastArgs, OpenImage, At, options
  <2>4. OpenedInv' BY <1>0, <1>9 DEF OpenedInv, OpenImage, At, GoOn, options
  <2>5. RouteInv' BY <1>0, <1>9 DEF RouteInv, OpenImage, At, GoOn
  <2>6. CodeInv' BY <1>0, <1>9 DEF CodeInv, OpenImage, At, GoOn
  <2>7. QED BY <2>1, <2>2, <2>3, <2>4, <2>5, <2>6 DEF DriverInv
<1>10. CASE SizeImage
  <2>1. DriverTypeInv' BY <1>0, <1>10 DEF DriverTypeInv, SizeImage, At, GoOn, options, files
  <2>2. ScanInv' BY <1>0, <1>10
                    DEF ScanInv, Scanned, PathFirst, OutFirst, RunFirst, SizeImage, options
  <2>3. DoneInv' BY <1>0, <1>10 DEF DoneInv, PastArgs, SizeImage, At, options
  <2>4. OpenedInv' BY <1>0, <1>10 DEF OpenedInv, SizeImage, At, GoOn, options, files
  <2>5. RouteInv' BY <1>0, <1>10 DEF RouteInv, SizeImage, At, GoOn, files
  <2>6. CodeInv' BY <1>0, <1>10 DEF CodeInv, SizeImage, At, GoOn
  <2>7. QED BY <2>1, <2>2, <2>3, <2>4, <2>5, <2>6 DEF DriverInv
<1>11. CASE AllocImage
  <2>1. DriverTypeInv' BY <1>0, <1>11 DEF DriverTypeInv, AllocImage, At, GoOn, options
  <2>2. ScanInv' BY <1>0, <1>11
                    DEF ScanInv, Scanned, PathFirst, OutFirst, RunFirst, AllocImage, options
  <2>3. DoneInv' BY <1>0, <1>11 DEF DoneInv, PastArgs, AllocImage, At, options
  <2>4. OpenedInv' BY <1>0, <1>11 DEF OpenedInv, AllocImage, At, GoOn, options
  <2>5. RouteInv' BY <1>0, <1>11 DEF RouteInv, AllocImage, At, GoOn
  <2>6. CodeInv' BY <1>0, <1>11 DEF CodeInv, AllocImage, At, GoOn
  <2>7. QED BY <2>1, <2>2, <2>3, <2>4, <2>5, <2>6 DEF DriverInv
<1>12. CASE ReadImage
  <2>1. DriverTypeInv' BY <1>0, <1>12 DEF DriverTypeInv, ReadImage, Loaded, At, GoOn, options
  <2>2. ScanInv' BY <1>0, <1>12
                    DEF ScanInv, Scanned, PathFirst, OutFirst, RunFirst, ReadImage, options
  <2>3. DoneInv' BY <1>0, <1>12 DEF DoneInv, PastArgs, ReadImage, At, options
  <2>4. OpenedInv' BY <1>0, <1>12 DEF OpenedInv, ReadImage, Loaded, At, GoOn, options
  <2>5. RouteInv' BY <1>0, <1>12
                     DEF DriverTypeInv, RouteInv, ReadImage, Loaded, At, GoOn, options
  <2>6. CodeInv' BY <1>0, <1>12 DEF CodeInv, ReadImage, At, GoOn
  <2>7. QED BY <2>1, <2>2, <2>3, <2>4, <2>5, <2>6 DEF DriverInv
<1>13. CASE VM_Create
  <2>1. DriverTypeInv' BY <1>0, <1>13 DEF DriverTypeInv, VM_Create, At, Ends, GoOn, options
  <2>2. ScanInv' BY <1>0, <1>13
                    DEF ScanInv, Scanned, PathFirst, OutFirst, RunFirst, VM_Create, options
  <2>3. DoneInv' BY <1>0, <1>13 DEF DoneInv, PastArgs, VM_Create, At, options
  <2>4. OpenedInv' BY <1>0, <1>13, AppendSecond
                      DEF OpenedInv, VM_Create, At, Ends, GoOn, options, RouteInv
  <2>5. RouteInv' BY <1>0, <1>13 DEF RouteInv, VM_Create, At, Ends, GoOn, options
  <2>6. CodeInv' BY <1>0, <1>13 DEF CodeInv, VM_Create, At, Ends, GoOn
  <2>7. QED BY <2>1, <2>2, <2>3, <2>4, <2>5, <2>6 DEF DriverInv
<1>14. CASE VM_Call
  <2>1. DriverTypeInv' BY <1>0, <1>14 DEF DriverTypeInv, VM_Call, At, Ends, GoOn, options
  <2>2. ScanInv' BY <1>0, <1>14
                    DEF ScanInv, Scanned, PathFirst, OutFirst, RunFirst, VM_Call, options
  <2>3. DoneInv' BY <1>0, <1>14 DEF DoneInv, PastArgs, VM_Call, At, options
  <2>4. OpenedInv' BY <1>0, <1>14 DEF OpenedInv, VM_Call, At, Ends, GoOn, options
  <2>5. RouteInv' BY <1>0, <1>14 DEF RouteInv, ArgsFrom, VM_Call, At, Ends, GoOn, options
  <2>6. CodeInv' BY <1>0, <1>14 DEF CodeInv, VM_Call, At, Ends, GoOn
  <2>7. QED BY <2>1, <2>2, <2>3, <2>4, <2>5, <2>6 DEF DriverInv
<1>15. CASE FreeAll
  <2>1. DriverTypeInv' BY <1>0, <1>15 DEF DriverTypeInv, FreeAll, Ends, options
  <2>2. ScanInv' BY <1>0, <1>15
                    DEF ScanInv, Scanned, PathFirst, OutFirst, RunFirst, FreeAll, options
  <2>3. DoneInv' BY <1>0, <1>15 DEF DoneInv, PastArgs, FreeAll, At, options
  <2>4. OpenedInv' BY <1>0, <1>15 DEF OpenedInv, FreeAll, Ends, options
  <2>5. RouteInv' BY <1>0, <1>15 DEF RouteInv, ArgsFrom, FreeAll, Ends, options
  <2>6. CodeInv' BY <1>0, <1>15 DEF CodeInv, FreeAll, At, options, RouteInv
  <2>7. QED BY <2>1, <2>2, <2>3, <2>4, <2>5, <2>6 DEF DriverInv
<1>16. CASE Translate
  <2>1. DriverTypeInv' BY <1>0, <1>16 DEF DriverTypeInv, Translate, At, Ends, GoOn
  <2>2. ScanInv' BY <1>0, <1>16
                    DEF DriverTypeInv, ScanInv, Scanned, PathFirst, OutFirst, RunFirst,
                        Translate, At, RouteInv, DoneInv, PastArgs, Out
  <2>3. DoneInv' BY <1>0, <1>16 DEF DoneInv, PastArgs, Translate, At
  <2>4. OpenedInv' BY <1>0, <1>16 DEF OpenedInv, Translate, At, Ends, GoOn, RouteInv
  <2>5. RouteInv' BY <1>0, <1>16 DEF RouteInv, Translate, At, Ends, GoOn
  <2>6. CodeInv' BY <1>0, <1>16 DEF CodeInv, Translate, At, Ends, GoOn, RouteInv
  <2>7. QED BY <2>1, <2>2, <2>3, <2>4, <2>5, <2>6 DEF DriverInv
<1>17. CASE OpenOut
  <2>1. DriverTypeInv' BY <1>0, <1>17 DEF DriverTypeInv, OpenOut, At, Ends, GoOn, options
  <2>2. ScanInv' BY <1>0, <1>17
                    DEF ScanInv, Scanned, PathFirst, OutFirst, RunFirst, OpenOut, options
  <2>3. DoneInv' BY <1>0, <1>17 DEF DoneInv, PastArgs, OpenOut, At, options
  <2>4. OpenedInv' BY <1>0, <1>17, AppendSecond
                      DEF OpenedInv, OpenOut, At, Ends, GoOn, options, RouteInv
  <2>5. RouteInv' BY <1>0, <1>17 DEF RouteInv, OpenOut, At, Ends, GoOn, options
  <2>6. CodeInv' BY <1>0, <1>17 DEF CodeInv, OpenOut, At, Ends, GoOn, RouteInv
  <2>7. QED BY <2>1, <2>2, <2>3, <2>4, <2>5, <2>6 DEF DriverInv
<1>18. CASE WriteShort
  <2>1. DriverTypeInv' BY <1>0, <1>18 DEF DriverTypeInv, WriteShort, Ends, options
  <2>2. ScanInv' BY <1>0, <1>18
                    DEF ScanInv, Scanned, PathFirst, OutFirst, RunFirst, WriteShort, options
  <2>3. DoneInv' BY <1>0, <1>18 DEF DoneInv, PastArgs, WriteShort, At, options
  <2>4. OpenedInv' BY <1>0, <1>18 DEF OpenedInv, WriteShort, Ends, options
  <2>5. RouteInv' BY <1>0, <1>18 DEF RouteInv, WriteShort, At, Ends
  <2>6. CodeInv' BY <1>0, <1>18 DEF CodeInv, WriteShort, At, Ends, RouteInv
  <2>7. QED BY <2>1, <2>2, <2>3, <2>4, <2>5, <2>6 DEF DriverInv
<1>19. CASE WriteAll
  <2>1. DriverTypeInv' BY <1>0, <1>19 DEF DriverTypeInv, WriteAll, At, GoOn, options, files
  <2>2. ScanInv' BY <1>0, <1>19
                    DEF ScanInv, Scanned, PathFirst, OutFirst, RunFirst, WriteAll, options
  <2>3. DoneInv' BY <1>0, <1>19 DEF DoneInv, PastArgs, WriteAll, At, options
  <2>4. OpenedInv' BY <1>0, <1>19 DEF OpenedInv, WriteAll, At, GoOn, options, files
  <2>5. RouteInv' BY <1>0, <1>19 DEF RouteInv, WriteAll, At, GoOn, options, files
  <2>6. CodeInv' BY <1>0, <1>19 DEF CodeInv, WriteAll, At, GoOn
  <2>7. QED BY <2>1, <2>2, <2>3, <2>4, <2>5, <2>6 DEF DriverInv
<1>20. CASE CloseOut
  <2>1. DriverTypeInv' BY <1>0, <1>20 DEF DriverTypeInv, CloseOut, Ends, options
  <2>2. ScanInv' BY <1>0, <1>20
                    DEF ScanInv, Scanned, PathFirst, OutFirst, RunFirst, CloseOut, options
  <2>3. DoneInv' BY <1>0, <1>20 DEF DoneInv, PastArgs, CloseOut, At, options
  <2>4. OpenedInv' BY <1>0, <1>20 DEF OpenedInv, CloseOut, At, Ends, options
  <2>5. RouteInv' BY <1>0, <1>20 DEF RouteInv, CloseOut, At, Ends, options
  <2>6. CodeInv' BY <1>0, <1>20 DEF CodeInv, CloseOut, Ends
  <2>7. QED BY <2>1, <2>2, <2>3, <2>4, <2>5, <2>6 DEF DriverInv
<1>21. CASE EnginePrepares
  <2>1. DriverTypeInv' BY <1>0, <1>21 DEF DriverTypeInv, EnginePrepares, At, Ends, GoOn, options
  <2>2. ScanInv' BY <1>0, <1>21
                    DEF ScanInv, Scanned, PathFirst, OutFirst, RunFirst, EnginePrepares,
                        options
  <2>3. DoneInv' BY <1>0, <1>21 DEF DoneInv, PastArgs, EnginePrepares, At, options
  <2>4. OpenedInv' BY <1>0, <1>21 DEF OpenedInv, EnginePrepares, At, Ends, GoOn, options
  <2>5. RouteInv' BY <1>0, <1>21 DEF RouteInv, EnginePrepares, At, Ends, GoOn, options
  <2>6. CodeInv' BY <1>0, <1>21 DEF CodeInv, EnginePrepares, At, Ends, GoOn
  <2>7. QED BY <2>1, <2>2, <2>3, <2>4, <2>5, <2>6 DEF DriverInv
<1>22. CASE EngineCalls
  <2>1. DriverTypeInv' BY <1>0, <1>22
                          DEF DriverTypeInv, EngineCalls, At, Ends, GoOn, options, files
  <2>2. ScanInv' BY <1>0, <1>22
                    DEF ScanInv, Scanned, PathFirst, OutFirst, RunFirst, EngineCalls,
                        options
  <2>3. DoneInv' BY <1>0, <1>22 DEF DoneInv, PastArgs, EngineCalls, At, options
  <2>4. OpenedInv' BY <1>0, <1>22 DEF OpenedInv, EngineCalls, At, Ends, GoOn, options, files
  <2>5. RouteInv' BY <1>0, <1>22
                     DEF RouteInv, ArgsFrom, EngineCalls, At, Ends, GoOn, options, files
  <2>6. CodeInv' BY <1>0, <1>22 DEF CodeInv, EngineCalls, At, Ends, GoOn
  <2>7. QED BY <2>1, <2>2, <2>3, <2>4, <2>5, <2>6 DEF DriverInv
<1>23. QED BY <1>1, <1>2, <1>3, <1>4, <1>5, <1>6, <1>7, <1>8, <1>9, <1>10, <1>11, <1>12,
              <1>13, <1>14, <1>15, <1>16, <1>17, <1>18, <1>19, <1>20, <1>21, <1>22 DEF Next

-----------------------------------------------------------------------------
(* Every step of the program is a step of the driver, or none.             *)

LEMMA StepOfDriver == Qvm2wasmNext => Next \/ UNCHANGED vars
BY Zenon DEF Qvm2wasmNext, Main, QVM2WASM_Compile

\* A step of the compiler leaves the driver alone.
LEMMA DriverStutters == DriverInv /\ UNCHANGED vars => DriverInv'
<1> SUFFICES ASSUME DriverInv, UNCHANGED vars PROVE DriverInv' OBVIOUS
<1>1. DriverTypeInv' /\ ScanInv'
      BY DEF DriverInv, DriverTypeInv, ScanInv, Scanned, PathFirst, OutFirst, RunFirst, vars
<1>2. DoneInv' /\ OpenedInv' BY DEF DriverInv, DoneInv, PastArgs, OpenedInv, vars
<1>3. RouteInv' /\ CodeInv' BY DEF DriverInv, RouteInv, ArgsFrom, CodeInv, HelpAsked, vars
<1>4. QED BY <1>1, <1>2, <1>3 DEF DriverInv

(***************************************************************************)
(* main() of src/main.c and of example/host.c: at every stage the options, *)
(* the paths and the files opened are what the arguments read so far say.  *)
(***************************************************************************)
THEOREM DriverRight == Qvm2wasmSpec => []DriverInv
<1>1. Qvm2wasmInit => DriverInv BY DriverInitially DEF Qvm2wasmInit
<1>2. DriverInv /\ [Qvm2wasmNext]_<<vars, compileVars>> => DriverInv'
  <2>1. [Qvm2wasmNext]_<<vars, compileVars>> => Next \/ UNCHANGED vars BY StepOfDriver, Zenon
  <2>2. QED BY <2>1, DriverKeeps, DriverStutters, Zenon
<1>3. QED BY <1>1, <1>2, PTL DEF Qvm2wasmSpec

(***************************************************************************)
(* vmMain receives exactly the arguments behind the image, in order and    *)
(* padded with NULL, from host and from qvm2wasm -r (when the first of them*)
(* is no option), and the image is the file named on the command line: main.c*)
(* counts from i, host.c from 2, and neither is off by one, for any number of*)
(* arguments and any answers of the operating system.                      *)
(***************************************************************************)
THEOREM ArgumentsArrive == Qvm2wasmSpec => []ArgumentsReachVmMain
<1>1. DriverInv => ArgumentsReachVmMain
  <2> SUFFICES ASSUME DriverInv, passed # <<>> PROVE ArgumentsReachVmMain
      BY DEF ArgumentsReachVmMain
  <2>1. DriverTypeInv /\ ScanInv /\ DoneInv /\ OpenedInv /\ RouteInv BY DEF DriverInv
  <2>2. ASSUME program = "host" PROVE opened[1] = argv[1] /\ passed = Rest(1)
    <3>1. passed = ArgsFrom(2) /\ inPath = argv[1] /\ opened[1] = inPath
          BY <2>1, <2>2 DEF RouteInv, DoneInv, PastArgs, OpenedInv
    <3>2. ArgsFrom(2) = Rest(1)
      <4>1. \A n \in 1 .. MaxVmArgs : 2 + n - 1 = n + 1 BY DriverAssumption
      <4>2. QED BY <4>1, Zenon DEF ArgsFrom, Rest
    <3>3. QED BY <3>1, <3>2
  <2>3. ASSUME program = "qvm2wasm", RunFirst PROVE opened[1] = argv[2] /\ passed = Rest(2)
    <3>1. inPath # NULL /\ passed = ArgsFrom(i) /\ opened[1] = inPath
          BY <2>1, <2>3 DEF RouteInv, DoneInv, PastArgs, OpenedInv
    <3>2. i = 3 /\ inPath = argv[2] BY <2>1, <2>3, <3>1 DEF ScanInv, Scanned
    <3>3. ArgsFrom(3) = Rest(2)
      <4>1. \A n \in 1 .. MaxVmArgs : 3 + n - 1 = n + 2 BY DriverAssumption
      <4>2. QED BY <4>1, Zenon DEF ArgsFrom, Rest
    <3>4. QED BY <3>1, <3>2, <3>3
  <2>4. QED BY <2>2, <2>3 DEF ArgumentsReachVmMain, RunFirst
<1>2. QED BY <1>1, DriverRight, PTL

(***************************************************************************)
(* A translation exits with 0 exactly when it wrote and closed the module: *)
(* no failing fopen, malloc, fread, fwrite or translation is reported as a *)
(* success, and the files it opened are those of the command line, in either*)
(* order of the path and -o.                                               *)
(***************************************************************************)
THEOREM ExitCodeTells == Qvm2wasmSpec => []ExitTells
<1>1. DriverInv => ExitTells
  <2> SUFFICES ASSUME DriverInv, how = "return", ~ run, program = "qvm2wasm", inPath # NULL
               PROVE  ExitTells
      BY DEF ExitTells
  <2>1. ScanInv /\ DoneInv /\ OpenedInv /\ CodeInv BY DEF DriverInv
  <2>2. HelpAsked \/ (code = 0 <=> wrote) BY <2>1 DEF CodeInv
  <2>3. ASSUME wrote PROVE opened = <<inPath, outPath>> /\ i > Len(argv)
        BY <2>1, <2>3 DEF OpenedInv, DoneInv, PastArgs
  <2>4. ASSUME wrote, PathFirst PROVE opened = <<argv[1], argv[3]>>
        BY <2>1, <2>3, <2>4 DEF ScanInv, Scanned, PathFirst
  <2>5. ASSUME wrote, OutFirst PROVE opened = <<argv[3], argv[2]>>
        BY <2>1, <2>3, <2>5 DEF ScanInv, Scanned, OutFirst
  <2>6. wrote => Len(opened) = 2 /\ opened[1] = inPath BY <2>3
  <2>7. QED BY <2>2, <2>4, <2>5, <2>6 DEF ExitTells, HelpAsked, PathFirst, OutFirst
<1>2. QED BY <1>1, DriverRight, PTL

-----------------------------------------------------------------------------
(* Sequences of sequences joined into one.                                 *)

LEMMA EmptyInFront == ASSUME NEW D, NEW s \in Seq(D) PROVE <<>> \o s = s
<1> DEFINE e == <<>>
<1>1. e \in Seq(D) /\ Len(e) = 0 OBVIOUS
<1> HIDE DEF e
<1>2. e \o s \in Seq(D) /\ Len(e \o s) = Len(s) BY <1>1
<1>3. \A k \in 1 .. Len(s) : (e \o s)[k] = s[k] BY <1>1
<1> DEFINE t == e \o s
<1> HIDE DEF t
<1>4. t \in Seq(D) /\ Len(t) = Len(s) /\ \A k \in 1 .. Len(s) : t[k] = s[k] BY <1>2, <1>3 DEF t
<1>5. t = [k \in 1 .. Len(t) |-> t[k]] /\ s = [k \in 1 .. Len(s) |-> s[k]] BY <1>4
<1>6. t = s BY <1>4, <1>5
<1>7. QED BY <1>6 DEF t, e

\* FlattenSeq joins one sequence after the other.
Joins(n, D, ss, g) ==
  g \in [0 .. n -> Seq(D)] /\ g[0] = <<>> /\ \A k \in 0 .. n - 1 : g[k + 1] = g[k] \o ss[k + 1]

LEMMA Flattened ==
  ASSUME NEW D, NEW n \in Nat, NEW ss \in [1 .. n -> Seq(D)]
  PROVE  \E g : Joins(n, D, ss, g) /\ FlattenSeq(ss) = g[n]
<1>1. ss \in Seq(Seq(D)) /\ Len(ss) = n OBVIOUS
<1> DEFINE F == [k \in Nat |-> [s \in Seq(D) |-> IF k < n THEN s \o ss[k + 1] ELSE s]]
<1>2. F \in [Nat -> [Seq(D) -> Seq(D)]]
  <2> SUFFICES ASSUME NEW k \in Nat, NEW s \in Seq(D), k < n PROVE s \o ss[k + 1] \in Seq(D)
      OBVIOUS
  <2>1. k + 1 \in 1 .. n OBVIOUS
  <2>2. ss[k + 1] \in Seq(D) BY <2>1
  <2>3. QED BY <2>2
<1>3. \A k \in 0 .. n - 1, s \in Seq(D) : F[k][s] = s \o ss[k + 1]
  <2>1. \A k \in 0 .. n - 1 : k \in Nat /\ k < n OBVIOUS
  <2>2. QED BY <2>1
<1> HIDE DEF F
<1>4. <<>> \in Seq(D) OBVIOUS
<1>5. PICK g : Iterates(n, Seq(D), <<>>, F, g) BY <1>2, <1>4, RecursionIn DEF Iterable
<1>6. Joins(n, D, ss, g)
  <2>1. g \in [0 .. n -> Seq(D)] /\ g[0] = <<>> BY <1>5 DEF Iterates
  <2>2. ASSUME NEW k \in 0 .. n - 1 PROVE g[k + 1] = g[k] \o ss[k + 1]
    <3>1. k \in 0 .. n OBVIOUS
    <3>2. g[k] \in Seq(D) BY <2>1, <3>1
    <3>3. g[k + 1] = F[k][g[k]] BY <1>5 DEF Iterates
    <3>4. QED BY <1>3, <3>2, <3>3
  <2>3. QED BY <2>1, <2>2 DEF Joins
<1>7. CASE n = 0
  <2>1. FlattenSeq(ss) = ss BY <1>1, <1>7, Zenon DEF FlattenSeq
  <2>2. ss = <<>> BY <1>1, <1>7
  <2>3. QED BY <1>6, <1>7, <2>1, <2>2 DEF Joins
<1>8. CASE n # 0
  <2> DEFINE Flat(h) == h = [k \in 1 .. n |-> IF k = 1 THEN ss[k] ELSE h[k - 1] \o ss[k]]
             h == CHOOSE h : Flat(h)
             f == [k \in 1 .. n |-> g[k]]
  <2>1. FlattenSeq(ss) = h[n] BY <1>1, <1>8 DEF FlattenSeq
  <2>2. g[1] = ss[1]
    <3>1. 0 \in 0 .. n - 1 /\ 0 + 1 = 1 /\ 1 \in 1 .. n BY <1>8
    <3>2. g[0 + 1] = g[0] \o ss[0 + 1] /\ g[0] = <<>> BY <1>6, <3>1 DEF Joins
    <3>3. ss[1] \in Seq(D) BY <3>1
    <3>4. QED BY <3>1, <3>2, <3>3, EmptyInFront
  <2>3. Flat(f)
    <3>1. ASSUME NEW k \in 1 .. n, k # 1 PROVE f[k] = f[k - 1] \o ss[k]
      <4>1. k - 1 \in 0 .. n - 1 /\ k - 1 \in 1 .. n /\ (k - 1) + 1 = k BY <3>1
      <4>2. g[(k - 1) + 1] = g[k - 1] \o ss[(k - 1) + 1] BY <1>6, <4>1 DEF Joins
      <4>3. QED BY <4>1, <4>2
    <3>2. QED BY <2>2, <3>1
  <2> HIDE DEF f
  <2>4. Flat(h) BY <2>3
  <2> HIDE DEF h
  <2> DEFINE S == {k \in 0 .. n - 1 : h[k + 1] = g[k + 1]}
  <2>5. 0 \in S BY <1>8, <2>2, <2>4
  <2>6. ASSUME NEW k \in 0 .. (n - 1) - 1, k \in S PROVE k + 1 \in S
    <3>1. k + 1 \in 0 .. n - 1 /\ (k + 1) + 1 \in 1 .. n /\ (k + 1) + 1 # 1
          /\ ((k + 1) + 1) - 1 = k + 1
          OBVIOUS
    <3>2. h[(k + 1) + 1] = h[k + 1] \o ss[(k + 1) + 1] BY <2>4, <3>1
    <3>3. g[(k + 1) + 1] = g[k + 1] \o ss[(k + 1) + 1] BY <1>6, <3>1 DEF Joins
    <3>4. h[k + 1] = g[k + 1] BY <2>6
    <3>5. QED BY <3>1, <3>2, <3>3, <3>4
  <2> HIDE DEF S
  <2>7. n - 1 \in Nat BY <1>8
  <2>8. 0 .. n - 1 \subseteq S BY <2>5, <2>6, <2>7, InductionTo
  <2>9. n - 1 \in S /\ (n - 1) + 1 = n BY <2>7, <2>8
  <2>10. h[n] = g[n] BY <2>9 DEF S
  <2>11. QED BY <1>6, <2>1, <2>10
<1>9. QED BY <1>7, <1>8

LEMMA FlattenedIn ==
  ASSUME NEW D, NEW n \in Nat, NEW ss \in [1 .. n -> Seq(D)]
  PROVE  FlattenSeq(ss) \in Seq(D)
<1>1. PICK g : Joins(n, D, ss, g) /\ FlattenSeq(ss) = g[n] BY Flattened
<1>2. g[n] \in Seq(D) BY <1>1 DEF Joins
<1>3. QED BY <1>1, <1>2

-----------------------------------------------------------------------------
(* What the buffers may hold, and the words that EmitModule queues.        *)

\* A byte of a section or a body, the length in front of one, or a fixed tag.
Token == ({"byte"} \X Int \X Nat \X Nat) \cup ({"length"} \X Nat) \cup {<<"magic">>, <<"id">>}
ContentWord == [to : {"sec", "body"}, what : Seq(Token)]
ControlWord == [to : {"reset", "section", "frame"}, what : {<<"sec">>, <<"body">>}]
QueuedWord == ContentWord \cup ControlWord

LEMMA FunctionIsSequence ==
  ASSUME NEW D, NEW n \in Nat, NEW s \in [1 .. n -> D]
  PROVE  s \in Seq(D) /\ Len(s) = n
OBVIOUS

\* All queued words are of these kinds.
LEMMA ContentTyped ==
  ASSUME NEW name \in Int, NEW sizes \in Seq(Nat \ {0})
  PROVE  /\ Content(name, sizes) \in [1 .. Len(sizes) -> Seq(Token)]
         /\ Content(name, sizes) \in Seq(Seq(Token)) /\ Len(Content(name, sizes)) = Len(sizes)
<1>1. ASSUME NEW j \in 1 .. Len(sizes)
      PROVE  [b \in 1 .. sizes[j] |-> <<"byte", name, j, b>>] \in Seq(Token)
  <2>1. sizes[j] \in Nat /\ j \in Nat OBVIOUS
  <2>2. \A b \in 1 .. sizes[j] : <<"byte", name, j, b>> \in Token BY <2>1 DEF Token
  <2> HIDE DEF Token
  <2> DEFINE n == sizes[j]
             s == [b \in 1 .. n |-> <<"byte", name, j, b>>]
  <2>3. s \in [1 .. n -> Token] /\ n \in Nat BY <2>1, <2>2
  <2> HIDE DEF n, s
  <2>4. s \in Seq(Token) BY <2>3, FunctionIsSequence
  <2>5. QED BY <2>4 DEF n, s
<1>2. Content(name, sizes) \in [1 .. Len(sizes) -> Seq(Token)] BY <1>1, Zenon DEF Content
<1>3. Len(sizes) \in Nat OBVIOUS
<1>4. QED BY <1>2, <1>3, FunctionIsSequence

LEMMA WordsTyped ==
  ASSUME NEW name \in Int, NEW sizes \in Seq(Nat \ {0}), NEW buf \in {"sec", "body"}
  PROVE  /\ EmitTo(buf, Content(name, sizes)) \in Seq(QueuedWord)
         /\ \A word \in {"reset", "section", "frame"} : Control(word, buf) \in Seq(QueuedWord)
<1> DEFINE c == Content(name, sizes)
<1>1. c \in Seq(Seq(Token)) /\ Len(c) \in Nat BY ContentTyped
<1> HIDE DEF c
<1>2. \A j \in 1 .. Len(c) : [to |-> buf, what |-> c[j]] \in QueuedWord
      BY <1>1 DEF QueuedWord, ContentWord
<1>3. EmitTo(buf, c) \in Seq(QueuedWord) BY <1>1, <1>2 DEF EmitTo
<1>4. ASSUME NEW word \in {"reset", "section", "frame"} PROVE Control(word, buf) \in Seq(QueuedWord)
  <2>1. [to |-> word, what |-> <<buf>>] \in QueuedWord BY DEF QueuedWord, ControlWord
  <2>2. QED BY <2>1 DEF Control
<1>5. QED BY <1>3, <1>4 DEF c

LEMMA SectionTyped ==
  ASSUME NEW name \in Int, NEW sizes \in Seq(Nat \ {0})
  PROVE  FillSection(name, sizes) \in Seq(QueuedWord)
<1>1. "sec" \in {"sec", "body"} OBVIOUS
<1>2. /\ EmitTo("sec", Content(name, sizes)) \in Seq(QueuedWord)
      /\ Control("reset", "sec") \in Seq(QueuedWord) /\ Control("section", "sec") \in Seq(QueuedWord)
      BY <1>1, WordsTyped
<1>3. QED BY <1>2 DEF FillSection

LEMMA BodyTyped == ASSUME NEW f \in 1 .. Len(Bodies) PROVE FillBody(f) \in Seq(QueuedWord)
<1>1. -f \in Int /\ Bodies[f] \in Seq(Nat \ {0}) /\ "body" \in {"sec", "body"}
      BY SectionsAssumption
<1>2. /\ EmitTo("body", Content(-f, Bodies[f])) \in Seq(QueuedWord)
      /\ Control("reset", "body") \in Seq(QueuedWord) /\ Control("frame", "body") \in Seq(QueuedWord)
      BY <1>1, WordsTyped
<1>3. QED BY <1>2 DEF FillBody

LEMMA EmitModuleTyped == EmitModule \in Seq(QueuedWord)
<1> DEFINE ss == [s \in 1 .. Len(Sections) |-> FillSection(s, Sections[s])]
           bs == [f \in 1 .. Len(Bodies) |-> FillBody(f)]
<1>1. FlattenSeq(ss) \in Seq(QueuedWord)
  <2>1. \A s \in 1 .. Len(Sections) : s \in Int /\ Sections[s] \in Seq(Nat \ {0})
        BY SectionsAssumption
  <2>2. ss \in [1 .. Len(Sections) -> Seq(QueuedWord)] BY <2>1, SectionTyped
  <2>3. Len(Sections) \in Nat BY SectionsAssumption
  <2> HIDE DEF ss
  <2>4. QED BY <2>2, <2>3, FlattenedIn
<1>2. FlattenSeq(bs) \in Seq(QueuedWord)
  <2>1. bs \in [1 .. Len(Bodies) -> Seq(QueuedWord)] BY BodyTyped
  <2>2. Len(Bodies) \in Nat BY SectionsAssumption
  <2> HIDE DEF bs
  <2>3. QED BY <2>1, <2>2, FlattenedIn
<1>3. Control("reset", "sec") \in Seq(QueuedWord) /\ Control("section", "sec") \in Seq(QueuedWord)
  <2>1. <<>> \in Seq(Nat \ {0}) /\ 0 \in Int /\ "sec" \in {"sec", "body"} OBVIOUS
  <2>2. QED BY <2>1, WordsTyped
<1>4. (IF DataSection = <<>> THEN <<>> ELSE FillSection(0, DataSection)) \in Seq(QueuedWord)
  <2>1. FillSection(0, DataSection) \in Seq(QueuedWord) BY SectionsAssumption, SectionTyped
  <2>2. QED BY <2>1
<1> DEFINE ds == IF DataSection = <<>> THEN <<>> ELSE FillSection(0, DataSection)
<1>5. EmitModule = FlattenSeq(ss) \o Control("reset", "sec") \o FlattenSeq(bs)
                     \o Control("section", "sec") \o ds
      BY Zenon DEF EmitModule
<1> HIDE DEF ss, bs, ds
<1>6. QED BY <1>1, <1>2, <1>3, <1>4, <1>5 DEF ds

-----------------------------------------------------------------------------
(* Concatenation.                                                          *)

\* r is s followed by t.
Joined(D, s, t, r) ==
  /\ r \in Seq(D) /\ Len(r) = Len(s) + Len(t)
  /\ \A k \in 1 .. Len(s) : r[k] = s[k]
  /\ \A k \in 1 .. Len(t) : r[Len(s) + k] = t[k]

LEMMA Concatenation ==
  ASSUME NEW D, NEW s \in Seq(D), NEW t \in Seq(D)
  PROVE  Joined(D, s, t, s \o t)
BY DEF Joined

\* Sequences that agree everywhere are equal; concatenation is associative.
LEMMA SameSequence ==
  ASSUME NEW D, NEW s \in Seq(D), NEW t \in Seq(D), Len(s) = Len(t),
         \A k \in 1 .. Len(s) : s[k] = t[k]
  PROVE  s = t
<1>1. s = [k \in 1 .. Len(s) |-> s[k]] /\ t = [k \in 1 .. Len(t) |-> t[k]] OBVIOUS
<1>2. QED BY <1>1

Associates(s, t, u) == (s \o t) \o u = s \o (t \o u)

LEMMA Associative ==
  ASSUME NEW D, NEW s \in Seq(D), NEW t \in Seq(D), NEW u \in Seq(D)
  PROVE  Associates(s, t, u)
<1> DEFINE st == s \o t
           tu == t \o u
           l  == st \o u
           r  == s \o tu
<1>1. Len(s) \in Nat /\ Len(t) \in Nat /\ Len(u) \in Nat OBVIOUS
<1>2. Joined(D, s, t, st) /\ Joined(D, t, u, tu) BY Concatenation
<1>3. st \in Seq(D) /\ tu \in Seq(D) BY <1>2 DEF Joined
<1> HIDE DEF st, tu
<1>4. Joined(D, st, u, l) /\ Joined(D, s, tu, r) BY <1>3, Concatenation
<1> HIDE DEF l, r
<1>5. ASSUME NEW k \in 1 .. Len(l) PROVE l[k] = r[k]
  <2>1. CASE k <= Len(s) BY <1>1, <1>2, <1>4, <2>1 DEF Joined
  <2>2. CASE Len(s) < k /\ k <= Len(s) + Len(t)
    <3> DEFINE m == k - Len(s)
    <3>1. m \in 1 .. Len(t) /\ m \in 1 .. Len(tu) /\ k \in 1 .. Len(st) /\ k = Len(s) + m
          BY <1>1, <1>2, <2>2 DEF Joined
    <3> HIDE DEF m
    <3>2. l[k] = st[k] /\ st[k] = t[m] /\ r[k] = tu[m] /\ tu[m] = t[m]
          BY <1>2, <1>4, <3>1 DEF Joined
    <3>3. QED BY <3>2
  <2>3. CASE Len(s) + Len(t) < k
    <3> DEFINE m == k - Len(st)
    <3>1. /\ m \in 1 .. Len(u) /\ k = Len(st) + m
          /\ Len(t) + m \in 1 .. Len(tu) /\ k = Len(s) + (Len(t) + m)
          BY <1>1, <1>2, <1>4, <2>3 DEF Joined
    <3> HIDE DEF m
    <3>2. l[k] = u[m] BY <1>4, <3>1 DEF Joined
    <3>3. r[k] = tu[Len(t) + m] BY <1>4, <3>1 DEF Joined
    <3>4. tu[Len(t) + m] = u[m] BY <1>2, <3>1 DEF Joined
    <3>5. QED BY <3>2, <3>3, <3>4
  <2>4. QED BY <1>1, <1>2, <1>4, <2>1, <2>2, <2>3 DEF Joined
<1>6. l \in Seq(D) /\ r \in Seq(D) /\ Len(l) = Len(r) BY <1>1, <1>2, <1>4 DEF Joined
<1>7. l = r BY <1>5, <1>6, SameSequence
<1>8. QED BY <1>7 DEF l, r, st, tu, Associates

LEMMA EmptyBehind == ASSUME NEW D, NEW s \in Seq(D) PROVE s \o <<>> = s
<1> DEFINE e == <<>>
           t == s \o e
<1>1. e \in Seq(D) /\ Len(e) = 0 OBVIOUS
<1> HIDE DEF e
<1>2. Joined(D, s, e, t) BY <1>1, Concatenation
<1> HIDE DEF t
<1>3. t \in Seq(D) /\ Len(t) = Len(s) /\ \A k \in 1 .. Len(t) : t[k] = s[k]
      BY <1>1, <1>2 DEF Joined
<1>4. t = s BY <1>3, SameSequence
<1>5. QED BY <1>4 DEF t, e

-----------------------------------------------------------------------------
(* What the queued words make of the buffers when memory never runs out.   *)

Buffers == {"out", "sec", "body"}
Contents == [Buffers -> Seq(Token)]

\* The contents of the buffers after an emit call that finds memory enough.
AfterWord(word, x) ==
  CASE word.to \in {"sec", "body"} -> [x EXCEPT ![word.to] = x[word.to] \o word.what]
    [] word.to = "reset"   -> [x EXCEPT ![word.what[1]] = <<>>]
    [] word.to = "section" -> [x EXCEPT !["out"] =
         ((x["out"] \o SectionId) \o <<LengthOf(x["sec"])>>) \o x["sec"]]
    [] word.to = "frame"   -> [x EXCEPT !["sec"] =
         ((x["sec"] \o <<>>) \o <<LengthOf(x["body"])>>) \o x["body"]]

\* The words w take the buffers from x to y, by the contents g on the way.
Passes(w, x, y, g) ==
  /\ g \in [0 .. Len(w) -> Contents] /\ g[0] = x /\ g[Len(w)] = y
  /\ \A k \in 0 .. Len(w) - 1 : g[k + 1] = AfterWord(w[k + 1], g[k])
Leads(w, x, y) == \E g : Passes(w, x, y, g)

LEMMA LengthTyped == ASSUME NEW s \in Seq(Token) PROVE <<LengthOf(s)>> \in Seq(Token)
<1>1. LengthOf(s) \in Token BY DEF LengthOf, Token
<1>2. QED BY <1>1

LEMMA TagTyped == SectionId \in Seq(Token) /\ Header \in Seq(Token) /\ Header # <<>>
BY DEF SectionId, Header, Token

LEMMA AfterWordTyped ==
  ASSUME NEW word \in QueuedWord, NEW x \in Contents
  PROVE  AfterWord(word, x) \in Contents
<1>1. x["out"] \in Seq(Token) /\ x["sec"] \in Seq(Token) /\ x["body"] \in Seq(Token)
      BY DEF Contents, Buffers
<1>2. CASE word \in ContentWord
  <2>1. word.to \in {"sec", "body"} /\ word.what \in Seq(Token) BY <1>2 DEF ContentWord
  <2>2. x[word.to] \o word.what \in Seq(Token) BY <1>1, <2>1
  <2>3. QED BY <2>1, <2>2 DEF AfterWord, Contents, Buffers
<1>3. CASE word \in ControlWord
  <2>1. word.to \in {"reset", "section", "frame"} /\ word.what[1] \in {"sec", "body"}
        BY <1>3 DEF ControlWord
  <2>2. <<LengthOf(x["sec"])>> \in Seq(Token) /\ <<LengthOf(x["body"])>> \in Seq(Token)
        BY <1>1, LengthTyped
  <2>3. /\ ((x["out"] \o SectionId) \o <<LengthOf(x["sec"])>>) \o x["sec"] \in Seq(Token)
        /\ ((x["sec"] \o <<>>) \o <<LengthOf(x["body"])>>) \o x["body"] \in Seq(Token)
        BY <1>1, <2>2, TagTyped
  <2>4. CASE word.to = "reset" BY <2>1, <2>4 DEF AfterWord, Contents, Buffers
  <2>5. CASE word.to = "section" BY <2>3, <2>5 DEF AfterWord, Contents, Buffers
  <2>6. CASE word.to = "frame" BY <2>3, <2>6 DEF AfterWord, Contents, Buffers
  <2>7. QED BY <2>1, <2>4, <2>5, <2>6
<1>4. QED BY <1>2, <1>3 DEF QueuedWord

\* No word, one word, and one list of words after another.
LEMMA LeadsNowhere ==
  ASSUME NEW x \in Contents
  PROVE  Leads(<<>>, x, x) /\ \A y : Leads(<<>>, x, y) => y = x
<1>1. Passes(<<>>, x, x, [k \in 0 .. 0 |-> x]) BY DEF Passes
<1>2. QED BY <1>1 DEF Leads, Passes

LEMMA LeadsOnce ==
  ASSUME NEW word \in QueuedWord, NEW x \in Contents
  PROVE  Leads(<<word>>, x, AfterWord(word, x))
<1> DEFINE w == <<word>>
           y == AfterWord(word, x)
           g == [k \in 0 .. 1 |-> IF k = 0 THEN x ELSE y]
<1>1. y \in Contents BY AfterWordTyped
<1>2. Len(w) = 1 /\ w[1] = word OBVIOUS
<1>3. g \in [0 .. 1 -> Contents] /\ g[0] = x /\ g[1] = y BY <1>1
<1>4. \A k \in 0 .. 0 : g[k + 1] = AfterWord(w[k + 1], g[k]) BY <1>2, <1>3
<1> HIDE DEF g, w, y
<1>5. Passes(w, x, y, g) BY <1>2, <1>3, <1>4 DEF Passes
<1>6. QED BY <1>5 DEF Leads, w, y

LEMMA LeadsOn ==
  ASSUME NEW w \in Seq(QueuedWord), w # <<>>, NEW x, NEW y, Leads(w, x, y)
  PROVE  /\ Tail(w) \in Seq(QueuedWord) /\ Head(w) \in QueuedWord
         /\ Leads(Tail(w), AfterWord(Head(w), x), y)
<1>1. PICK g : Passes(w, x, y, g) BY DEF Leads
<1> DEFINE t == Tail(w)
           h == [k \in 0 .. Len(t) |-> g[k + 1]]
<1>2. /\ t \in Seq(QueuedWord) /\ Len(t) = Len(w) - 1 /\ Len(t) \in Nat /\ Len(w) \in Nat
      /\ \A k \in 1 .. Len(t) : t[k] = w[k + 1]
      /\ Head(w) = w[1] /\ Head(w) \in QueuedWord
      OBVIOUS
<1> HIDE DEF t
<1>3. \A k \in 0 .. Len(t) : k + 1 \in 0 .. Len(w) BY <1>2
<1>4. h \in [0 .. Len(t) -> Contents] BY <1>1, <1>3 DEF Passes
<1>5. h[0] = AfterWord(Head(w), x)
  <2>1. 0 \in 0 .. Len(w) - 1 /\ 0 \in 0 .. Len(t) /\ 0 + 1 = 1 BY <1>2
  <2>2. g[0 + 1] = AfterWord(w[0 + 1], g[0]) /\ g[0] = x BY <1>1, <2>1 DEF Passes
  <2>3. QED BY <1>2, <2>1, <2>2
<1>6. h[Len(t)] = y
  <2>1. Len(t) + 1 = Len(w) /\ Len(t) \in 0 .. Len(t) BY <1>2
  <2>2. QED BY <1>1, <2>1 DEF Passes
<1>7. ASSUME NEW k \in 0 .. Len(t) - 1 PROVE h[k + 1] = AfterWord(t[k + 1], h[k])
  <2>1. /\ k + 1 \in 0 .. Len(w) - 1 /\ k + 1 \in 1 .. Len(t) /\ k \in 0 .. Len(t)
        /\ k + 1 \in 0 .. Len(t)
        BY <1>2
  <2>2. g[(k + 1) + 1] = AfterWord(w[(k + 1) + 1], g[k + 1]) BY <1>1, <2>1 DEF Passes
  <2>3. t[k + 1] = w[(k + 1) + 1] BY <1>2, <2>1
  <2>4. h[k + 1] = g[(k + 1) + 1] /\ h[k] = g[k + 1] BY <2>1
  <2>5. QED BY <2>2, <2>3, <2>4
<1> HIDE DEF h
<1>8. Passes(t, AfterWord(Head(w), x), y, h) BY <1>4, <1>5, <1>6, <1>7 DEF Passes
<1>9. QED BY <1>2, <1>8 DEF Leads, t

LEMMA LeadsThrough ==
  ASSUME NEW a \in Seq(QueuedWord), NEW b \in Seq(QueuedWord), NEW x, NEW y, NEW z,
         Leads(a, x, y), Leads(b, y, z)
  PROVE  Leads(a \o b, x, z)
<1>1. PICK g : Passes(a, x, y, g) BY DEF Leads
<1>2. PICK h : Passes(b, y, z, h) BY DEF Leads
<1> DEFINE w == a \o b
           m == Len(a)
           n == Len(b)
           f == [k \in 0 .. m + n |-> IF k <= m THEN g[k] ELSE h[k - m]]
<1>3. Joined(QueuedWord, a, b, w) /\ m \in Nat /\ n \in Nat BY Concatenation
<1>4. Len(w) = m + n BY <1>3 DEF Joined
<1>5. /\ g \in [0 .. m -> Contents] /\ g[0] = x /\ g[m] = y
      /\ \A k \in 0 .. m - 1 : g[k + 1] = AfterWord(a[k + 1], g[k])
      BY <1>1 DEF Passes
<1>6. /\ h \in [0 .. n -> Contents] /\ h[0] = y /\ h[n] = z
      /\ \A k \in 0 .. n - 1 : h[k + 1] = AfterWord(b[k + 1], h[k])
      BY <1>2 DEF Passes
<1>7. /\ \A k \in 1 .. m : w[k] = a[k]
      /\ \A k \in 1 .. n : w[m + k] = b[k]
      BY <1>3 DEF Joined
<1> HIDE DEF w, m, n
<1>8. f \in [0 .. m + n -> Contents]
  <2>1. ASSUME NEW k \in 0 .. m + n PROVE (IF k <= m THEN g[k] ELSE h[k - m]) \in Contents
    <3>1. CASE k <= m BY <1>3, <1>5, <3>1
    <3>2. CASE ~ (k <= m)
      <4>1. k - m \in 0 .. n BY <1>3, <3>2
      <4>2. QED BY <1>6, <3>2, <4>1
    <3>3. QED BY <3>1, <3>2
  <2>2. QED BY <2>1
<1>9. f[0] = x /\ f[m + n] = z
  <2>1. 0 \in 0 .. m + n /\ 0 <= m /\ m + n \in 0 .. m + n BY <1>3
  <2>2. f[0] = x BY <1>5, <2>1
  <2>3. CASE n = 0 BY <1>3, <1>5, <1>6, <2>1, <2>3
  <2>4. CASE n # 0
    <3>1. ~ (m + n <= m) /\ (m + n) - m = n BY <1>3, <2>4
    <3>2. QED BY <1>6, <2>1, <2>2, <3>1
  <2>5. QED BY <2>3, <2>4
<1>10. ASSUME NEW k \in 0 .. (m + n) - 1 PROVE f[k + 1] = AfterWord(w[k + 1], f[k])
  <2>1. k \in 0 .. m + n /\ k + 1 \in 0 .. m + n BY <1>3
  <2>2. CASE k < m
    <3>1. k \in 0 .. m - 1 /\ k + 1 \in 1 .. m /\ k <= m /\ k + 1 <= m BY <1>3, <2>2
    <3>2. f[k + 1] = g[k + 1] /\ f[k] = g[k] BY <2>1, <3>1
    <3> HIDE DEF f
    <3>3. QED BY <1>5, <1>7, <3>1, <3>2
  <2>3. CASE ~ (k < m)
    <3> DEFINE j == k - m
    <3>1. j \in 0 .. n - 1 /\ j + 1 \in 1 .. n /\ k + 1 = m + (j + 1) BY <1>3, <2>3
    <3>2. f[k + 1] = h[j + 1]
      <4>1. ~ (k + 1 <= m) /\ (k + 1) - m = j + 1 BY <1>3, <2>3
      <4>2. QED BY <2>1, <4>1
    <3>3. f[k] = h[j]
      <4>1. CASE k = m
        <5>1. j = 0 /\ k <= m BY <1>3, <4>1
        <5>2. f[k] = g[k] BY <2>1, <5>1
        <5>3. g[k] = y /\ h[j] = y BY <1>5, <1>6, <4>1, <5>1
        <5>4. QED BY <5>2, <5>3
      <4>2. CASE k # m
        <5>1. ~ (k <= m) BY <1>3, <2>3, <4>2
        <5>2. QED BY <2>1, <5>1
      <4>3. QED BY <4>1, <4>2
    <3> HIDE DEF f, j
    <3>4. h[j + 1] = AfterWord(b[j + 1], h[j]) BY <1>6, <3>1
    <3>5. w[k + 1] = b[j + 1] BY <1>7, <3>1
    <3>6. QED BY <3>2, <3>3, <3>4, <3>5
  <2>4. QED BY <2>2, <2>3
<1> HIDE DEF f
<1>11. Passes(w, x, z, f) BY <1>4, <1>8, <1>9, <1>10 DEF Passes
<1>12. QED BY <1>11 DEF Leads, w

-----------------------------------------------------------------------------
(* All the words together make the whole module.                           *)

\* The words w take the buffers from x to y and add t to the buffer b; the
\* module is left alone unless it is that buffer.
Adds(w, x, y, b, t) ==
  y \in Contents /\ Leads(w, x, y) /\ y[b] = x[b] \o t /\ (b # "out" => y["out"] = x["out"])

\* Plain emit calls, a section and a function body add their bytes.
LEMMA EmitToAdds ==
  ASSUME NEW b \in {"sec", "body"}, NEW c \in Seq(Seq(Token)), NEW x \in Contents
  PROVE  /\ EmitTo(b, c) \in Seq(QueuedWord)
         /\ Leads(EmitTo(b, c), x, [x EXCEPT ![b] = x[b] \o FlattenSeq(c)])
         /\ FlattenSeq(c) \in Seq(Token)
<1> DEFINE n == Len(c)
           w == EmitTo(b, c)
<1>1. n \in Nat /\ c \in [1 .. n -> Seq(Token)] OBVIOUS
<1>2. \A k \in 1 .. n : [to |-> b, what |-> c[k]] \in QueuedWord BY <1>1 DEF QueuedWord, ContentWord
<1>3. w = [k \in 1 .. n |-> [to |-> b, what |-> c[k]]] BY DEF EmitTo
<1> HIDE DEF n, w
<1>4. w \in Seq(QueuedWord) /\ Len(w) = n BY <1>1, <1>2, <1>3
<1>5. PICK j : Joins(n, Token, c, j) /\ FlattenSeq(c) = j[n] BY <1>1, Flattened
<1> DEFINE g == [k \in 0 .. n |-> [x EXCEPT ![b] = x[b] \o j[k]]]
<1>6. \A k \in 0 .. n : j[k] \in Seq(Token) BY <1>5 DEF Joins
<1>7. x[b] \in Seq(Token) /\ b \in Buffers BY DEF Contents, Buffers
<1>8. g \in [0 .. n -> Contents]
  <2>1. \A k \in 0 .. n : x[b] \o j[k] \in Seq(Token) BY <1>6, <1>7
  <2>2. \A k \in 0 .. n : [x EXCEPT ![b] = x[b] \o j[k]] \in Contents
        BY <2>1 DEF Contents
  <2>3. QED BY <2>2
<1>9. g[0] = x
  <2>1. j[0] = <<>> /\ 0 \in 0 .. n BY <1>1, <1>5 DEF Joins
  <2>2. x[b] \o <<>> = x[b] BY <1>7, EmptyBehind
  <2>3. [x EXCEPT ![b] = x[b]] = x BY <1>7 DEF Contents
  <2>4. QED BY <2>1, <2>2, <2>3
<1>10. g[n] = [x EXCEPT ![b] = x[b] \o FlattenSeq(c)] BY <1>1, <1>5
<1>11. ASSUME NEW k \in 0 .. n - 1 PROVE g[k + 1] = AfterWord(w[k + 1], g[k])
  <2>1. k \in 0 .. n /\ k + 1 \in 0 .. n /\ k + 1 \in 1 .. n BY <1>1
  <2>2. w[k + 1].to = b /\ w[k + 1].what = c[k + 1] BY <1>3, <2>1
  <2> DEFINE y == g[k]
  <2>3. y = [x EXCEPT ![b] = x[b] \o j[k]] BY <2>1
  <2> HIDE DEF y
  <2>4. y[b] = x[b] \o j[k] BY <1>7, <2>3 DEF Contents
  <2>5. AfterWord(w[k + 1], y) = [y EXCEPT ![b] = y[b] \o c[k + 1]] BY <2>2 DEF AfterWord
  <2>6. @ = [x EXCEPT ![b] = y[b] \o c[k + 1]] BY <1>7, <2>3 DEF Contents
  <2>7. y[b] \o c[k + 1] = x[b] \o (j[k] \o c[k + 1])
    <3>1. c[k + 1] \in Seq(Token) /\ j[k] \in Seq(Token) BY <1>1, <1>6, <2>1
    <3>2. Associates(x[b], j[k], c[k + 1]) BY <1>7, <3>1, Associative
    <3>3. QED BY <2>4, <3>2 DEF Associates
  <2>8. j[k + 1] = j[k] \o c[k + 1] BY <1>5 DEF Joins
  <2>9. g[k + 1] = [x EXCEPT ![b] = x[b] \o j[k + 1]] BY <2>1
  <2>10. QED BY <2>5, <2>6, <2>7, <2>8, <2>9 DEF y
<1> HIDE DEF g
<1>12. Passes(w, x, [x EXCEPT ![b] = x[b] \o FlattenSeq(c)], g)
       BY <1>4, <1>8, <1>9, <1>10, <1>11 DEF Passes
<1>13. FlattenSeq(c) \in Seq(Token) BY <1>1, FlattenedIn
<1>14. QED BY <1>4, <1>12, <1>13 DEF Leads, w

\* What each of the control words does to the buffers.
ControlDoes(word, b, x) ==
  /\ Control(word, b) \in Seq(QueuedWord)
  /\ \E y \in Contents :
       /\ Leads(Control(word, b), x, y)
       /\ word = "reset" => y = [x EXCEPT ![b] = <<>>]
       /\ word = "section" => y = [x EXCEPT !["out"] = x["out"] \o Framed(x["sec"])]
       /\ word = "frame" => y = [x EXCEPT !["sec"] =
                                 x["sec"] \o (<<LengthOf(x["body"])>> \o x["body"])]

LEMMA ControlLeads ==
  ASSUME NEW word \in {"reset", "section", "frame"}, NEW b \in {"sec", "body"}, NEW x \in Contents
  PROVE  ControlDoes(word, b, x)
<1> DEFINE wd == [to |-> word, what |-> <<b>>]
           y == AfterWord(wd, x)
<1>1. wd \in QueuedWord BY DEF QueuedWord, ControlWord
<1>2. Control(word, b) = <<wd>> BY DEF Control
<1>3. Control(word, b) \in Seq(QueuedWord) BY <1>1, <1>2
<1>4. wd.to = word /\ wd.what[1] = b OBVIOUS
<1> HIDE DEF wd
<1>5. y \in Contents BY <1>1, AfterWordTyped
<1>6. Leads(<<wd>>, x, y) BY <1>1, LeadsOnce
<1>7. x["out"] \in Seq(Token) /\ x["sec"] \in Seq(Token) /\ x["body"] \in Seq(Token)
      BY DEF Contents, Buffers
<1>8. <<LengthOf(x["sec"])>> \in Seq(Token) /\ <<LengthOf(x["body"])>> \in Seq(Token)
      BY <1>7, LengthTyped
<1>9. CASE word = "reset" BY <1>2, <1>3, <1>4, <1>5, <1>6, <1>9 DEF AfterWord, ControlDoes
<1>10. CASE word = "section"
  <2>1. y = [x EXCEPT !["out"] =
           ((x["out"] \o SectionId) \o <<LengthOf(x["sec"])>>) \o x["sec"]]
        BY <1>4, <1>10 DEF AfterWord
  <2>2. ((x["out"] \o SectionId) \o <<LengthOf(x["sec"])>>) \o x["sec"]
         = x["out"] \o Framed(x["sec"])
    <3> DEFINE l == <<LengthOf(x["sec"])>>
    <3>0. l \in Seq(Token) /\ SectionId \in Seq(Token) BY <1>8, TagTyped
    <3> HIDE DEF l
    <3>1. Associates(x["out"], SectionId, l) BY <1>7, <3>0, Associative
    <3>2. SectionId \o l \in Seq(Token) BY <3>0
    <3>3. Associates(x["out"], SectionId \o l, x["sec"]) BY <1>7, <3>2, Associative
    <3>4. Framed(x["sec"]) = (SectionId \o l) \o x["sec"] BY DEF Framed, l
    <3>5. QED BY <3>1, <3>3, <3>4 DEF l, Associates
  <2> HIDE DEF y
  <2>3. y = [x EXCEPT !["out"] = x["out"] \o Framed(x["sec"])] BY <2>1, <2>2, Zenon
  <2>4. QED BY <1>2, <1>3, <1>5, <1>6, <1>10, <2>3 DEF ControlDoes
<1>11. CASE word = "frame"
  <2>1. y = [x EXCEPT !["sec"] =
           ((x["sec"] \o <<>>) \o <<LengthOf(x["body"])>>) \o x["body"]]
        BY <1>4, <1>11 DEF AfterWord
  <2>2. x["sec"] \o <<>> = x["sec"] BY <1>7, EmptyBehind
  <2>3. Associates(x["sec"], <<LengthOf(x["body"])>>, x["body"])
        BY <1>7, <1>8, Associative
  <2> HIDE DEF y
  <2>4. y = [x EXCEPT !["sec"] = x["sec"] \o (<<LengthOf(x["body"])>> \o x["body"])]
        BY <2>1, <2>2, <2>3, Zenon DEF Associates
  <2>5. QED BY <1>2, <1>3, <1>5, <1>6, <1>11, <2>4 DEF ControlDoes
<1>12. QED BY <1>9, <1>10, <1>11

LEMMA ResetLeads ==
  ASSUME NEW b \in {"sec", "body"}, NEW x \in Contents
  PROVE  /\ Control("reset", b) \in Seq(QueuedWord)
         /\ \E y \in Contents : Leads(Control("reset", b), x, y) /\ y = [x EXCEPT ![b] = <<>>]
<1>1. ControlDoes("reset", b, x) BY ControlLeads
<1>2. QED BY <1>1, Zenon DEF ControlDoes

LEMMA SectionLeads ==
  ASSUME NEW x \in Contents
  PROVE  /\ Control("section", "sec") \in Seq(QueuedWord)
         /\ \E y \in Contents : /\ Leads(Control("section", "sec"), x, y)
                                 /\ y = [x EXCEPT !["out"] = x["out"] \o Framed(x["sec"])]
<1>1. ControlDoes("section", "sec", x) BY ControlLeads
<1>2. QED BY <1>1, Zenon DEF ControlDoes

LEMMA FrameLeads ==
  ASSUME NEW x \in Contents
  PROVE  /\ Control("frame", "body") \in Seq(QueuedWord)
         /\ \E y \in Contents : /\ Leads(Control("frame", "body"), x, y)
                                 /\ y = [x EXCEPT !["sec"] =
                                          x["sec"] \o (<<LengthOf(x["body"])>> \o x["body"])]
<1>1. ControlDoes("frame", "body", x) BY ControlLeads
<1>2. QED BY <1>1, Zenon DEF ControlDoes

LEMMA SectionAdds ==
  ASSUME NEW name \in Int, NEW sizes \in Seq(Nat \ {0}), NEW x \in Contents
  PROVE  \E y : Adds(FillSection(name, sizes), x, y, "out", Framed(Bytes(name, sizes)))
<1> DEFINE c == Content(name, sizes)
           e == EmitTo("sec", c)
           r == Control("reset", "sec")
           s == Control("section", "sec")
           B == Bytes(name, sizes)
<1>1. c \in Seq(Seq(Token)) BY ContentTyped
<1>2. B = FlattenSeq(c) BY DEF Bytes
<1>3. FillSection(name, sizes) = (r \o e) \o s BY DEF FillSection
<1> HIDE DEF c, e, r, s, B
<1>4. r \in Seq(QueuedWord) /\ \E y \in Contents : Leads(r, x, y) /\ y = [x EXCEPT !["sec"] = <<>>]
      BY ResetLeads DEF r
<1>5. PICK x1 \in Contents : Leads(r, x, x1) /\ x1 = [x EXCEPT !["sec"] = <<>>] BY <1>4
<1>6. x1["sec"] = <<>> /\ x1["out"] = x["out"] BY <1>5 DEF Contents, Buffers
<1>7. /\ e \in Seq(QueuedWord) /\ B \in Seq(Token)
      /\ Leads(e, x1, [x1 EXCEPT !["sec"] = x1["sec"] \o B])
      BY <1>1, <1>2, EmitToAdds DEF e
<1> DEFINE x2 == [x1 EXCEPT !["sec"] = x1["sec"] \o B]
<1>8. x2 \in Contents /\ x2["sec"] = B /\ x2["out"] = x["out"]
  <2>1. x1["sec"] \o B = B BY <1>6, <1>7, EmptyInFront
  <2>2. QED BY <1>6, <1>7, <2>1 DEF Contents, Buffers
<1>9. Leads(e, x1, x2) BY <1>7
<1> HIDE DEF x2
<1>10. /\ s \in Seq(QueuedWord)
       /\ \E y \in Contents : Leads(s, x2, y)
                               /\ y = [x2 EXCEPT !["out"] = x2["out"] \o Framed(x2["sec"])]
       BY <1>8, SectionLeads, Zenon DEF s
<1>11. PICK y \in Contents :
         Leads(s, x2, y) /\ y = [x2 EXCEPT !["out"] = x2["out"] \o Framed(x2["sec"])]
       BY <1>10
<1>12. y["out"] = x["out"] \o Framed(B) BY <1>8, <1>11 DEF Contents, Buffers
<1>13. r \o e \in Seq(QueuedWord) /\ Leads(r \o e, x, x2) BY <1>4, <1>5, <1>7, <1>9, LeadsThrough
<1>14. Leads((r \o e) \o s, x, y) BY <1>10, <1>11, <1>13, LeadsThrough
<1>15. QED BY <1>3, <1>12, <1>14 DEF Adds, B

FramedBody(f) == <<LengthOf(Bytes(-f, Bodies[f]))>> \o Bytes(-f, Bodies[f])

LEMMA BodyAdds ==
  ASSUME NEW f \in 1 .. Len(Bodies), NEW x \in Contents
  PROVE  \E y : Adds(FillBody(f), x, y, "sec", FramedBody(f))
<1> DEFINE c == Content(-f, Bodies[f])
           e == EmitTo("body", c)
           r == Control("reset", "body")
           s == Control("frame", "body")
           B == Bytes(-f, Bodies[f])
<1>1. c \in Seq(Seq(Token))
  <2>1. -f \in Int /\ Bodies[f] \in Seq(Nat \ {0}) BY SectionsAssumption
  <2>2. QED BY <2>1, ContentTyped
<1>2. B = FlattenSeq(c) BY DEF Bytes
<1>3. FillBody(f) = (r \o e) \o s BY DEF FillBody
<1> HIDE DEF c, e, r, s, B
<1>4. r \in Seq(QueuedWord) /\ \E y \in Contents : Leads(r, x, y) /\ y = [x EXCEPT !["body"] = <<>>]
      BY ResetLeads DEF r
<1>5. PICK x1 \in Contents : Leads(r, x, x1) /\ x1 = [x EXCEPT !["body"] = <<>>] BY <1>4
<1>6. x1["body"] = <<>> /\ x1["out"] = x["out"] /\ x1["sec"] = x["sec"]
      BY <1>5 DEF Contents, Buffers
<1>7. /\ e \in Seq(QueuedWord) /\ B \in Seq(Token)
      /\ Leads(e, x1, [x1 EXCEPT !["body"] = x1["body"] \o B])
      BY <1>1, <1>2, EmitToAdds DEF e
<1> DEFINE x2 == [x1 EXCEPT !["body"] = x1["body"] \o B]
<1>8. x2 \in Contents /\ x2["body"] = B /\ x2["out"] = x["out"] /\ x2["sec"] = x["sec"]
  <2>1. x1["body"] \o B = B BY <1>6, <1>7, EmptyInFront
  <2>2. QED BY <1>6, <1>7, <2>1 DEF Contents, Buffers
<1>9. Leads(e, x1, x2) BY <1>7
<1> HIDE DEF x2
<1>10. /\ s \in Seq(QueuedWord)
       /\ \E y \in Contents : /\ Leads(s, x2, y)
                               /\ y = [x2 EXCEPT !["sec"] =
                                    x2["sec"] \o (<<LengthOf(x2["body"])>> \o x2["body"])]
       BY <1>8, FrameLeads, Zenon DEF s
<1>11. PICK y \in Contents :
         /\ Leads(s, x2, y)
         /\ y = [x2 EXCEPT !["sec"] = x2["sec"] \o (<<LengthOf(x2["body"])>> \o x2["body"])]
       BY <1>10
<1>12. y["sec"] = x["sec"] \o (<<LengthOf(B)>> \o B) /\ y["out"] = x["out"]
       BY <1>8, <1>11 DEF Contents, Buffers
<1>13. r \o e \in Seq(QueuedWord) /\ Leads(r \o e, x, x2) BY <1>4, <1>5, <1>7, <1>9, LeadsThrough
<1>14. Leads((r \o e) \o s, x, y) BY <1>10, <1>11, <1>13, LeadsThrough
<1>15. QED BY <1>3, <1>12, <1>14 DEF Adds, FramedBody, B

\* Words that each add their tokens add them all, in order.
LEMMA AllAdd ==
  ASSUME NEW n \in Nat, NEW ws \in [1 .. n -> Seq(QueuedWord)], NEW ts \in [1 .. n -> Seq(Token)],
         NEW b \in Buffers, NEW x \in Contents,
         \A k \in 1 .. n : \A y \in Contents : \E z : Adds(ws[k], y, z, b, ts[k])
  PROVE  /\ FlattenSeq(ws) \in Seq(QueuedWord) /\ FlattenSeq(ts) \in Seq(Token)
         /\ \E y : Adds(FlattenSeq(ws), x, y, b, FlattenSeq(ts))
<1>1. PICK g : Joins(n, QueuedWord, ws, g) /\ FlattenSeq(ws) = g[n] BY Flattened
<1>2. PICK h : Joins(n, Token, ts, h) /\ FlattenSeq(ts) = h[n] BY Flattened
<1> DEFINE S == {k \in 0 .. n : \E y : Adds(g[k], x, y, b, h[k])}
<1>3. 0 \in S
  <2>1. g[0] = <<>> /\ h[0] = <<>> BY <1>1, <1>2 DEF Joins
  <2>2. Leads(<<>>, x, x) BY LeadsNowhere
  <2>3. x[b] \o <<>> = x[b]
    <3>1. x[b] \in Seq(Token) BY DEF Contents
    <3>2. QED BY <3>1, EmptyBehind
  <2>4. Adds(<<>>, x, x, b, <<>>) BY <2>2, <2>3 DEF Adds
  <2>5. QED BY <2>1, <2>4
<1>4. ASSUME NEW k \in 0 .. n - 1, k \in S PROVE k + 1 \in S
  <2>1. k \in 0 .. n /\ k + 1 \in 0 .. n /\ k + 1 \in 1 .. n OBVIOUS
  <2>2. PICK y : Adds(g[k], x, y, b, h[k]) BY <1>4
  <2>3. PICK z : Adds(ws[k + 1], y, z, b, ts[k + 1]) BY <2>1, <2>2 DEF Adds
  <2>4. /\ g[k] \in Seq(QueuedWord) /\ ws[k + 1] \in Seq(QueuedWord)
        /\ h[k] \in Seq(Token) /\ ts[k + 1] \in Seq(Token) /\ x[b] \in Seq(Token)
        BY <1>1, <1>2, <2>1 DEF Joins, Contents
  <2>5. g[k + 1] = g[k] \o ws[k + 1] /\ h[k + 1] = h[k] \o ts[k + 1]
        BY <1>1, <1>2 DEF Joins
  <2>6. Leads(g[k], x, y) /\ Leads(ws[k + 1], y, z) BY <2>2, <2>3 DEF Adds
  <2>7. Leads(g[k] \o ws[k + 1], x, z) BY <2>4, <2>6, LeadsThrough
  <2>8. Associates(x[b], h[k], ts[k + 1]) BY <2>4, Associative
  <2>9. y[b] = x[b] \o h[k] /\ z[b] = y[b] \o ts[k + 1] BY <2>2, <2>3 DEF Adds
  <2>10. z[b] = x[b] \o h[k + 1] BY <2>5, <2>8, <2>9 DEF Associates
  <2>11. z \in Contents /\ (b # "out" => z["out"] = x["out"]) BY <2>2, <2>3 DEF Adds
  <2>12. Adds(g[k + 1], x, z, b, h[k + 1]) BY <2>5, <2>7, <2>10, <2>11 DEF Adds
  <2>13. QED BY <2>1, <2>12
<1> HIDE DEF S
<1>5. 0 .. n \subseteq S BY <1>3, <1>4, InductionTo
<1>6. n \in S BY <1>5
<1>7. g[n] \in Seq(QueuedWord) /\ h[n] \in Seq(Token) BY <1>1, <1>2 DEF Joins
<1>8. QED BY <1>1, <1>2, <1>6, <1>7 DEF S

\* Everything that EmitModule queues turns the header into the whole module.
LEMMA ModuleLeads ==
  ASSUME NEW x \in Contents, x["out"] = Header
  PROVE  \E y \in Contents : Leads(EmitModule, x, y) /\ y["out"] = WholeModule
<1> DEFINE n  == Len(Sections)
           m  == Len(Bodies)
           ss == [s \in 1 .. n |-> FillSection(s, Sections[s])]
           fs == [s \in 1 .. n |-> Framed(Bytes(s, Sections[s]))]
           bs == [f \in 1 .. m |-> FillBody(f)]
           gs == [f \in 1 .. m |-> FramedBody(f)]
           r  == Control("reset", "sec")
           c  == Control("section", "sec")
           ds == IF DataSection = <<>> THEN <<>> ELSE FillSection(0, DataSection)
           es == IF DataSection = <<>> THEN <<>> ELSE Framed(Bytes(0, DataSection))
<1>0. n \in Nat /\ m \in Nat BY SectionsAssumption
<1>1. \A s \in 1 .. n : s \in Int /\ Sections[s] \in Seq(Nat \ {0}) BY SectionsAssumption
<1>2. EmitModule = (((FlattenSeq(ss) \o r) \o FlattenSeq(bs)) \o c) \o ds
      BY Zenon DEF EmitModule
<1>3. WholeModule = ((Header \o FlattenSeq(fs)) \o Framed(FlattenSeq(gs))) \o es
      BY Zenon DEF WholeModule, CodeSection, FramedBody
<1>4. ASSUME NEW name \in Int, NEW sizes \in Seq(Nat \ {0})
      PROVE  Bytes(name, sizes) \in Seq(Token) /\ Framed(Bytes(name, sizes)) \in Seq(Token)
  <2>1. Bytes(name, sizes) \in Seq(Token)
    <3>1. Len(sizes) \in Nat /\ Content(name, sizes) \in [1 .. Len(sizes) -> Seq(Token)]
          BY ContentTyped
    <3>2. QED BY <3>1, FlattenedIn DEF Bytes
  <2>2. <<LengthOf(Bytes(name, sizes))>> \in Seq(Token) BY <2>1, LengthTyped
  <2>3. QED BY <2>1, <2>2, TagTyped DEF Framed
<1>5. fs \in [1 .. n -> Seq(Token)] /\ ss \in [1 .. n -> Seq(QueuedWord)]
      BY <1>1, <1>4, SectionTyped
<1>6. bs \in [1 .. m -> Seq(QueuedWord)] /\ gs \in [1 .. m -> Seq(Token)]
  <2>1. ASSUME NEW f \in 1 .. m PROVE FramedBody(f) \in Seq(Token)
    <3>1. -f \in Int /\ Bodies[f] \in Seq(Nat \ {0}) BY SectionsAssumption
    <3>2. Bytes(-f, Bodies[f]) \in Seq(Token) BY <1>4, <3>1
    <3>3. <<LengthOf(Bytes(-f, Bodies[f]))>> \in Seq(Token) BY <3>2, LengthTyped
    <3>4. QED BY <3>2, <3>3 DEF FramedBody
  <2>2. QED BY <2>1, BodyTyped
<1>7. \A k \in 1 .. n : \A y \in Contents : \E z : Adds(ss[k], y, z, "out", fs[k])
      BY <1>1, SectionAdds
<1>8. \A k \in 1 .. m : \A y \in Contents : \E z : Adds(bs[k], y, z, "sec", gs[k])
      BY BodyAdds
<1>9. "sec" \in Buffers /\ "out" \in Buffers BY DEF Buffers
<1> HIDE DEF n, m, ss, fs, bs, gs, r, c
<1>10. /\ FlattenSeq(ss) \in Seq(QueuedWord) /\ FlattenSeq(fs) \in Seq(Token)
       /\ \E y : Adds(FlattenSeq(ss), x, y, "out", FlattenSeq(fs))
       BY <1>0, <1>5, <1>7, <1>9, AllAdd
<1>11. PICK x1 : Adds(FlattenSeq(ss), x, x1, "out", FlattenSeq(fs)) BY <1>10
<1>12. x1 \in Contents /\ x1["out"] = Header \o FlattenSeq(fs) BY <1>11 DEF Adds
<1>13. /\ r \in Seq(QueuedWord)
       /\ \E y \in Contents : Leads(r, x1, y) /\ y = [x1 EXCEPT !["sec"] = <<>>]
       BY <1>12, ResetLeads DEF r
<1>14. PICK x2 \in Contents : Leads(r, x1, x2) /\ x2 = [x1 EXCEPT !["sec"] = <<>>] BY <1>13
<1>15. x2["sec"] = <<>> /\ x2["out"] = Header \o FlattenSeq(fs)
       BY <1>12, <1>14 DEF Contents, Buffers
<1>16. /\ FlattenSeq(bs) \in Seq(QueuedWord) /\ FlattenSeq(gs) \in Seq(Token)
       /\ \E y : Adds(FlattenSeq(bs), x2, y, "sec", FlattenSeq(gs))
       BY <1>0, <1>6, <1>8, <1>9, AllAdd
<1>17. PICK x3 : Adds(FlattenSeq(bs), x2, x3, "sec", FlattenSeq(gs)) BY <1>16
<1>18. x3 \in Contents /\ x3["sec"] = FlattenSeq(gs) /\ x3["out"] = Header \o FlattenSeq(fs)
  <2>1. <<>> \o FlattenSeq(gs) = FlattenSeq(gs) BY <1>16, EmptyInFront
  <2>2. QED BY <1>15, <1>17, <2>1 DEF Adds
<1>19. /\ c \in Seq(QueuedWord)
       /\ \E y \in Contents : Leads(c, x3, y)
                               /\ y = [x3 EXCEPT !["out"] = x3["out"] \o Framed(x3["sec"])]
       BY <1>18, SectionLeads, Zenon DEF c
<1>20. PICK x4 \in Contents :
         Leads(c, x3, x4) /\ x4 = [x3 EXCEPT !["out"] = x3["out"] \o Framed(x3["sec"])]
       BY <1>19
<1>21. x4["out"] = (Header \o FlattenSeq(fs)) \o Framed(FlattenSeq(gs))
       BY <1>18, <1>20 DEF Contents, Buffers
<1>22. ds \in Seq(QueuedWord) /\ \E y \in Contents : Leads(ds, x4, y) /\ y["out"] = x4["out"] \o es
  <2>1. CASE DataSection = <<>>
    <3>1. Leads(<<>>, x4, x4) BY LeadsNowhere
    <3>2. x4["out"] \in Seq(Token) BY <1>9 DEF Contents
    <3>3. x4["out"] \o <<>> = x4["out"] BY <3>2, EmptyBehind
    <3>4. <<>> \in Seq(QueuedWord) OBVIOUS
    <3>5. QED BY <2>1, <3>1, <3>3, <3>4
  <2>2. CASE DataSection # <<>>
    <3>1. DataSection \in Seq(Nat \ {0}) /\ 0 \in Int BY SectionsAssumption
    <3>2. FillSection(0, DataSection) \in Seq(QueuedWord) BY <3>1, SectionTyped
    <3>3. PICK y : Adds(FillSection(0, DataSection), x4, y, "out", Framed(Bytes(0, DataSection)))
          BY <3>1, SectionAdds
    <3>4. QED BY <2>2, <3>2, <3>3 DEF Adds
  <2>3. QED BY <2>1, <2>2
<1> HIDE DEF ds, es
<1>23. PICK x5 \in Contents : Leads(ds, x4, x5) /\ x5["out"] = x4["out"] \o es BY <1>22
<1>24. FlattenSeq(ss) \o r \in Seq(QueuedWord) /\ Leads(FlattenSeq(ss) \o r, x, x2)
  <2>1. Leads(FlattenSeq(ss), x, x1) BY <1>11 DEF Adds
  <2>2. QED BY <1>10, <1>13, <1>14, <2>1, LeadsThrough
<1> DEFINE w2 == FlattenSeq(ss) \o r
           w3 == w2 \o FlattenSeq(bs)
           w4 == w3 \o c
<1> HIDE DEF w2
<1>25. w2 \in Seq(QueuedWord) /\ Leads(w2, x, x2) BY <1>24 DEF w2
<1>26. w3 \in Seq(QueuedWord) /\ Leads(w3, x, x3)
  <2>1. Leads(FlattenSeq(bs), x2, x3) BY <1>17 DEF Adds
  <2>2. QED BY <1>16, <1>25, <2>1, LeadsThrough
<1> HIDE DEF w3
<1>27. w4 \in Seq(QueuedWord) /\ Leads(w4, x, x4) BY <1>19, <1>20, <1>26, LeadsThrough
<1> HIDE DEF w4
<1>28. Leads(w4 \o ds, x, x5) BY <1>22, <1>23, <1>27, LeadsThrough
<1>29. EmitModule = w4 \o ds BY <1>2 DEF w4, w3, w2
<1>30. x5["out"] = WholeModule BY <1>3, <1>21, <1>23
<1>31. QED BY <1>28, <1>29, <1>30

-----------------------------------------------------------------------------
(* Buffers: growing by doubling gives room for what is appended.           *)

\* EmitBuffer doubles the capacity until what it appends fits.
LEMMA GrownEnough ==
  ASSUME NEW cap \in Nat, cap >= 1, NEW need \in Nat
  PROVE  Grown(cap, need) \in Nat /\ Grown(cap, need) >= need /\ Grown(cap, need) >= 1
<1> DEFINE Eq(w) == w = [k \in 0 .. need |-> IF k = 0 THEN cap ELSE 2 * w[k - 1]]
           N == CHOOSE w : Eq(w)
           Good(k) == N[k] >= need /\ \A j \in 0 .. k - 1 : N[j] < need
           F == [k \in Nat |-> [x \in Nat |-> 2 * x]]
<1>1. Eq(N)
  <2>1. F \in [Nat -> [Nat -> Nat]] OBVIOUS
  <2>2. \A k, x \in Nat : F[k][x] = 2 * x OBVIOUS
  <2> HIDE DEF F
  <2>3. PICK w : Iterates(need, Nat, cap, F, w) BY <2>1, RecursionIn DEF Iterable
  <2>4. w \in [0 .. need -> Nat] /\ w[0] = cap BY <2>3 DEF Iterates
  <2>5. ASSUME NEW k \in 0 .. need, k # 0 PROVE w[k] = 2 * w[k - 1]
    <3>1. k - 1 \in 0 .. need - 1 /\ (k - 1) + 1 = k /\ k - 1 \in 0 .. need /\ k - 1 \in Nat
          BY <2>5
    <3>2. w[(k - 1) + 1] = F[k - 1][w[k - 1]] BY <2>3, <3>1 DEF Iterates
    <3>3. w[k - 1] \in Nat BY <2>4, <3>1
    <3>4. QED BY <2>2, <3>1, <3>2, <3>3
  <2>6. w = [k \in 0 .. need |-> w[k]] BY <2>4
  <2>7. Eq(w) BY <2>4, <2>5, <2>6
  <2>8. QED BY <2>7
<1>2. Grown(cap, need) = N[CHOOSE k \in 0 .. need : Good(k)] BY DEF Grown
<1> HIDE DEF N
<1>3. N[0] = cap /\ \A k \in 0 .. need : k # 0 => N[k] = 2 * N[k - 1] BY <1>1
<1> DEFINE S == {k \in 0 .. need : N[k] \in Nat /\ N[k] >= k + 1}
<1>4. 0 \in S BY <1>3
<1>5. ASSUME NEW k \in 0 .. need - 1, k \in S PROVE k + 1 \in S
  <2>1. k + 1 \in 0 .. need /\ k + 1 # 0 /\ (k + 1) - 1 = k OBVIOUS
  <2>2. N[k + 1] = 2 * N[k] BY <1>3, <2>1
  <2>3. N[k] \in Nat /\ N[k] >= k + 1 BY <1>5
  <2>4. QED BY <2>1, <2>2, <2>3
<1> HIDE DEF S
<1>6. 0 .. need \subseteq S BY <1>4, <1>5, InductionTo
<1>7. \A k \in 0 .. need : N[k] \in Nat /\ N[k] >= k + 1 BY <1>6 DEF S
<1> DEFINE T == {k \in 0 .. need : N[k] >= need}
<1>8. T # {} /\ T \subseteq Nat
  <2>1. need \in 0 .. need OBVIOUS
  <2>2. need \in T BY <1>7, <2>1
  <2>3. QED BY <2>2
<1>9. PICK m \in T : \A k \in T : m <= k
  <2> HIDE DEF T
  <2>1. QED BY <1>8, LeastNumber
<1>10. m \in 0 .. need /\ Good(m)
  <2>1. m \in 0 .. need /\ N[m] >= need OBVIOUS
  <2>2. ASSUME NEW j \in 0 .. m - 1 PROVE N[j] < need
    <3>1. j \in 0 .. need /\ ~ (m <= j) BY <2>1
    <3>2. j \notin T BY <1>9, <3>1
    <3>3. QED BY <1>7, <3>1, <3>2
  <2>3. QED BY <2>1, <2>2
<1> DEFINE c == CHOOSE k \in 0 .. need : Good(k)
<1>11. c \in 0 .. need /\ Good(c) BY <1>10
<1> HIDE DEF c
<1>12. N[c] \in Nat /\ N[c] >= c + 1 /\ N[c] >= need BY <1>7, <1>11
<1>13. N[c] >= 1 BY <1>11, <1>12
<1>14. QED BY <1>2, <1>12, <1>13 DEF c

\* A buffer whose data lie inside its block.
Buffer == [cap : Nat, data : Seq(Token)]
Fits(b) == b \in Buffer /\ b.cap >= 1 /\ Len(b.data) <= b.cap

\* An append either fits or, when realloc fails, changes nothing.
LEMMA EmittedFits ==
  ASSUME NEW b, Fits(b), NEW xs \in Seq(Token), NEW r \in Emitted(b, xs), scarce \in BOOLEAN
  PROVE  /\ Fits(r) /\ Len(r.data) >= Len(b.data)
         /\ ~ scarce \/ Len(b.data) + Len(xs) <= b.cap => r.data = b.data \o xs
<1>1. b.data \in Seq(Token) /\ b.cap \in Nat /\ b = [cap |-> b.cap, data |-> b.data]
      BY DEF Fits, Buffer
<1>2. /\ b.data \o xs \in Seq(Token) /\ Len(b.data \o xs) = Len(b.data) + Len(xs)
      /\ Len(xs) \in Nat /\ Len(b.data) \in Nat
      BY <1>1
<1> DEFINE d == b.data \o xs
           need == Len(b.data) + Len(xs)
<1>3. d \in Seq(Token) /\ Len(d) = need /\ need \in Nat BY <1>2
<1>4. CASE need <= b.cap
  <2>1. r = [b EXCEPT !.data = d] BY <1>4 DEF Emitted
  <2> HIDE DEF d
  <2>2. r.data = d /\ r.cap = b.cap /\ r \in Buffer BY <1>1, <1>3, <2>1 DEF Buffer
  <2>3. QED BY <1>2, <1>3, <1>4, <2>2 DEF Fits, d
<1>5. CASE ~ (need <= b.cap)
  <2>1. PICK fails \in AllocationFails :
          r = IF fails THEN b ELSE [cap |-> Grown(b.cap, need), data |-> d]
        BY <1>5 DEF Emitted
  <2>2. CASE fails
    <3>1. scarce BY <2>2 DEF AllocationFails
    <3>2. r = b BY <2>1, <2>2
    <3>3. QED BY <1>2, <1>5, <3>1, <3>2
  <2>3. CASE ~ fails
    <3>1. /\ Grown(b.cap, need) \in Nat /\ Grown(b.cap, need) >= need
          /\ Grown(b.cap, need) >= 1
      <4> HIDE DEF need
      <4>1. b.cap >= 1 BY DEF Fits
      <4>2. QED BY <1>1, <1>3, <4>1, GrownEnough
    <3> DEFINE c == Grown(b.cap, need)
    <3>2. r = [cap |-> c, data |-> d] BY <2>1, <2>3
    <3> HIDE DEF c, d
    <3>3. r.data = d /\ r.cap = c /\ r \in Buffer BY <1>3, <3>1, <3>2 DEF Buffer, c
    <3>4. QED BY <1>2, <1>3, <3>1, <3>3 DEF Fits, c, d
  <2>4. QED BY <2>2, <2>3
<1>6. QED BY <1>4, <1>5

LEMMA FrameFits ==
  ASSUME NEW b, Fits(b), NEW tag \in Seq(Token), NEW data \in Seq(Token),
         NEW r \in EmittedFrame(b, tag, data), scarce \in BOOLEAN
  PROVE  /\ Fits(r) /\ Len(r.data) >= Len(b.data)
         /\ ~ scarce => r.data = ((b.data \o tag) \o <<LengthOf(data)>>) \o data
<1>1. PICK b1 \in Emitted(b, tag) :
        r \in UNION {Emitted(b2, data) : b2 \in Emitted(b1, <<LengthOf(data)>>)}
      BY DEF EmittedFrame
<1>2. PICK b2 \in Emitted(b1, <<LengthOf(data)>>) : r \in Emitted(b2, data) BY <1>1
<1>3. <<LengthOf(data)>> \in Seq(Token) BY LengthTyped
<1>4. Fits(b1) /\ Len(b1.data) >= Len(b.data) /\ (~ scarce => b1.data = b.data \o tag)
      BY EmittedFits
<1>5. /\ Fits(b2) /\ Len(b2.data) >= Len(b1.data)
      /\ ~ scarce => b2.data = b1.data \o <<LengthOf(data)>>
      BY <1>3, <1>4, EmittedFits
<1>6. /\ Fits(r) /\ Len(r.data) >= Len(b2.data)
      /\ ~ scarce => r.data = b2.data \o data
      BY <1>2, <1>5, EmittedFits
<1>7. /\ Len(r.data) \in Nat /\ Len(b2.data) \in Nat /\ Len(b1.data) \in Nat
      /\ Len(b.data) \in Nat
      BY <1>4, <1>5, <1>6 DEF Fits, Buffer
<1>8. Len(r.data) >= Len(b.data)
  <2> DEFINE p == Len(r.data)
             q == Len(b2.data)
             u == Len(b1.data)
             v == Len(b.data)
  <2>1. /\ p \in Nat /\ q \in Nat /\ u \in Nat /\ v \in Nat
        /\ p >= q /\ q >= u /\ u >= v
        BY <1>4, <1>5, <1>6, <1>7
  <2> HIDE DEF p, q, u, v
  <2>2. p >= v BY <2>1
  <2>3. QED BY <2>2 DEF p, v
<1>9. ASSUME ~ scarce PROVE r.data = ((b.data \o tag) \o <<LengthOf(data)>>) \o data
  <2>1. /\ b1.data = b.data \o tag /\ b2.data = b1.data \o <<LengthOf(data)>>
        /\ r.data = b2.data \o data
        BY <1>4, <1>5, <1>6, <1>9
  <2>2. QED BY <2>1, Zenon
<1>10. QED BY <1>6, <1>8, <1>9

-----------------------------------------------------------------------------
(* The inductive invariant of QVM2WASM_Compile.                            *)

\* Where QVM2WASM_Compile may be.
Places == {"header", "expand", "decode", "find", "analyze", "failed", "init", "emit", "returned"}

CompileTypeInv ==
  /\ pc \in Places /\ scarce \in BOOLEAN
  /\ bufs \in [Buffers -> Buffer]
  /\ work \in Seq(QueuedWord)

\* What the buffers hold.
Data == [b \in Buffers |-> bufs[b].data]

\* No buffer is written past its block, and while the module is emitted all have one.
BufferInv ==
  /\ BufferFits
  /\ pc = "init" => bufs["out"] = NewBuffer
  /\ pc = "emit" => bufs["out"].data # <<>> /\ \A b \in Buffers : bufs[b].cap >= 1

\* As long as no allocation failed, the words still queued complete the module:
\* without this, that the module is whole at the end says nothing of a step before.
MeaningInv == pc = "emit" /\ ~ scarce =>
  \E y \in Contents : Leads(work, Data, y) /\ y["out"] = WholeModule

\* Which blocks the compiler may still hold, at each place.
HeapInv ==
  /\ pc = "header" => heap = {}
  /\ pc \in {"expand", "decode", "find", "analyze", "failed"} => heap \subseteq Tables
  /\ pc = "init" => heap \subseteq Tables \cup {"out"}
  /\ pc = "emit" => heap \subseteq Tables \cup {"out", "sec", "body"}
  /\ pc = "returned" /\ ret = 0 => heap \subseteq {"out"}
  /\ pc = "returned" /\ ret # 0 => heap \subseteq {"sec"} /\ (~ scarce => heap = {})

\* The result, and the module that goes with it.
ResultInv ==
  /\ pc # "returned" => ret = 1 /\ wasm = NoModule
  /\ pc = "returned" => /\ ret = 0 <=> wasm # NoModule
                        /\ ret = 0 /\ ~ scarce => wasm = WholeModule

CompileInv == CompileTypeInv /\ BufferInv /\ MeaningInv /\ HeapInv /\ ResultInv

LEMMA CompileInitially == CompileInit => CompileInv
<1> SUFFICES ASSUME CompileInit PROVE CompileInv OBVIOUS
<1>1. CompileTypeInv
      BY DEF CompileInit, CompileTypeInv, Buffers, Buffer, Places
<1>2. BufferInv BY DEF CompileInit, BufferInv, BufferFits
<1>3. MeaningInv /\ HeapInv /\ ResultInv BY DEF CompileInit, MeaningInv, HeapInv, ResultInv
<1>4. QED BY <1>1, <1>2, <1>3 DEF CompileInv

\* The next word, and the buffers, are of the expected kinds.
LEMMA HeadOfWork ==
  ASSUME CompileTypeInv, work # <<>>
  PROVE  /\ Head(work) \in QueuedWord /\ Tail(work) \in Seq(QueuedWord)
         /\ Head(work).to \in {"sec", "body"} => Head(work).what \in Seq(Token)
         /\ Head(work).to \in {"reset", "section", "frame"} => Head(work).what[1] \in {"sec", "body"}
<1>1. Head(work) \in QueuedWord /\ Tail(work) \in Seq(QueuedWord) BY DEF CompileTypeInv
<1>2. Head(work) \in ContentWord \/ Head(work) \in ControlWord BY <1>1 DEF QueuedWord
<1>3. CASE Head(work) \in ContentWord
  <2>1. Head(work).to \in {"sec", "body"} /\ Head(work).what \in Seq(Token)
        BY <1>3 DEF ContentWord
  <2>2. QED BY <1>1, <2>1
<1>4. CASE Head(work) \in ControlWord
  <2>1. Head(work).to \in {"reset", "section", "frame"} /\ Head(work).what[1] \in {"sec", "body"}
        BY <1>4 DEF ControlWord
  <2>2. QED BY <1>1, <2>1
<1>5. QED BY <1>2, <1>3, <1>4

LEMMA BufferFacts ==
  ASSUME CompileTypeInv, BufferInv, NEW k \in Buffers
  PROVE  /\ bufs[k] \in Buffer /\ bufs[k].data \in Seq(Token) /\ Len(bufs[k].data) <= bufs[k].cap
         /\ pc = "emit" => Fits(bufs[k])
         /\ Data \in Contents /\ Data[k] = bufs[k].data
<1>1. bufs \in [Buffers -> Buffer] BY DEF CompileTypeInv
<1>2. \A j \in Buffers : bufs[j] \in Buffer /\ bufs[j].data \in Seq(Token)
      BY <1>1 DEF Buffer
<1>3. Len(bufs[k].data) <= bufs[k].cap BY <1>1 DEF BufferInv, BufferFits
<1>4. pc = "emit" => Fits(bufs[k]) BY <1>2, <1>3 DEF BufferInv, Fits
<1>5. QED BY <1>2, <1>3, <1>4 DEF Data, Contents

\* An emit call: one buffer changes, and stays inside its block.
LEMMA EmitKeeps ==
  ASSUME CompileInv, pc = "emit", work # <<>>,
         NEW k \in Buffers, NEW b, Fits(b), bufs' = [bufs EXCEPT ![k] = b],
         k = "out" => Len(b.data) >= Len(bufs[k].data),
         ~ scarce => [Data EXCEPT ![k] = b.data] = AfterWord(Head(work), Data),
         Proceed
  PROVE  CompileInv'
<1>0. CompileTypeInv /\ BufferInv /\ MeaningInv /\ HeapInv /\ ResultInv BY DEF CompileInv
<1>1. /\ pc' = pc /\ heap' = heap /\ scarce' = scarce /\ wasm' = wasm /\ ret' = ret
      /\ work' = Tail(work)
      BY DEF Proceed
<1>2. bufs \in [Buffers -> Buffer] /\ b \in Buffer BY <1>0 DEF CompileTypeInv, Fits
<1>3. CompileTypeInv'
  <2>1. bufs' \in [Buffers -> Buffer] BY <1>2
  <2>2. work' \in Seq(QueuedWord) BY <1>0, <1>1, HeadOfWork
  <2>3. QED BY <1>0, <1>1, <2>1, <2>2 DEF CompileTypeInv
<1>4. \A j \in Buffers : bufs'[j] = IF j = k THEN b ELSE bufs[j] BY <1>2
<1>5. BufferInv'
  <2>1. \A j \in Buffers : Fits(bufs[j]) BY <1>0, BufferFacts
  <2>2. \A j \in Buffers : Fits(bufs'[j]) BY <1>4, <2>1
  <2>3. DOMAIN bufs' = Buffers BY <1>2
  <2>4. BufferFits' BY <2>2, <2>3 DEF BufferFits, Fits
  <2>5. bufs'["out"].data # <<>>
    <3>1. "out" \in Buffers BY DEF Buffers
    <3>2. bufs["out"].data # <<>> /\ bufs["out"].data \in Seq(Token)
          BY <1>0, <3>1, BufferFacts DEF BufferInv
    <3>3. CASE k = "out"
      <4>1. b.data \in Seq(Token) /\ Len(b.data) >= Len(bufs["out"].data)
            BY <1>2, <3>3 DEF Buffer
      <4>2. Len(bufs["out"].data) >= 1 BY <3>2
      <4>3. b.data # <<>> BY <4>1, <4>2
      <4>4. QED BY <1>4, <3>1, <3>3, <4>3
    <3>4. CASE k # "out" BY <1>4, <3>1, <3>2, <3>4
    <3>5. QED BY <3>3, <3>4
  <2>6. \A j \in Buffers : bufs'[j].cap >= 1 BY <2>2 DEF Fits
  <2>7. QED BY <1>1, <2>4, <2>5, <2>6 DEF BufferInv
<1>6. MeaningInv'
  <2> SUFFICES ASSUME ~ scarce
               PROVE  \E y \in Contents : Leads(work', Data', y) /\ y["out"] = WholeModule
      BY <1>1 DEF MeaningInv
  <2>1. PICK y \in Contents : Leads(work, Data, y) /\ y["out"] = WholeModule
        BY <1>0 DEF MeaningInv
  <2>2. Data' = [Data EXCEPT ![k] = b.data] BY <1>4 DEF Data
  <2>3. work \in Seq(QueuedWord) BY <1>0 DEF CompileTypeInv
  <2>4. Leads(Tail(work), AfterWord(Head(work), Data), y) BY <2>1, <2>3, LeadsOn
  <2>5. QED BY <1>1, <2>1, <2>2, <2>4
<1>7. HeapInv' BY <1>0, <1>1 DEF HeapInv
<1>8. ResultInv' BY <1>0, <1>1 DEF ResultInv
<1>9. QED BY <1>3, <1>5, <1>6, <1>7, <1>8 DEF CompileInv

\* One lemma per step of QVM2WASM_Compile.
LEMMA PassKeeps ==
  ASSUME CompileInv,
         \/ RejectHeader \/ AcceptHeader \/ ExpandCode \/ FindFunctions \/ AllocAnalysis
         \/ RejectCode \/ AllocFailed \/ InitSectionsFails
  PROVE  CompileInv'
<1>0. CompileTypeInv /\ BufferInv /\ MeaningInv /\ HeapInv /\ ResultInv BY DEF CompileInv
<1>1. bufs' = bufs /\ work' = work /\ scarce' = scarce
      BY DEF RejectHeader, AcceptHeader, ExpandCode, FindFunctions, AllocAnalysis, RejectCode,
             AllocFailed, InitSectionsFails, Allocate, FailPass
<1>2. /\ pc' \in Places /\ pc' \notin {"init", "emit"} /\ pc # "returned"
      /\ pc' # "returned" => ret' = ret /\ wasm' = wasm
      /\ pc' = "returned" => ret' = -1 /\ wasm' = NoModule
      BY <1>0 DEF CompileTypeInv, Places, RejectHeader, AcceptHeader, ExpandCode, FindFunctions,
             AllocAnalysis, RejectCode, AllocFailed, InitSectionsFails, Allocate, FailPass,
             Return, Goto
<1>3. CompileTypeInv' BY <1>0, <1>1, <1>2 DEF CompileTypeInv
<1>4. BufferInv' BY <1>0, <1>1, <1>2 DEF BufferInv, BufferFits
<1>5. MeaningInv' BY <1>2 DEF MeaningInv
<1>6. ResultInv' BY <1>0, <1>2 DEF ResultInv
<1>7. HeapInv'
  <2>1. CASE RejectHeader BY <1>0, <2>1
                             DEF HeapInv, RejectHeader, Allocate, FailPass, Free, Return,
                                 Goto, Tables
  <2>2. CASE AcceptHeader BY <1>0, <2>2
                             DEF HeapInv, AcceptHeader, Allocate, FailPass, Free, Return,
                                 Goto, Tables
  <2>3. CASE ExpandCode BY <1>0, <2>3
                           DEF HeapInv, ExpandCode, Allocate, FailPass, Free, Return, Goto,
                               Tables
  <2>4. CASE FindFunctions BY <1>0, <2>4
                              DEF HeapInv, FindFunctions, Allocate, FailPass, Free, Return,
                                  Goto, Tables
  <2>5. CASE AllocAnalysis BY <1>0, <2>5
                              DEF HeapInv, AllocAnalysis, Allocate, FailPass, Free, Return,
                                  Goto, Tables
  <2>6. CASE RejectCode BY <1>0, <2>6
                           DEF HeapInv, RejectCode, Allocate, FailPass, Free, Return, Goto,
                               Tables
  <2>7. CASE AllocFailed BY <1>0, <2>7
                            DEF HeapInv, AllocFailed, Allocate, FailPass, Free, Return,
                                Goto, Tables
  <2>8. CASE InitSectionsFails
    <3>1. scarce BY <2>8, <1>0 DEF InitSectionsFails, AllocationFails, CompileTypeInv
    <3>2. heap \subseteq Tables \cup {"out"} BY <1>0, <2>8 DEF HeapInv, InitSectionsFails
    <3>3. PICK got \in {{}, {"sec"}} : heap' = (heap \ (Tables \cup {"out"})) \cup got
          BY <2>8 DEF InitSectionsFails
    <3>4. heap' \subseteq {"sec"} BY <3>2, <3>3
    <3>5. pc' = "returned" /\ ret' = -1 BY <2>8 DEF InitSectionsFails, Return
    <3>6. QED BY <1>1, <3>1, <3>4, <3>5 DEF HeapInv
  <2>9. QED BY <2>1, <2>2, <2>3, <2>4, <2>5, <2>6, <2>7, <2>8
<1>8. QED BY <1>3, <1>4, <1>5, <1>6, <1>7 DEF CompileInv

LEMMA InitOutKeeps == ASSUME CompileInv, InitOut PROVE CompileInv'
<1>0. CompileTypeInv /\ BufferInv /\ MeaningInv /\ HeapInv /\ ResultInv BY DEF CompileInv
<1>1. pc = "analyze" /\ \E fails \in AllocationFails :
        IF fails THEN FailPass
        ELSE /\ heap' = heap \cup {"out"}
             /\ bufs' = [bufs EXCEPT !["out"] = NewBuffer]
             /\ Goto("init")
             /\ UNCHANGED <<scarce, work>>
      BY DEF InitOut
<1>2. CASE FailPass
  <2>1. RejectCode BY <1>1, <1>2 DEF RejectCode
  <2>2. QED BY <2>1, PassKeeps
<1>3. CASE /\ heap' = heap \cup {"out"}
           /\ bufs' = [bufs EXCEPT !["out"] = NewBuffer]
           /\ Goto("init")
           /\ UNCHANGED <<scarce, work>>
  <2>1. pc' = "init" /\ ret' = ret /\ wasm' = wasm BY <1>3 DEF Goto
  <2>2. bufs \in [Buffers -> Buffer] /\ "out" \in Buffers BY <1>0 DEF CompileTypeInv, Buffers
  <2>3. NewBuffer \in Buffer /\ Len(NewBuffer.data) <= NewBuffer.cap
        BY InitialCapAssumption DEF NewBuffer, Buffer
  <2>4. CompileTypeInv' BY <1>0, <1>3, <2>1, <2>2, <2>3 DEF CompileTypeInv, Places
  <2>5. BufferInv'
    <3> HIDE DEF NewBuffer
    <3>1. BufferFits' BY <1>0, <1>3, <2>2, <2>3 DEF BufferInv, BufferFits
    <3>2. bufs'["out"] = NewBuffer BY <1>3, <2>2
    <3>3. QED BY <2>1, <3>1, <3>2 DEF BufferInv, NewBuffer
  <2>6. MeaningInv' BY <2>1 DEF MeaningInv
  <2>7. HeapInv' BY <1>0, <1>1, <1>3, <2>1 DEF HeapInv
  <2>8. ResultInv' BY <1>0, <1>1, <2>1 DEF ResultInv
  <2>9. QED BY <2>4, <2>5, <2>6, <2>7, <2>8 DEF CompileInv
<1>4. QED BY <1>1, <1>2, <1>3

LEMMA InitSectionsKeeps == ASSUME CompileInv, InitSections PROVE CompileInv'
<1>0. CompileTypeInv /\ BufferInv /\ MeaningInv /\ HeapInv /\ ResultInv BY DEF CompileInv
<1>1. /\ pc = "init" /\ work' = EmitModule /\ scarce' = scarce
      /\ heap' = heap \cup {"sec", "body"}
      /\ pc' = "emit" /\ ret' = ret /\ wasm' = wasm
      BY DEF InitSections, Goto
<1>2. PICK b \in Emitted(bufs["out"], Header) :
        bufs' = [out |-> b, sec |-> NewBuffer, body |-> NewBuffer]
      BY DEF InitSections
<1>3. bufs["out"] = NewBuffer /\ scarce \in BOOLEAN
      BY <1>0, <1>1 DEF BufferInv, CompileTypeInv
<1>4. NewBuffer \in Buffer /\ NewBuffer.data = <<>> /\ NewBuffer.cap >= 1 /\ Fits(NewBuffer)
      BY InitialCapAssumption DEF NewBuffer, Buffer, Fits
<1>5. Fits(b) /\ b.data = Header
  <2>1. Header \in Seq(Token) /\ Len(Header) = 1 BY TagTyped DEF Header
  <2>2. Len(NewBuffer.data) + Len(Header) <= NewBuffer.cap
        BY <2>1, InitialCapAssumption DEF NewBuffer
  <2>3. Fits(b) /\ b.data = NewBuffer.data \o Header
        BY <1>3, <1>4, <2>1, <2>2, EmittedFits
  <2>4. <<>> \o Header = Header BY <2>1, EmptyInFront
  <2>5. QED BY <1>4, <2>3, <2>4
<1> HIDE DEF NewBuffer
<1>6. bufs' \in [Buffers -> Buffer] BY <1>2, <1>4, <1>5 DEF Fits, Buffers
<1>7. bufs'["out"] = b /\ bufs'["sec"] = NewBuffer /\ bufs'["body"] = NewBuffer BY <1>2
<1>8. \A k \in Buffers : Fits(bufs'[k]) BY <1>4, <1>5, <1>7 DEF Buffers
<1>9. CompileTypeInv'
      BY <1>0, <1>1, <1>6, EmitModuleTyped DEF CompileTypeInv, Places
<1>10. BufferInv'
  <2>1. DOMAIN bufs' = Buffers BY <1>6
  <2>2. BufferFits' BY <1>8, <2>1 DEF BufferFits, Fits
  <2>3. bufs'["out"].data # <<>> BY <1>5, <1>7, TagTyped
  <2>4. QED BY <1>1, <1>8, <2>2, <2>3 DEF BufferInv, Fits
<1>11. MeaningInv'
  <2>1. Data' \in Contents BY <1>8 DEF Data, Contents, Fits, Buffer
  <2>2. Data'["out"] = Header BY <1>5, <1>7 DEF Data, Buffers
  <2>3. \E y \in Contents : Leads(EmitModule, Data', y) /\ y["out"] = WholeModule
        BY <2>1, <2>2, ModuleLeads
  <2>4. QED BY <1>1, <2>3 DEF MeaningInv
<1>12. HeapInv' BY <1>0, <1>1 DEF HeapInv
<1>13. ResultInv' BY <1>0, <1>1 DEF ResultInv
<1>14. QED BY <1>9, <1>10, <1>11, <1>12, <1>13 DEF CompileInv

LEMMA EmitContentKeeps == ASSUME CompileInv, EmitContent PROVE CompileInv'
<1>0. CompileTypeInv /\ BufferInv BY DEF CompileInv
<1>1. PICK k \in {"sec", "body"} : /\ Emitting(k)
                                   /\ \E b \in Emitted(bufs[k], Head(work).what) :
                                        bufs' = [bufs EXCEPT ![k] = b]
                                   /\ Proceed
      BY DEF EmitContent
<1>2. PICK b \in Emitted(bufs[k], Head(work).what) : bufs' = [bufs EXCEPT ![k] = b] BY <1>1
<1>3. pc = "emit" /\ work # <<>> /\ Head(work).to = k /\ k \in Buffers /\ scarce \in BOOLEAN
      BY <1>0, <1>1 DEF Emitting, Buffers, CompileTypeInv
<1>4. Head(work).what \in Seq(Token) BY <1>0, <1>3, HeadOfWork
<1>5. Fits(bufs[k]) /\ Data[k] = bufs[k].data BY <1>0, <1>3, BufferFacts
<1>6. Fits(b) /\ (~ scarce => b.data = bufs[k].data \o Head(work).what)
      BY <1>3, <1>4, <1>5, EmittedFits
<1>7. AfterWord(Head(work), Data) = [Data EXCEPT ![k] = Data[k] \o Head(work).what]
      BY <1>3 DEF AfterWord
<1>8. ~ scarce => [Data EXCEPT ![k] = b.data] = AfterWord(Head(work), Data)
      BY <1>5, <1>6, <1>7
<1>9. k # "out" OBVIOUS
<1>10. QED BY <1>1, <1>2, <1>3, <1>6, <1>8, <1>9, EmitKeeps

LEMMA ResetBufferKeeps == ASSUME CompileInv, ResetBuffer PROVE CompileInv'
<1>0. CompileTypeInv /\ BufferInv BY DEF CompileInv
<1> DEFINE k == Head(work).what[1]
           b == [bufs[k] EXCEPT !.data = <<>>]
<1>1. pc = "emit" /\ work # <<>> /\ Head(work).to = "reset" /\ Proceed
      BY DEF ResetBuffer, Emitting
<1>2. k \in {"sec", "body"} BY <1>0, <1>1, HeadOfWork
<1>3. k \in Buffers /\ k # "out" BY <1>2 DEF Buffers
<1>4. bufs' = [bufs EXCEPT ![k] = b] BY DEF ResetBuffer
<1>5. AfterWord(Head(work), Data) = [Data EXCEPT ![k] = <<>>] BY <1>1 DEF AfterWord
<1> HIDE DEF k
<1>6. Fits(bufs[k]) BY <1>0, <1>1, <1>3, BufferFacts
<1>7. Fits(b) /\ b.data = <<>>
  <2> DEFINE o == bufs[k]
  <2>1. o \in Buffer /\ o.cap >= 1 BY <1>6 DEF Fits
  <2>2. b = [o EXCEPT !.data = <<>>] OBVIOUS
  <2> HIDE DEF o, b
  <2>3. b \in Buffer /\ b.cap = o.cap /\ b.data = <<>>
    <3> DEFINE e == <<>>
    <3>1. e \in Seq(Token) OBVIOUS
    <3>2. o = [cap |-> o.cap, data |-> o.data] /\ o.cap \in Nat BY <2>1 DEF Buffer
    <3> HIDE DEF e
    <3>3. [o EXCEPT !.data = e] = [cap |-> o.cap, data |-> e] BY <3>2
    <3>4. [o EXCEPT !.data = e] \in Buffer BY <3>1, <3>2, <3>3 DEF Buffer
    <3>5. QED BY <2>2, <3>3, <3>4 DEF e
  <2>4. Len(b.data) = 0 /\ o.cap \in Nat BY <2>1, <2>3 DEF Buffer
  <2>5. QED BY <2>1, <2>3, <2>4 DEF Fits
<1> HIDE DEF b
<1>8. [Data EXCEPT ![k] = b.data] = AfterWord(Head(work), Data) BY <1>5, <1>7
<1>9. QED BY <1>1, <1>3, <1>4, <1>7, <1>8, EmitKeeps

LEMMA EmitSectionKeeps == ASSUME CompileInv, EmitSection PROVE CompileInv'
<1>0. CompileTypeInv /\ BufferInv BY DEF CompileInv
<1>1. /\ pc = "emit" /\ work # <<>> /\ Head(work).to = "section" /\ Proceed
      /\ scarce \in BOOLEAN
      BY <1>0 DEF EmitSection, Emitting, CompileTypeInv
<1>2. PICK b \in EmittedFrame(bufs["out"], SectionId, bufs["sec"].data) :
        bufs' = [bufs EXCEPT !["out"] = b]
      BY DEF EmitSection
<1>3. "out" \in Buffers /\ "sec" \in Buffers BY DEF Buffers
<1>4. /\ Fits(bufs["out"]) /\ bufs["sec"].data \in Seq(Token)
      /\ Data["out"] = bufs["out"].data /\ Data["sec"] = bufs["sec"].data
      BY <1>0, <1>1, <1>3, BufferFacts
<1>5. /\ Fits(b) /\ Len(b.data) >= Len(bufs["out"].data)
      /\ ~ scarce => b.data = ((bufs["out"].data \o SectionId) \o <<LengthOf(bufs["sec"].data)>>)
                              \o bufs["sec"].data
  <2> DEFINE o == bufs["out"]
             d == bufs["sec"].data
  <2>1. /\ Fits(o) /\ d \in Seq(Token) /\ SectionId \in Seq(Token) /\ scarce \in BOOLEAN
        /\ b \in EmittedFrame(o, SectionId, d)
        BY <1>1, <1>2, <1>4, TagTyped
  <2> HIDE DEF o, d
  <2>2. /\ Fits(b) /\ Len(b.data) >= Len(o.data)
        /\ ~ scarce => b.data = ((o.data \o SectionId) \o <<LengthOf(d)>>) \o d
        BY <2>1, FrameFits
  <2>3. QED BY <2>2, Zenon DEF o, d
<1>6. AfterWord(Head(work), Data) = [Data EXCEPT !["out"] =
        ((Data["out"] \o SectionId) \o <<LengthOf(Data["sec"])>>) \o Data["sec"]]
      BY <1>1 DEF AfterWord
<1>7. ~ scarce => [Data EXCEPT !["out"] = b.data] = AfterWord(Head(work), Data)
      BY <1>4, <1>5, <1>6
<1>8. QED BY <1>1, <1>2, <1>3, <1>5, <1>7, EmitKeeps

LEMMA EmitBodyKeeps == ASSUME CompileInv, EmitBody PROVE CompileInv'
<1>0. CompileTypeInv /\ BufferInv BY DEF CompileInv
<1>1. /\ pc = "emit" /\ work # <<>> /\ Head(work).to = "frame" /\ Proceed
      /\ scarce \in BOOLEAN
      BY <1>0 DEF EmitBody, Emitting, CompileTypeInv
<1>2. PICK b \in EmittedFrame(bufs["sec"], <<>>, bufs["body"].data) :
        bufs' = [bufs EXCEPT !["sec"] = b]
      BY DEF EmitBody
<1>3. "sec" \in Buffers /\ "body" \in Buffers /\ "sec" # "out" BY DEF Buffers
<1>4. /\ Fits(bufs["sec"]) /\ bufs["body"].data \in Seq(Token)
      /\ Data["sec"] = bufs["sec"].data /\ Data["body"] = bufs["body"].data
      BY <1>0, <1>1, <1>3, BufferFacts
<1>5. /\ Fits(b)
      /\ ~ scarce => b.data = ((bufs["sec"].data \o <<>>) \o <<LengthOf(bufs["body"].data)>>)
                              \o bufs["body"].data
  <2> DEFINE o == bufs["sec"]
             d == bufs["body"].data
             e == <<>>
  <2>1. /\ Fits(o) /\ d \in Seq(Token) /\ e \in Seq(Token) /\ scarce \in BOOLEAN
        /\ b \in EmittedFrame(o, e, d)
        BY <1>1, <1>2, <1>4
  <2> HIDE DEF o, d, e
  <2>2. /\ Fits(b) /\ Len(b.data) >= Len(o.data)
        /\ ~ scarce => b.data = ((o.data \o e) \o <<LengthOf(d)>>) \o d
        BY <2>1, FrameFits
  <2>3. QED BY <2>2, Zenon DEF o, d, e
<1>6. AfterWord(Head(work), Data) = [Data EXCEPT !["sec"] =
        ((Data["sec"] \o <<>>) \o <<LengthOf(Data["body"])>>) \o Data["body"]]
      BY <1>1 DEF AfterWord
<1>7. ~ scarce => [Data EXCEPT !["sec"] = b.data] = AfterWord(Head(work), Data)
      BY <1>4, <1>5, <1>6
<1>8. QED BY <1>1, <1>2, <1>3, <1>5, <1>7, EmitKeeps

LEMMA FinishKeeps == ASSUME CompileInv, Finish PROVE CompileInv'
<1>0. CompileTypeInv /\ BufferInv /\ MeaningInv /\ HeapInv /\ ResultInv BY DEF CompileInv
<1>1. /\ pc = "emit" /\ work = <<>> /\ heap' = heap \ (Tables \cup {"sec", "body"})
      /\ pc' = "returned" /\ ret' = 0 /\ wasm' = bufs["out"].data
      /\ scarce' = scarce /\ bufs' = bufs /\ work' = work
      BY DEF Finish, Free, Return, Scratch
<1>2. "out" \in Buffers BY DEF Buffers
<1>3. bufs["out"].data # <<>> /\ Data \in Contents /\ Data["out"] = bufs["out"].data
      BY <1>0, <1>1, <1>2, BufferFacts DEF BufferInv
<1>4. ~ scarce => wasm' = WholeModule
  <2> SUFFICES ASSUME ~ scarce PROVE wasm' = WholeModule OBVIOUS
  <2>1. PICK y \in Contents : Leads(<<>>, Data, y) /\ y["out"] = WholeModule
        BY <1>0, <1>1 DEF MeaningInv
  <2>2. y = Data BY <1>3, <2>1, LeadsNowhere
  <2>3. QED BY <1>1, <1>3, <2>1, <2>2
<1>5. CompileTypeInv' BY <1>0, <1>1 DEF CompileTypeInv, Places
<1>6. BufferInv' BY <1>0, <1>1 DEF BufferInv, BufferFits
<1>7. MeaningInv' BY <1>1 DEF MeaningInv
<1>8. HeapInv' BY <1>0, <1>1 DEF HeapInv
<1>9. ResultInv' BY <1>1, <1>3, <1>4 DEF ResultInv, NoModule
<1>10. QED BY <1>5, <1>6, <1>7, <1>8, <1>9 DEF CompileInv

LEMMA CompileKeeps == CompileInv /\ CompileNext => CompileInv'
BY PassKeeps, InitOutKeeps, InitSectionsKeeps, EmitContentKeeps, ResetBufferKeeps,
   EmitSectionKeeps, EmitBodyKeeps, FinishKeeps, Zenon DEF CompileNext

LEMMA CompileStays ==
  ASSUME CompileInv, UNCHANGED <<pc, scarce, bufs, work, wasm, ret>>, heap' \subseteq heap
  PROVE  CompileInv'
<1>0. CompileTypeInv /\ BufferInv /\ MeaningInv /\ HeapInv /\ ResultInv BY DEF CompileInv
<1>1. CompileTypeInv' /\ BufferInv' BY <1>0 DEF CompileTypeInv, BufferInv, BufferFits
<1>2. MeaningInv' BY <1>0 DEF MeaningInv, Data
<1>3. HeapInv' /\ ResultInv' BY <1>0 DEF HeapInv, ResultInv
<1>4. QED BY <1>1, <1>2, <1>3 DEF CompileInv

-----------------------------------------------------------------------------
(* The driver and the compiler together.                                   *)

\* The driver calls the compiler in stage "translate" and owns the module afterwards.
TogetherInv ==
  /\ stage \notin {"translate", "openout", "write", "close", "over"} => pc = "header"
  /\ stage \in {"openout", "write", "close"} => pc = "returned" /\ ret = 0 /\ "wasm" \in held
  /\ "wasm" \in held => stage \in {"openout", "write", "close"}
  /\ stage = "args" \/ how = "return" => held = {}
  /\ stage = "over" => heap \subseteq {"sec"} /\ (~ scarce => heap = {})

Inv == DriverInv /\ CompileInv /\ TogetherInv

\* One case per action of main().
LEMMA MainKeeps ==
  ASSUME DriverTypeInv, HeapInv, TogetherInv, Main
  PROVE  TogetherInv'
<1>1. /\ Next /\ Returned /\ heap' = heap \ Freed
      /\ pc' = pc /\ ret' = ret /\ scarce' = scarce
      BY DEF Main
<1>2. CASE OptionRun
      BY <1>1, <1>2
         DEF DriverTypeInv, HeapInv, TogetherInv, Returned, Freed, OptionRun, At, Ends,
             GoOn, options, files, Next1
<1>3. CASE OptionOut
      BY <1>1, <1>3
         DEF DriverTypeInv, HeapInv, TogetherInv, Returned, Freed, OptionOut, At, Ends,
             GoOn, options, files, Next1
<1>4. CASE OptionHelp
      BY <1>1, <1>4
         DEF DriverTypeInv, HeapInv, TogetherInv, Returned, Freed, OptionHelp, At, Ends,
             GoOn, options, files, Next1
<1>5. CASE InPath
      BY <1>1, <1>5
         DEF DriverTypeInv, HeapInv, TogetherInv, Returned, Freed, InPath, At, Ends, GoOn,
             options, files, Next1
<1>6. CASE Remaining
      BY <1>1, <1>6
         DEF DriverTypeInv, HeapInv, TogetherInv, Returned, Freed, Remaining, At, Ends,
             GoOn, options, files, Next1
<1>7. CASE ArgsOver
      BY <1>1, <1>7
         DEF DriverTypeInv, HeapInv, TogetherInv, Returned, Freed, ArgsOver, At, Ends, GoOn,
             options, files
<1>8. CASE HostArgs
      BY <1>1, <1>8
         DEF DriverTypeInv, HeapInv, TogetherInv, Returned, Freed, HostArgs, At, Ends, GoOn,
             options, files
<1>9. CASE LoadFails
      BY <1>1, <1>9
         DEF DriverTypeInv, HeapInv, TogetherInv, Returned, Freed, LoadFails, At, Ends,
             GoOn, options, files
<1>10. CASE OpenImage
      BY <1>1, <1>10
         DEF DriverTypeInv, HeapInv, TogetherInv, Returned, Freed, OpenImage, At, Ends,
             GoOn, options, files
<1>11. CASE SizeImage
      BY <1>1, <1>11
         DEF DriverTypeInv, HeapInv, TogetherInv, Returned, Freed, SizeImage, At, Ends,
             GoOn, options, files
<1>12. CASE AllocImage
      BY <1>1, <1>12
         DEF DriverTypeInv, HeapInv, TogetherInv, Returned, Freed, AllocImage, At, Ends,
             GoOn, options, files
<1>13. CASE ReadImage
      BY <1>1, <1>13
         DEF DriverTypeInv, HeapInv, TogetherInv, Returned, Freed, ReadImage, At, Ends,
             GoOn, options, files, Loaded
<1>14. CASE VM_Create
      BY <1>1, <1>14
         DEF DriverTypeInv, HeapInv, TogetherInv, Returned, Freed, VM_Create, At, Ends,
             GoOn, options, files
<1>15. CASE VM_Call
      BY <1>1, <1>15
         DEF DriverTypeInv, HeapInv, TogetherInv, Returned, Freed, VM_Call, At, Ends, GoOn,
             options, files
<1>16. CASE FreeAll
      BY <1>1, <1>16
         DEF DriverTypeInv, HeapInv, TogetherInv, Returned, Freed, FreeAll, At, Ends, GoOn,
             options, files
<1>17. CASE Translate
      BY <1>1, <1>17
         DEF DriverTypeInv, HeapInv, TogetherInv, Returned, Freed, Translate, At, Ends,
             GoOn, options, files
<1>18. CASE OpenOut
      BY <1>1, <1>18
         DEF DriverTypeInv, HeapInv, TogetherInv, Returned, Freed, OpenOut, At, Ends, GoOn,
             options, files
<1>19. CASE WriteShort
      BY <1>1, <1>19
         DEF DriverTypeInv, HeapInv, TogetherInv, Returned, Freed, WriteShort, At, Ends,
             GoOn, options, files
<1>20. CASE WriteAll
      BY <1>1, <1>20
         DEF DriverTypeInv, HeapInv, TogetherInv, Returned, Freed, WriteAll, At, Ends, GoOn,
             options, files
<1>21. CASE CloseOut
      BY <1>1, <1>21
         DEF DriverTypeInv, HeapInv, TogetherInv, Returned, Freed, CloseOut, At, Ends, GoOn,
             options, files
<1>22. CASE EnginePrepares
      BY <1>1, <1>22
         DEF DriverTypeInv, HeapInv, TogetherInv, Returned, Freed, EnginePrepares, At, Ends,
             GoOn, options, files
<1>23. CASE EngineCalls
      BY <1>1, <1>23
         DEF DriverTypeInv, HeapInv, TogetherInv, Returned, Freed, EngineCalls, At, Ends,
             GoOn, options, files
<1>24. QED BY <1>1, <1>2, <1>3, <1>4, <1>5, <1>6, <1>7, <1>8, <1>9, <1>10, <1>11, <1>12,
              <1>13, <1>14, <1>15, <1>16, <1>17, <1>18, <1>19, <1>20, <1>21, <1>22, <1>23
              DEF Next

(***************************************************************************)
(* The driver and QVM2WASM_Compile together: what each emit call finds in  *)
(* the buffers, which blocks are held, and what the result says.           *)
(***************************************************************************)
THEOREM CompilerRight == Qvm2wasmSpec => []Inv
<1>1. Qvm2wasmInit => Inv
  <2> SUFFICES ASSUME Qvm2wasmInit PROVE Inv OBVIOUS
  <2>1. DriverInv BY DriverInitially DEF Qvm2wasmInit
  <2>2. CompileInv BY CompileInitially DEF Qvm2wasmInit
  <2>3. TogetherInv BY DEF Qvm2wasmInit, Init, CompileInit, TogetherInv
  <2>4. QED BY <2>1, <2>2, <2>3 DEF Inv
<1>2. Inv /\ [Qvm2wasmNext]_<<vars, compileVars>> => Inv'
  <2> SUFFICES ASSUME Inv, [Qvm2wasmNext]_<<vars, compileVars>> PROVE Inv' OBVIOUS
  <2>0. /\ DriverInv /\ CompileInv /\ TogetherInv
        /\ DriverTypeInv /\ HeapInv
        BY DEF Inv, DriverInv, CompileInv
  <2>1. CASE Main
    <3>1. DriverInv' BY <2>0, <2>1, DriverKeeps DEF Main
    <3>2. CompileInv' BY <2>0, <2>1, CompileStays DEF Main
    <3>3. TogetherInv' BY <2>0, <2>1, MainKeeps
    <3>4. QED BY <3>1, <3>2, <3>3 DEF Inv
  <2>2. CASE QVM2WASM_Compile
    <3>1. DriverInv' BY <2>0, <2>2, DriverStutters DEF QVM2WASM_Compile
    <3>2. CompileInv' BY <2>0, <2>2, CompileKeeps DEF QVM2WASM_Compile
    <3>3. TogetherInv' BY <2>0, <2>2 DEF TogetherInv, QVM2WASM_Compile, Compiling, At, vars
    <3>4. QED BY <3>1, <3>2, <3>3 DEF Inv
  <2>3. CASE UNCHANGED <<vars, compileVars>>
    <3>1. DriverInv' BY <2>0, <2>3, DriverStutters
    <3>2. CompileInv' BY <2>0, <2>3, CompileStays DEF compileVars
    <3>3. TogetherInv' BY <2>0, <2>3 DEF TogetherInv, vars, compileVars
    <3>4. QED BY <3>1, <3>2, <3>3 DEF Inv
  <2>4. QED BY <2>1, <2>2, <2>3 DEF Qvm2wasmNext
<1>3. QED BY <1>1, <1>2, PTL DEF Qvm2wasmSpec

(***************************************************************************)
(* When main() returns, it holds no block and no file of its own, and a    *)
(* compilation leaves none either unless an allocation failed, when at most*)
(* the section buffer is lost.                                             *)
(***************************************************************************)
THEOREM BlocksReturned == Qvm2wasmSpec => []ReturnsClean
<1>1. Inv => ReturnsClean
  <2> SUFFICES ASSUME Inv PROVE ReturnsClean OBVIOUS
  <2>1. DriverTypeInv /\ ResultInv /\ TogetherInv BY DEF Inv, DriverInv, CompileInv
  <2>2. pc = "returned" => (ret = 0 <=> wasm # NoModule) BY <2>1 DEF ResultInv
  <2>3. ASSUME how = "return" PROVE stage = "over" BY <2>1, <2>3 DEF DriverTypeInv
  <2>4. QED BY <2>1, <2>2, <2>3 DEF ReturnsClean, TogetherInv
<1>2. QED BY <1>1, CompilerRight, PTL

(***************************************************************************)
(* With memory enough, a compilation that returns success has made the     *)
(* whole module: every section and every body once, in order, each with the*)
(* length of what follows it, although sections and bodies are collected in*)
(* two buffers that are reset, framed and moved into a third; and no buffer*)
(* is ever written past its block.                                         *)
(***************************************************************************)
THEOREM ModuleComplete == Qvm2wasmSpec => []CompleteWithMemory
<1>1. Inv => CompleteWithMemory
  <2> SUFFICES ASSUME Inv PROVE CompleteWithMemory OBVIOUS
  <2>1. BufferInv /\ ResultInv BY DEF Inv, CompileInv
  <2>2. ret = 0 => pc = "returned" BY <2>1 DEF ResultInv
  <2>3. QED BY <2>1, <2>2 DEF CompleteWithMemory, BufferInv, ResultInv
<1>2. QED BY <1>1, CompilerRight, PTL

-----------------------------------------------------------------------------
(* The names of the files that the commands make.                          *)

\* The characters of an argument, and those of the names that the driver makes.
Character == STRING \cup {".", "w", "m", ""}

\* Arguments are strings of such characters.
LEMMA OfCharacters ==
  ASSUME NEW C, NEW a \in C, NEW b \in C
  PROVE  <<a, b>> \in Seq(C) /\ Len(<<a, b>>) = 2 /\ <<a>> \in Seq(C)
OBVIOUS

LEMMA ArgumentOfCharacters ==
  ASSUME NEW s \in Seq(STRING)
  PROVE  s \in Seq(Character)
<1>1. STRING \subseteq Character BY Zenon DEF Character
<1> HIDE DEF Character
<1>2. Len(s) \in Nat /\ s \in [1 .. Len(s) -> STRING] OBVIOUS
<1>3. s \in [1 .. Len(s) -> Character] BY <1>1, <1>2
<1>4. QED BY <1>2, <1>3

\* The first characters of a string.
LEMMA CutTo ==
  ASSUME NEW s \in Seq(Character), NEW n \in Nat
  PROVE  /\ Cut(s, n) \in Seq(Character) /\ Len(Cut(s, n)) <= n
         /\ n <= Len(s) => Cut(s, n) = SubSeq(s, 1, n)
         /\ Len(s) <= n => Cut(s, n) = s
<1> DEFINE m == Min({n, Len(s)})
<1>1. Len(s) \in Nat OBVIOUS
<1>2. m = IF n <= Len(s) THEN n ELSE Len(s) BY <1>1, LeastOfTwo
<1>3. m \in Nat /\ m <= n /\ m <= Len(s) BY <1>1, <1>2
<1>4. Cut(s, n) = SubSeq(s, 1, m) BY DEF Cut
<1> HIDE DEF m
<1>5. SubSeq(s, 1, m) \in Seq(Character) /\ Len(SubSeq(s, 1, m)) = m BY <1>1, <1>3
<1>6. SubSeq(s, 1, Len(s)) = s
  <2> DEFINE t == SubSeq(s, 1, Len(s))
  <2>1. /\ t \in Seq(Character) /\ Len(t) = Len(s)
        /\ \A k \in 1 .. Len(s) : t[k] = s[k]
        BY <1>1
  <2> HIDE DEF t
  <2>2. t = s BY <2>1, SameSequence
  <2>3. QED BY <2>2 DEF t
<1>7. n <= Len(s) => m = n BY <1>2
<1>8. Len(s) <= n => m = Len(s) BY <1>1, <1>2
<1>9. QED BY <1>3, <1>4, <1>5, <1>6, <1>7, <1>8

LEMMA StringEnds ==
  /\ Wasm \in Seq(Character) /\ Len(Wasm) = 2 /\ Map \in Seq(Character) /\ Len(Map) = 2
  /\ NULL \in Seq(Character)
<1>1. "." \in Character /\ "w" \in Character /\ "m" \in Character /\ "" \in Character
      BY DEF Character
<1>2. QED BY <1>1, OfCharacters DEF Wasm, Map, NULL

\* The length that DefaultOut keeps of a path.
Kept(path) == IF Dots(path) = {} THEN Len(path) ELSE Max(Dots(path)) - 1

LEMMA KeptLength ==
  ASSUME NEW path \in Seq(Character)
  PROVE  /\ Kept(path) \in 0 .. Len(path)
         /\ DefaultOut(path) = Cut(path, Min({Kept(path), MaxOut - 3})) \o Wasm
<1>1. Len(path) \in Nat /\ DOMAIN path = 1 .. Len(path) OBVIOUS
<1>2. Dots(path) \subseteq 1 .. Len(path) BY <1>1 DEF Dots
<1>3. Kept(path) \in 0 .. Len(path)
  <2>1. CASE Dots(path) = {} BY <1>1, <2>1 DEF Kept
  <2>2. CASE Dots(path) # {}
    <3>1. Dots(path) \subseteq 0 .. Len(path) BY <1>1, <1>2
    <3>2. Max(Dots(path)) \in Dots(path) BY <1>1, <2>2, <3>1, Greatest
    <3>3. Max(Dots(path)) \in 1 .. Len(path) BY <1>2, <3>2
    <3>4. QED BY <1>1, <2>2, <3>3 DEF Kept
  <2>3. QED BY <2>1, <2>2
<1>4. MaxOut - Len(Wasm) - 1 = MaxOut - 3 BY DriverAssumption, StringEnds
<1>5. DefaultOut(path) = Cut(path, Min({Kept(path), MaxOut - Len(Wasm) - 1})) \o Wasm
      BY Zenon DEF DefaultOut, Kept, Dots
<1>6. QED BY <1>3, <1>4, <1>5

\* The name always fits the buffer that main() declares for it.
LEMMA DefaultOutFits ==
  ASSUME NEW path \in Seq(Character)
  PROVE  Len(DefaultOut(path)) < MaxOut
<1> DEFINE n == Kept(path)
           b == MaxOut - 3
           m == Min({n, b})
           c == Cut(path, m)
<1>1. n \in Nat /\ b \in Nat /\ MaxOut \in Nat /\ MaxOut = b + 3
  <2>1. MaxOut \in Nat /\ MaxOut >= 6 BY DriverAssumption
  <2>2. Kept(path) \in 0 .. Len(path) BY KeptLength
  <2>3. Len(path) \in Nat OBVIOUS
  <2>4. QED BY <2>1, <2>2, <2>3
<1>2. DefaultOut(path) = c \o Wasm BY KeptLength
<1> HIDE DEF n, b
<1>3. m \in Nat /\ m <= b BY <1>1, LeastOfTwo
<1> HIDE DEF m
<1>4. c \in Seq(Character) /\ Len(c) <= m BY <1>3, CutTo
<1> HIDE DEF c
<1>5. Len(c \o Wasm) = Len(c) + 2 /\ Len(c) \in Nat
  <2>1. Joined(Character, c, Wasm, c \o Wasm) BY <1>4, StringEnds, Concatenation
  <2>2. Len(c) \in Nat BY <1>4
  <2>3. QED BY <2>1, <2>2, StringEnds DEF Joined
<1>6. QED BY <1>1, <1>2, <1>3, <1>4, <1>5

\* Without a dot in a directory the extension is what the last dot begins.
LEMMA StemIsKept ==
  ASSUME NEW path \in Seq(Character), DotsBefore(path) = {}
  PROVE  Stem(path) = SubSeq(path, 1, Kept(path))
<1> DEFINE last == Max(Slashes(path) \cup {0})
           dots == {k \in DOMAIN path : path[k] = Dot /\ k > last}
<1>1. Len(path) \in Nat /\ DOMAIN path = 1 .. Len(path) OBVIOUS
<1>2. Stem(path) = IF dots = {} THEN path ELSE SubSeq(path, 1, Max(dots) - 1) BY DEF Stem
<1>3. Slashes(path) \cup {0} \subseteq 0 .. Len(path) BY <1>1 DEF Slashes
<1>4. last \in Slashes(path) \cup {0} BY <1>1, <1>3, Greatest
<1> HIDE DEF last
<1>5. \A k \in DOMAIN path : path[k] = Dot => k > last
  <2> SUFFICES ASSUME NEW k \in DOMAIN path, path[k] = Dot PROVE k > last OBVIOUS
  <2>1. CASE last = 0 BY <1>1, <2>1
  <2>2. CASE last # 0
    <3>1. last \in Slashes(path) BY <1>4, <2>2
    <3>2. path[last] = "/" /\ last \in 1 .. Len(path) BY <1>1, <3>1 DEF Slashes
    <3>3. last # k BY <3>2 DEF Dot
    <3>4. ~ (k < last) BY <3>1 DEF DotsBefore
    <3>5. QED BY <1>1, <3>2, <3>3, <3>4
  <2>3. QED BY <2>1, <2>2
<1>6. dots = Dots(path) BY <1>5 DEF Dots
<1>7. SubSeq(path, 1, Len(path)) = path BY <1>1, CutTo
<1> HIDE DEF dots
<1>8. QED BY <1>2, <1>6, <1>7 DEF Kept

LEMMA DefaultOutBeside ==
  ASSUME NEW path \in Seq(Character), DotsBefore(path) = {}, Len(Stem(path)) + Len(Wasm) < MaxOut
  PROVE  DefaultOut(path) = Stem(path) \o Wasm
<1> DEFINE n == Kept(path)
<1>1. /\ n \in Nat /\ n <= Len(path) /\ Len(path) \in Nat
      /\ DefaultOut(path) = Cut(path, Min({n, MaxOut - 3})) \o Wasm
  <2>1. Len(path) \in Nat OBVIOUS
  <2>2. Kept(path) \in 0 .. Len(path) BY KeptLength
  <2>3. DefaultOut(path) = Cut(path, Min({n, MaxOut - 3})) \o Wasm BY KeptLength
  <2>4. QED BY <2>1, <2>2, <2>3
<1>2. Stem(path) = SubSeq(path, 1, n) BY StemIsKept
<1> HIDE DEF n
<1>3. Len(Stem(path)) = n BY <1>1, <1>2
<1>4. n <= MaxOut - 3 /\ MaxOut - 3 \in Nat BY <1>1, <1>3, StringEnds, DriverAssumption
<1>5. Min({n, MaxOut - 3}) = n BY <1>1, <1>4, LeastOfTwo
<1>6. Cut(path, n) = SubSeq(path, 1, n) BY <1>1, CutTo
<1>7. QED BY <1>1, <1>2, <1>5, <1>6

\* VM_LoadSymbols names the map file after the image.
LEMMA MapFileBeside ==
  ASSUME NEW path \in Seq(Character), DotsBefore(path) = {}, Cardinality(Dots(path)) <= 1,
         Len(path) + Len(Map) < QPath
  PROVE  MapFile(path) = Stem(path) \o Map
<1> DEFINE n == Kept(path)
           D == Dots(path)
<1>1. Len(path) \in Nat /\ DOMAIN path = 1 .. Len(path) /\ n \in 0 .. Len(path)
  <2>1. Len(path) \in Nat /\ DOMAIN path = 1 .. Len(path) OBVIOUS
  <2>2. Kept(path) \in 0 .. Len(path) BY KeptLength
  <2>3. QED BY <2>1, <2>2
<1>2. QPath \in Nat /\ Len(path) + 2 <= QPath - 1 /\ QPath - 1 \in Nat
      BY <1>1, StringEnds, DriverAssumption
<1>3. VmName(path) = path
  <2>1. Len(path) <= QPath - 1 BY <1>1, <1>2
  <2>2. QED BY <1>2, <2>1, CutTo DEF VmName
<1>4. Min(D \cup {Len(path) + 1}) - 1 = n
  <2>1. D \subseteq 1 .. Len(path) BY <1>1 DEF Dots
  <2>2. IsFiniteSet(D) /\ Cardinality(D) \in Nat
    <3>1. IsFiniteSet(1 .. Len(path)) BY <1>1, FS_Interval
    <3> HIDE DEF D
    <3>2. IsFiniteSet(D) BY <2>1, <3>1, FS_Subset
    <3>3. QED BY <3>2, FS_CardinalityType
  <2>3. CASE D = {}
    <3>1. Min({Len(path) + 1}) = Len(path) + 1
      <4> DEFINE S == {Len(path) + 1}
      <4>1. S \subseteq Nat /\ S # {} BY <1>1
      <4>2. \A m \in S : m = Len(path) + 1 OBVIOUS
      <4> HIDE DEF S
      <4>3. Min(S) \in S BY <4>1, Least
      <4>4. QED BY <4>2, <4>3 DEF S
    <3>2. D \cup {Len(path) + 1} = {Len(path) + 1} BY <2>3
    <3>3. n = Len(path) BY <2>3 DEF Kept
    <3>4. Min(D \cup {Len(path) + 1}) = Len(path) + 1 BY <3>1, <3>2, Zenon
    <3> HIDE DEF n, D
    <3>5. QED BY <1>1, <3>3, <3>4
  <2>4. CASE D # {}
    <3>1. Cardinality(D) # 0 BY <2>2, <2>4, FS_EmptySet
    <3>2. Cardinality(D) = 1 BY <2>2, <3>1
    <3>3. PICK d : D = {d} BY <2>2, <3>2, FS_Singleton
    <3>4. d \in 1 .. Len(path) BY <2>1, <3>3
    <3>5. Max(D) = d
      <4>1. D \subseteq 0 .. Len(path) BY <1>1, <2>1
      <4>2. Max(D) \in D BY <1>1, <2>4, <4>1, Greatest
      <4>3. QED BY <3>3, <4>2
    <3>6. n = d - 1 BY <2>4, <3>5 DEF Kept
    <3>7. Min({d, Len(path) + 1}) = d BY <1>1, <3>4, LeastOfTwo
    <3>8. D \cup {Len(path) + 1} = {d, Len(path) + 1} BY <3>3
    <3>9. QED BY <3>4, <3>6, <3>7, <3>8
  <2>5. QED BY <2>3, <2>4
<1>5. Stem(path) = SubSeq(path, 1, n) BY StemIsKept
<1>6. StripExtension(path) = Cut(path, Min(D \cup {Len(path) + 1}) - 1)
      BY Zenon DEF StripExtension, Dots
<1> HIDE DEF n, D
<1>7. StripExtension(path) = Stem(path)
  <2>1. n \in Nat /\ n <= Len(path) BY <1>1
  <2>2. Cut(path, n) = SubSeq(path, 1, n) BY <2>1, CutTo
  <2>3. QED BY <1>4, <1>5, <1>6, <2>2
<1>8. Stem(path) \in Seq(Character) /\ Len(Stem(path)) <= Len(path) BY <1>1, <1>5
<1>9. /\ Stem(path) \o Map \in Seq(Character)
      /\ Len(Stem(path) \o Map) <= QPath - 1
  <2>1. Joined(Character, Stem(path), Map, Stem(path) \o Map) BY <1>8, StringEnds, Concatenation
  <2>2. Len(Stem(path)) \in Nat BY <1>8
  <2>3. Len(Stem(path) \o Map) = Len(Stem(path)) + 2 BY <2>1, StringEnds DEF Joined
  <2>4. QED BY <1>1, <1>2, <1>8, <2>1, <2>2, <2>3 DEF Joined
<1>10. Cut(Stem(path) \o Map, QPath - 1) = Stem(path) \o Map BY <1>2, <1>9, CutTo
<1>11. QED BY <1>3, <1>7, <1>10 DEF MapFile

-----------------------------------------------------------------------------
\* Without -o, compileToWasm alone names the output, after the input.
OutAsked == FlagOut \in {argv[k] : k \in DOMAIN argv}
\* outPath stays NULL until compileToWasm gives it the default name.
NameInv ==
  /\ inPath \in Seq(Character)
  /\ ~ OutAsked => /\ stage \in {"openout", "write", "close"} => outPath = DefaultOut(inPath)
                   /\ stage \notin {"openout", "write", "close", "over"} => outPath = NULL

LEMMA NamesInitially == Init => NameInv
BY StringEnds DEF Init, NameInv

LEMMA NamesKept == DriverTypeInv /\ NameInv /\ Next => NameInv'
<1> SUFFICES ASSUME DriverTypeInv, NameInv, Next PROVE NameInv' OBVIOUS
<1>1. UNCHANGED argv /\ OutAsked' = OutAsked
  <2>1. UNCHANGED argv
        BY DEF Next, OptionRun, OptionOut, OptionHelp, InPath, Remaining, ArgsOver, HostArgs,
               LoadFails, OpenImage, SizeImage, AllocImage, ReadImage, VM_Create, VM_Call,
               FreeAll, Translate, OpenOut, WriteShort, WriteAll, CloseOut, EnginePrepares,
               EngineCalls, options
  <2>2. QED BY <2>1 DEF OutAsked
<1>2. \A k \in 1 .. Len(argv) : argv[k] \in Seq(Character)
      BY ArgumentOfCharacters DEF DriverTypeInv
<1>3. CASE OptionOut
  <2>1. i \in 1 .. Len(argv) /\ argv[i] = FlagOut /\ argv \in Seq(Seq(STRING)) /\ UNCHANGED inPath
        BY <1>3 DEF DriverTypeInv, OptionOut, Next1, ThisArg
  <2>2. OutAsked BY <2>1 DEF OutAsked
  <2>3. QED BY <1>1, <2>1, <2>2 DEF NameInv
<1>4. CASE InPath
  <2>1. /\ i \in 1 .. Len(argv) /\ inPath' = argv[i] /\ stage = "args"
        /\ UNCHANGED <<outPath, stage>>
        BY <1>4 DEF DriverTypeInv, InPath, Next1, At, ThisArg
  <2>2. QED BY <1>1, <1>2, <2>1 DEF NameInv
<1>5. CASE HostArgs
  <2>1. argv # <<>> => 1 \in 1 .. Len(argv)
    <3>1. argv \in Seq(Seq(STRING)) BY DEF DriverTypeInv
    <3>2. QED BY <3>1
  <2>2. /\ stage = "args" /\ stage' \in {"open", "over"} /\ UNCHANGED outPath
        /\ inPath' \in {inPath} \cup {argv[k] : k \in 1 .. Len(argv)}
        BY <1>5, <2>1 DEF HostArgs, At, Ends, GoOn
  <2>3. QED BY <1>1, <1>2, <2>2 DEF NameInv
<1>6. CASE Translate
  <2>1. stage = "translate" /\ outPath' = Out /\ UNCHANGED inPath /\ stage' \in {"openout", "over"}
        BY <1>6 DEF Translate, At, GoOn, Ends
  <2>2. QED BY <1>1, <2>1 DEF NameInv, Out
<1>7. CASE OpenOut \/ WriteAll \/ WriteShort \/ CloseOut
  <2>1. /\ stage \in {"openout", "write", "close"} /\ stage' \in {"write", "close", "over"}
        /\ UNCHANGED <<inPath, outPath>>
        BY <1>7 DEF OpenOut, WriteAll, WriteShort, CloseOut, At, GoOn, Ends, options
  <2>2. QED BY <1>1, <2>1 DEF NameInv
<1>8. CASE ~ (OptionOut \/ InPath \/ HostArgs \/ Translate
               \/ OpenOut \/ WriteAll \/ WriteShort \/ CloseOut)
  <2>1. /\ stage \notin {"openout", "write", "close", "over"}
        /\ stage' \notin {"openout", "write", "close"} /\ UNCHANGED <<inPath, outPath>>
    <3>1. CASE OptionRun \/ OptionHelp \/ Remaining \/ ArgsOver
          BY <3>1 DEF OptionRun, OptionHelp, Remaining, ArgsOver, Next1, At, GoOn, Ends, options
    <3>2. CASE LoadFails \/ OpenImage \/ SizeImage \/ AllocImage \/ ReadImage
          BY <3>2 DEF LoadFails, OpenImage, SizeImage, AllocImage, ReadImage, Loaded, At, GoOn,
                      Ends, options
    <3>3. CASE VM_Create \/ VM_Call \/ FreeAll
          BY <3>3 DEF VM_Create, VM_Call, FreeAll, At, GoOn, Ends, options
    <3>4. CASE EnginePrepares \/ EngineCalls
          BY <3>4 DEF EnginePrepares, EngineCalls, At, GoOn, Ends, options
    <3>5. QED BY <1>8, <3>1, <3>2, <3>3, <3>4, Zenon DEF Next
  <2>2. QED BY <1>1, <2>1 DEF NameInv
<1>9. QED BY <1>3, <1>4, <1>5, <1>6, <1>7, <1>8

(***************************************************************************)
(* Without -o the module is written beside the image, under its name with  *)
(* the extension replaced, and -r reads the map file beside it: compileToWasm*)
(* and VM_LoadSymbols find the extension and fit it into their buffers, for*)
(* every path without a dot in a directory that is short enough.           *)
(***************************************************************************)
THEOREM NamesAreBeside == Qvm2wasmSpec => []NamesBeside
<1>1. Qvm2wasmInit => DriverInv /\ NameInv
      BY DriverInitially, NamesInitially DEF Qvm2wasmInit
<1>2. (DriverInv /\ NameInv) /\ [Qvm2wasmNext]_<<vars, compileVars>> => (DriverInv /\ NameInv)'
  <2> SUFFICES ASSUME DriverInv, NameInv, [Qvm2wasmNext]_<<vars, compileVars>>
               PROVE  (DriverInv /\ NameInv)'
      OBVIOUS
  <2>1. Next \/ UNCHANGED vars BY StepOfDriver, Zenon
  <2>2. DriverInv' BY <2>1, DriverKeeps, DriverStutters, Zenon
  <2>3. CASE Next BY <2>2, <2>3, NamesKept DEF DriverInv
  <2>4. CASE UNCHANGED vars BY <2>2, <2>4 DEF NameInv, OutAsked, vars
  <2>5. QED BY <2>1, <2>3, <2>4
<1>3. DriverInv /\ NameInv => NamesBeside
  <2> SUFFICES ASSUME DriverInv, NameInv PROVE NamesBeside OBVIOUS
  <2>1. inPath \in Seq(Character) BY DEF NameInv
  <2>2. Len(DefaultOut(inPath)) < MaxOut BY <2>1, DefaultOutFits
  <2>3. ASSUME At("write"), ~ OutAsked, DotsBefore(inPath) = {},
               Len(Stem(inPath)) + Len(Wasm) < MaxOut
        PROVE  opened[2] = Stem(inPath) \o Wasm
    <3>1. opened = <<inPath, outPath>> BY <2>3 DEF DriverInv, OpenedInv, At
    <3>2. outPath = DefaultOut(inPath) BY <2>3 DEF NameInv, At
    <3>3. DefaultOut(inPath) = Stem(inPath) \o Wasm BY <2>1, <2>3, DefaultOutBeside
    <3>4. QED BY <3>1, <3>2, <3>3
  <2>4. ASSUME At("call"), Cardinality(Dots(inPath)) <= 1, DotsBefore(inPath) = {},
               Len(inPath) + Len(Map) < QPath
        PROVE  opened[2] = Stem(inPath) \o Map
    <3>1. opened = <<inPath, MapFile(inPath)>> BY <2>4 DEF DriverInv, OpenedInv, At
    <3>2. MapFile(inPath) = Stem(inPath) \o Map BY <2>1, <2>4, MapFileBeside
    <3>3. QED BY <3>1, <3>2
  <2>5. QED BY <2>2, <2>3, <2>4, Zenon DEF NamesBeside, OutAsked
<1>4. QED BY <1>1, <1>2, <1>3, PTL DEF Qvm2wasmSpec
=============================================================================
