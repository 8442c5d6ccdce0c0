------------------------------- MODULE Driver -------------------------------
(***************************************************************************)
(* The command-line programs: qvm2wasm (main.c) with its two modes, and    *)
(* the host for wasm3 (example/host.c).  Between their calls of the        *)
(* interpreter, the translator and the engine they parse arguments, name   *)
(* files, and hold streams and blocks that each way out has to give back.  *)
(*                                                                         *)
(* A string is a sequence of characters.  Com_Error and fatal end the      *)
(* process on the spot: how = "exit".                                      *)
(***************************************************************************)
EXTENDS Integers, Sequences, FiniteSetsExt

CONSTANTS
  CommandLines,  \* records [program, argv]
  MaxVmArgs,     \* MAX_VMMAIN_ARGS
  MaxOut,        \* sizeof(defaultOut)
  QPath,         \* VM_MAX_QPATH
  Results        \* what vmMain may return

ASSUME DriverAssumption ==
  /\ CommandLines \subseteq [program : {"qvm2wasm", "host"}, argv : Seq(Seq(STRING))]
  /\ MaxVmArgs \in Nat \ {0}
  /\ MaxOut \in Nat /\ MaxOut >= 6
  /\ QPath \in Nat /\ QPath >= 2
  /\ Results \subseteq Int

VARIABLES
  program,  \* which of the two
  argv,     \* its arguments, without the name of the program
  i,        \* the next argument
  inPath,
  outPath,
  run,      \* -r was given
  stage,    \* the call that comes next
  held,     \* streams and blocks not yet given back
  opened,   \* history: the paths opened, in order
  passed,   \* history: what atoi converts to the arguments of vmMain, <<>>
            \* as long as vmMain has not been called
  output,   \* what the output file holds: "none", "partial", "complete"
  wrote,    \* "Wrote ..." has been printed
  how,      \* "running", "return" from main or "exit"
  code      \* the exit code

vars == <<program, argv, i, inPath, outPath, run, stage, held, opened, passed,
          output, wrote, how, code>>

options == <<program, argv, i, inPath, outPath, run>>
files   == <<held, opened, output, wrote>>

-----------------------------------------------------------------------------
(* Strings.                                                                *)

\* The pointer to no string, which no argument is: its one character is none.
NULL == <<"">>
ASSUME NullAssumption == \A c \in CommandLines : \A k \in DOMAIN c.argv : c.argv[k] # NULL

Dot  == "."
Cut(s, n) == SubSeq(s, 1, Min({n, Len(s)}))

FlagRun  == <<"-", "r">>
FlagOut  == <<"-", "o">>
FlagHelp == <<"-", "h">>
Wasm     == <<".", "w">>   \* two characters stand for five
Map      == <<".", "m">>

\* The path in front of its last dot, cut so that extension and zero fit in.
BugDefaultOut(path) ==
  LET dots == {k \in DOMAIN path : path[k] = Dot}
      n    == IF dots = {} THEN Len(path) ELSE Max(dots) - 1
  IN  Cut(path, Min({n, MaxOut - Len(Wasm)})) \o Wasm
DefaultOut(path) ==
  LET dots == {k \in DOMAIN path : path[k] = Dot}
      n    == IF dots = {} THEN Len(path) ELSE Max(dots) - 1
  IN  Cut(path, Min({n, MaxOut - Len(Wasm) - 1})) \o Wasm

\* vm->name, and COM_StripExtension: up to the first dot.
VmName(path) == Cut(path, QPath - 1)
StripExtension(name) ==
  Cut(name, Min({k \in DOMAIN name : name[k] = Dot} \cup {Len(name) + 1}) - 1)
MapFile(path) == Cut(StripExtension(VmName(path)) \o Map, QPath - 1)

\* The arguments from k on, as many as vmMain takes, and zeros behind them.
BugArgsFrom(k) == [n \in 1 .. MaxVmArgs |-> IF k + n <= Len(argv) THEN argv[k + n] ELSE NULL]
ArgsFrom(k) == [n \in 1 .. MaxVmArgs |-> IF k + n - 1 <= Len(argv) THEN argv[k + n - 1] ELSE NULL]

-----------------------------------------------------------------------------
Init ==
  /\ \E c \in CommandLines : program = c.program /\ argv = c.argv
  /\ i = 1 /\ inPath = NULL /\ outPath = NULL /\ run = FALSE
  /\ stage = "args"
  /\ held = {} /\ opened = <<>> /\ output = "none" /\ wrote = FALSE
  /\ passed = <<>>
  /\ how = "running" /\ code = 0

At(s) == how = "running" /\ stage = s

\* main returns, or the process ends, with what it has given back before.
Ends(h, c) == how' = h /\ code' = c /\ stage' = "over"
GoOn(s)    == stage' = s /\ UNCHANGED <<how, code>>

-----------------------------------------------------------------------------
(* The arguments.                                                          *)

ThisArg == argv[i]
Next1   == At("args") /\ program = "qvm2wasm" /\ i <= Len(argv)
IsValue == i < Len(argv)
Plain   == ThisArg # FlagRun /\ ~ (ThisArg = FlagOut /\ IsValue) /\ ThisArg # FlagHelp

OptionRun ==
  /\ Next1 /\ ThisArg = FlagRun
  /\ run' = TRUE /\ i' = i + 1
  /\ UNCHANGED <<program, argv, inPath, outPath, stage, files, passed, how, code>>

OptionOut ==
  /\ Next1 /\ ThisArg = FlagOut /\ IsValue
  /\ outPath' = argv[i + 1] /\ i' = i + 2
  /\ UNCHANGED <<program, argv, inPath, run, stage, files, passed, how, code>>

OptionHelp == Next1 /\ ThisArg = FlagHelp /\ Ends("return", 0) /\ UNCHANGED <<options, files, passed>>

InPath ==
  /\ Next1 /\ Plain /\ inPath = NULL
  /\ inPath' = ThisArg /\ i' = i + 1
  /\ UNCHANGED <<program, argv, outPath, run, stage, files, passed, how, code>>

\* The rest is for vmMain, or is too much.
Remaining ==
  /\ Next1 /\ Plain /\ inPath # NULL
  /\ IF run THEN GoOn("open") ELSE Ends("return", 1)
  /\ UNCHANGED <<options, files, passed>>

ArgsOver ==
  /\ At("args") /\ program = "qvm2wasm" /\ i > Len(argv)
  /\ IF inPath = NULL THEN Ends("return", 1) ELSE GoOn("open")
  /\ UNCHANGED <<options, files, passed>>

HostArgs ==
  /\ At("args") /\ program = "host"
  /\ IF argv = <<>> THEN Ends("exit", 1) /\ UNCHANGED inPath
                    ELSE GoOn("open") /\ inPath' = argv[1]
  /\ UNCHANGED <<program, argv, i, outPath, run, files, passed>>

-----------------------------------------------------------------------------
(* loadImage and loadFile.                                                 *)

Loaded == IF program = "host" THEN "engine" ELSE IF run THEN "create" ELSE "translate"

\* Each of the calls may fail; what is held then goes back.
BugLoadFails ==
  /\ how = "running" /\ stage \in {"open", "size", "alloc", "read"}
  /\ held' = held \ {"in"}
  /\ opened' = IF stage = "open" THEN Append(opened, inPath) ELSE opened
  /\ IF program = "host" THEN Ends("exit", 1) ELSE Ends("return", -1)
  /\ UNCHANGED <<options, passed, output, wrote>>
LoadFails ==
  /\ how = "running" /\ stage \in {"open", "size", "alloc", "read"}
  /\ held' = {}
  /\ opened' = IF stage = "open" THEN Append(opened, inPath) ELSE opened
  /\ IF program = "host" THEN Ends("exit", 1) ELSE Ends("return", -1)
  /\ UNCHANGED <<options, passed, output, wrote>>

OpenImage ==
  /\ At("open")
  /\ held' = {"in"} /\ opened' = Append(opened, inPath)
  /\ GoOn("size")
  /\ UNCHANGED <<options, passed, output, wrote>>

SizeImage == At("size") /\ GoOn("alloc") /\ UNCHANGED <<options, files, passed>>

AllocImage ==
  /\ At("alloc")
  /\ held' = held \cup {"image"}
  /\ GoOn("read")
  /\ UNCHANGED <<options, passed, opened, output, wrote>>

ReadImage ==
  /\ At("read")
  /\ held' = held \ {"in"}
  /\ GoOn(Loaded)
  /\ UNCHANGED <<options, passed, opened, output, wrote>>

-----------------------------------------------------------------------------
(* runInterpreter.  What is wrong with the file Com_Error reports.         *)

VM_Create ==
  /\ At("create")
  /\ \/ /\ held' = held \cup {"vm"}
        /\ opened' = Append(opened, MapFile(inPath))
        /\ GoOn("call")
     \/ Ends("exit", 1) /\ UNCHANGED <<held, opened>>
  /\ UNCHANGED <<options, passed, output, wrote>>

VM_Call ==
  /\ At("call")
  /\ passed' = ArgsFrom(i)
  /\ \/ GoOn("free") /\ UNCHANGED held
     \/ Ends("exit", 1) /\ UNCHANGED held
  /\ UNCHANGED <<options, opened, output, wrote>>

\* VM_Free and free.
FreeAll ==
  /\ At("free")
  /\ held' = {}
  /\ \E v \in Results : Ends("return", v)
  /\ UNCHANGED <<options, passed, opened, output, wrote>>

-----------------------------------------------------------------------------
(* compileToWasm.                                                          *)

Out == IF outPath = NULL THEN DefaultOut(inPath) ELSE outPath

Translate ==
  /\ At("translate")
  /\ outPath' = Out
  /\ \/ held' = {"wasm"} /\ GoOn("openout")
     \/ held' = {} /\ Ends("return", -1)
  /\ UNCHANGED <<program, argv, i, inPath, run, passed, opened, output, wrote>>

OpenOut ==
  /\ At("openout")
  /\ opened' = Append(opened, outPath)
  /\ \/ held' = held \cup {"out"} /\ output' = "partial" /\ GoOn("write")
     \/ held' = {} /\ Ends("return", -1) /\ UNCHANGED output
  /\ UNCHANGED <<options, passed, wrote>>

\* fwrite takes less than it is given.
BugWriteShort ==
  /\ At("write")
  /\ held' = {}
  /\ Ends("return", 0)
  /\ UNCHANGED <<options, passed, opened, output, wrote>>
WriteShort ==
  /\ At("write")
  /\ held' = {}
  /\ Ends("return", -1)
  /\ UNCHANGED <<options, passed, opened, output, wrote>>

WriteAll == At("write") /\ GoOn("close") /\ UNCHANGED <<options, files, passed>>

\* What stdio still buffers is written now, or not: nobody looks.
CloseOut ==
  /\ At("close")
  /\ output' \in {"partial", "complete"}
  /\ held' = {} /\ wrote' = TRUE
  /\ Ends("return", 0)
  /\ UNCHANGED <<options, passed, opened>>

-----------------------------------------------------------------------------
(* host.c: environment, runtime, module, import, function.                 *)

EnginePrepares ==
  /\ At("engine")
  /\ \/ held' = held \cup {"env", "runtime"} /\ GoOn("enter")
     \/ Ends("exit", 1) /\ UNCHANGED held
  /\ UNCHANGED <<options, passed, opened, output, wrote>>

EngineCalls ==
  /\ At("enter")
  /\ passed' = ArgsFrom(2)
  /\ \/ GoOn("free")
     \/ Ends("exit", 1)
  /\ UNCHANGED <<options, files>>

-----------------------------------------------------------------------------
Next ==
  \/ OptionRun \/ OptionOut \/ OptionHelp \/ InPath \/ Remaining \/ ArgsOver \/ HostArgs
  \/ LoadFails \/ OpenImage \/ SizeImage \/ AllocImage \/ ReadImage
  \/ VM_Create \/ VM_Call \/ FreeAll
  \/ Translate \/ OpenOut \/ WriteShort \/ WriteAll \/ CloseOut
  \/ EnginePrepares \/ EngineCalls

-----------------------------------------------------------------------------
Flags == {FlagRun, FlagOut, FlagHelp}
Rest(k) == [n \in 1 .. MaxVmArgs |-> IF n + k <= Len(argv) THEN argv[n + k] ELSE NULL]

(***************************************************************************)
(* The usage text: "qvm2wasm -r <file.qvm> [args...]" and "host            *)
(* <file.wasm> [vmMain args...]" give vmMain the arguments behind the      *)
(* file, whatever they look like when the first is no option, and open     *)
(* that file.                                                              *)
(***************************************************************************)
ArgumentsReachVmMain ==
  passed # <<>> =>
    /\ program = "host" => opened[1] = argv[1] /\ passed = Rest(1)
    /\ program = "qvm2wasm" /\ Len(argv) >= 2 /\ argv[1] = FlagRun /\ argv[2] \notin Flags
         /\ (Len(argv) >= 3 => argv[3] \notin Flags)
         => opened[1] = argv[2] /\ passed = Rest(2)

(***************************************************************************)
(* A translation returns 0 exactly if it says that it wrote the module,    *)
(* and then it has read the input of the command line and opened the file  *)
(* of -o, in either order of the two.                                      *)
(***************************************************************************)
ExitTells ==
  how = "return" /\ ~ run /\ program = "qvm2wasm" /\ inPath # NULL =>
    /\ FlagHelp \notin {argv[k] : k \in DOMAIN argv} => (code = 0 <=> wrote)
    /\ wrote => Len(opened) = 2 /\ opened[1] = inPath
    /\ wrote /\ Len(argv) = 3 /\ argv[1] \notin Flags /\ argv[2] = FlagOut =>
         opened = <<argv[1], argv[3]>>
    /\ wrote /\ Len(argv) = 3 /\ argv[1] = FlagOut /\ argv[3] \notin Flags =>
         opened = <<argv[3], argv[2]>>

-----------------------------------------------------------------------------
\* The path without the extension of its last component.
Slashes(path) == {k \in DOMAIN path : path[k] = "/"}
Stem(path) ==
  LET last == Max(Slashes(path) \cup {0})
      dots == {k \in DOMAIN path : path[k] = Dot /\ k > last}
  IN  IF dots = {} THEN path ELSE SubSeq(path, 1, Max(dots) - 1)

\* The places of dots in front of the last component, and in all of the path.
DotsBefore(path) == {k \in DOMAIN path : path[k] = Dot /\ \E n \in Slashes(path) : k < n}
Dots(path)       == {k \in DOMAIN path : path[k] = Dot}

(***************************************************************************)
(* Whatever the path, the name of the output and its zero fit the array.   *)
(* When it fits uncut and no directory has a dot in its name, the output   *)
(* is the input with another extension; when the extension is the only one *)
(* and has the only dot, the map file is, too ("The default output file is *)
(* the input with a .wasm extension" in the usage text of main.c, "The     *)
(* .map file should have the same path as the .qvm file" in vm.c).  Dots   *)
(* elsewhere in a path do lead elsewhere.                                  *)
(***************************************************************************)
NamesBeside ==
  /\ inPath # NULL => Len(DefaultOut(inPath)) < MaxOut
  /\ At("write") /\ FlagOut \notin {argv[k] : k \in DOMAIN argv}
       /\ DotsBefore(inPath) = {} /\ Len(Stem(inPath)) + Len(Wasm) < MaxOut
     => opened[2] = Stem(inPath) \o Wasm
  /\ At("call") /\ Cardinality(Dots(inPath)) <= 1 /\ DotsBefore(inPath) = {}
       /\ Len(inPath) + Len(Map) < QPath
     => opened[2] = Stem(inPath) \o Map
=============================================================================
