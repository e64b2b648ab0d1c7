------------------------------- MODULE Shell --------------------------------
(***************************************************************************)
(* sh.c: the parser, as functions on the line and a place in it, and       *)
(* runcmd with the processes, descriptors and pipes it sets up, under an   *)
(* init that adopts orphans and restarts the shell (init.c).  A program is *)
(* known by how it uses its input: "c" (cat) reads it to the end, "e"      *)
(* (echo) ignores it, and both write to their output.                      *)
(***************************************************************************)
EXTENDS Naturals, Sequences, SequencesExt, FiniteSets, FiniteSetsExt

CONSTANTS
  Letters,    \* the characters of words
  Lines,      \* the lines, as characters, typed at the prompt
  LaterLines, \* bound: those typed after the first one
  NPROC,      \* slots of the process table, the shell's included
  MAXARGS,
  NOFILE,
  MaxLines,   \* bound: lines typed
  MaxFaults   \* bound: fork and pipe calls that fail though there is room

Blank == " "
NUL == "nul"
Symbols == {"<", "|", ">", "&", ";", "(", ")"}

ASSUME ShellAssumption ==
  /\ {"c", "e"} \subseteq Letters /\ Letters \cap (Symbols \cup {Blank, NUL}) = {}
  /\ NPROC > 0 /\ MAXARGS > 0 /\ NOFILE > 4

-----------------------------------------------------------------------------
(* The parser works on the line b from place i on, and returns a command   *)
(* and the place it has come to.  panic() ends the process, so a syntax    *)
(* error ends the parse.  A word is the places q and eq where it starts    *)
(* and ends.                                                               *)

Exec(argv) == [type |-> "EXEC", argv |-> argv]
Redir(cmd, file, fd) == [type |-> "REDIR", cmd |-> cmd, file |-> file, fd |-> fd]
PipeCmd(left, right) == [type |-> "PIPE", left |-> left, right |-> right]
List(left, right) == [type |-> "LIST", left |-> left, right |-> right]
Back(cmd) == [type |-> "BACK", cmd |-> cmd]
Syntax == [type |-> "syntax"]

Parsed(cmd, at) == [cmd |-> cmd, at |-> at]
Panic == Parsed(Syntax, 0)
Failed(parse) == parse.cmd = Syntax

\* The first place from i on, or the end of b, where no character of cs stands.
Past(b, i, cs) == Min({j \in i .. Len(b) + 1 : j = Len(b) + 1 \/ b[j] \notin cs})
SkipBlanks(b, i) == Past(b, i, {Blank})

peek(b, i, toks) == LET j == SkipBlanks(b, i) IN j <= Len(b) /\ b[j] \in toks

\* The token at q: its kind, its places and where the next one starts.
TokenFrom(b, q) ==
  LET c == IF q <= Len(b) THEN b[q] ELSE NUL
      twice == c = ">" /\ q < Len(b) /\ b[q + 1] = ">"
      eq == IF c = NUL THEN q
            ELSE IF twice THEN q + 2
            ELSE IF c \in Symbols THEN q + 1
            ELSE Past(b, q, Letters)
  IN [tok |-> IF twice THEN "+" ELSE IF c \in Letters THEN "a" ELSE c,
      word |-> <<q, eq>>, next |-> SkipBlanks(b, eq)]

gettoken(b, i) == TokenFrom(b, SkipBlanks(b, i))

\* The descriptor a redirection replaces.
RedirFd(tok) == IF tok = "<" THEN 0 ELSE 1

\* The redirection of fd to the file the next token names, and those after it.
RECURSIVE parseredirs(_, _, _)
AddRedir(cmd, fd, file, b) ==
  IF file.tok # "a" THEN Panic
  ELSE parseredirs(Redir(cmd, file.word, fd), b, file.next)

parseredirs(cmd, b, i) ==
  LET redir == gettoken(b, i) IN
  IF ~peek(b, i, {"<", ">"}) THEN Parsed(cmd, i)
  ELSE AddRedir(cmd, RedirFd(redir.tok), gettoken(b, redir.next), b)

\* The execcmd is filled in under the redirections already put around it.
RECURSIVE AddArg(_, _)
AddArg(cmd, word) ==
  IF cmd.type = "EXEC" THEN Exec(Append(cmd.argv, word))
  ELSE [cmd EXCEPT !.cmd = AddArg(@, word)]

\* The loop of parseexec, entered after the redirections behind an argument.
RECURSIVE ParseArgs(_, _, _, _)
MoreArgs(redirs, argc, b) ==
  IF Failed(redirs) THEN Panic ELSE ParseArgs(redirs.cmd, argc, b, redirs.at)

ParseArgs(cmd, argc, b, i) ==
  LET arg == gettoken(b, i) IN
  IF peek(b, i, {"|", ")", "&", ";"}) \/ arg.tok = NUL THEN Parsed(cmd, arg.word[1])
  ELSE IF arg.tok # "a" \/ argc + 1 >= MAXARGS THEN Panic
  ELSE MoreArgs(parseredirs(AddArg(cmd, arg.word), b, arg.next), argc + 1, b)

\* The loop of parseline.
RECURSIVE ParseAmps(_, _, _)
ParseAmps(cmd, b, i) ==
  IF peek(b, i, {"&"}) THEN ParseAmps(Back(cmd), b, gettoken(b, i).next) ELSE Parsed(cmd, i)

\* The rest of parseblock after the line inside the parentheses.
RECURSIVE parseline(_, _), parsepipe(_, _)
CloseBlock(inner, b) ==
  IF Failed(inner) \/ ~peek(b, inner.at, {")"}) THEN Panic
  ELSE parseredirs(inner.cmd, b, gettoken(b, inner.at).next)

parseblock(b, i) == CloseBlock(parseline(b, gettoken(b, i).next), b)

parseexec(b, i) ==
  IF peek(b, i, {"("}) THEN parseblock(b, i)
  ELSE MoreArgs(parseredirs(Exec(<<>>), b, i), 0, b)

\* Two commands made one, unless the parse of the second has failed.
Piped(left, right) ==
  IF Failed(right) THEN Panic ELSE Parsed(PipeCmd(left.cmd, right.cmd), right.at)
Listed(left, right) ==
  IF Failed(right) THEN Panic ELSE Parsed(List(left.cmd, right.cmd), right.at)

\* The rest of parsepipe after its left side.
PipeRest(left, b) ==
  IF Failed(left) \/ ~peek(b, left.at, {"|"}) THEN left
  ELSE Piped(left, parsepipe(b, gettoken(b, left.at).next))

parsepipe(b, i) == PipeRest(parseexec(b, i), b)

\* The rest of parseline after its pipeline, and after the "&"s behind that.
ListRest(left, b) ==
  IF ~peek(b, left.at, {";"}) THEN left
  ELSE Listed(left, parseline(b, gettoken(b, left.at).next))
LineRest(pipe, b) ==
  IF Failed(pipe) THEN Panic ELSE ListRest(ParseAmps(pipe.cmd, b, pipe.at), b)

parseline(b, i) == LineRest(parsepipe(b, i), b)

\* The ends of the words of a command, where nulterminate puts a NUL.
RECURSIVE Ends(_)
Ends(cmd) ==
  CASE cmd.type = "EXEC" -> {cmd.argv[j][2] : j \in DOMAIN cmd.argv}
    [] cmd.type = "REDIR" -> Ends(cmd.cmd) \cup {cmd.file[2]}
    [] cmd.type = "BACK" -> Ends(cmd.cmd)
    [] OTHER -> Ends(cmd.left) \cup Ends(cmd.right)

nulterminate(b, cmd) == [j \in 1 .. Len(b) |-> IF j \in Ends(cmd) THEN NUL ELSE b[j]]

\* The string at q, as exec and open read it.
StringAt(b, q) == SubSeq(b, q, Past(b, q, (Letters \cup Symbols \cup {Blank})) - 1)

\* The command with the strings in b its words point to.
RECURSIVE Strings(_, _)
Strings(b, cmd) ==
  CASE cmd.type = "EXEC" -> Exec([j \in DOMAIN cmd.argv |-> StringAt(b, cmd.argv[j][1])])
    [] cmd.type = "REDIR" -> Redir(Strings(b, cmd.cmd), StringAt(b, cmd.file[1]), cmd.fd)
    [] cmd.type = "BACK" -> Back(Strings(b, cmd.cmd))
    [] cmd.type = "PIPE" -> PipeCmd(Strings(b, cmd.left), Strings(b, cmd.right))
    [] cmd.type = "LIST" -> List(Strings(b, cmd.left), Strings(b, cmd.right))

\* The command with its words cut out of the line.
Cut(b, cmd) == Strings(nulterminate(b, cmd), cmd)

\* Mutant of Whole: what is left over is ignored.
WholePrefix(b, parse) == IF Failed(parse) THEN Syntax ELSE Cut(b, parse.cmd)

\* Leftovers are an error.
Whole(b, parse) ==
  IF Failed(parse) \/ SkipBlanks(b, parse.at) <= Len(b) THEN Syntax ELSE Cut(b, parse.cmd)

parsecmd(b) == Whole(b, parseline(b, 1))

-----------------------------------------------------------------------------
(* The grammar the parser is to implement: the tokens of a line, and the   *)
(* set of commands a sequence of tokens stands for.                        *)

\* A token starts at i: a symbol, the first letter of a word, or a ">" that is
\* not the second one of a ">>".
Starts(b, i) ==
  IF b[i] = ">" THEN Cardinality({j \in 1 .. i - 1 : \A l \in j .. i - 1 : b[l] = ">"}) % 2 = 0
  ELSE b[i] \in Symbols \/ (b[i] \in Letters /\ (i = 1 \/ b[i - 1] \notin Letters))

TokenAt(b, i) ==
  LET last == Max({j \in i .. Len(b) :
                     \A l \in i + 1 .. j : ~Starts(b, l) /\ b[l] # Blank}) IN
  SubSeq(b, i, last)

Tokens(b) ==
  LET starts == SelectSeq([i \in 1 .. Len(b) |-> i], LAMBDA i : Starts(b, i)) IN
  [j \in 1 .. Len(starts) |-> TokenAt(b, starts[j])]

Redirs == {<<"<">>, <<">">>, <<">", ">">>}
Word(t) == t[1] \in Letters
Cuts(s, c) == {i \in 1 .. Len(s) : s[i] = <<c>>}
Before(s, i) == SubSeq(s, 1, i - 1)
After(s, i) == SubSeq(s, i + 1, Len(s))

RECURSIVE LineOf(_), PipeOf(_), Amps(_)

\* Redirections in s, put around cmd from left to right.
Wrap(cmd, s) ==
  LET marks == SelectSeq([i \in 1 .. Len(s) |-> i], LAMBDA i : s[i] \in Redirs)
  IN FoldLeft(LAMBDA c, i : Redir(c, s[i + 1], RedirFd(s[i][1])), cmd, marks)

\* Words and redirections, each of them followed by its file.
Args(s) == SelectSeq([i \in 1 .. Len(s) |-> i],
                     LAMBDA i : Word(s[i]) /\ ~(i > 1 /\ s[i - 1] \in Redirs))
Simple(s) ==
  /\ \A i \in 1 .. Len(s) : \/ Word(s[i])
                            \/ s[i] \in Redirs /\ i < Len(s) /\ Word(s[i + 1])
  /\ Len(Args(s)) < MAXARGS

ExecOf(s) ==
  IF Simple(s) THEN {Wrap(Exec([j \in 1 .. Len(Args(s)) |-> s[Args(s)[j]]]), s)} ELSE {}

\* A line in parentheses, and redirections.
BlockOf(s) ==
  UNION {{Wrap(c, After(s, i)) : c \in LineOf(SubSeq(s, 2, i - 1))} :
         i \in {j \in Cuts(s, ")") : /\ s[1] = <<"(">>
                                     /\ Simple(After(s, j))
                                     /\ Args(After(s, j)) = <<>>}}

PipeOf(s) ==
  ExecOf(s) \cup BlockOf(s) \cup
  UNION {{PipeCmd(l, r) : l \in ExecOf(Before(s, i)) \cup BlockOf(Before(s, i)),
                          r \in PipeOf(After(s, i))} : i \in Cuts(s, "|")}

\* A pipeline followed by any number of "&".
Amps(s) ==
  PipeOf(s) \cup
  (IF s # <<>> /\ Last(s) = <<"&">> THEN {Back(c) : c \in Amps(Front(s))} ELSE {})

LineOf(s) ==
  Amps(s) \cup
  UNION {{List(l, r) : l \in Amps(Before(s, i)), r \in LineOf(After(s, i))} : i \in Cuts(s, ";")}

-----------------------------------------------------------------------------
(* Processes.  Slot 1 is the shell; init, slot 0, is outside the table.    *)

VARIABLES
  proc,       \* the process table
  line,       \* the line typed, until its command is forked
  typed,      \* lines typed
  faults,     \* fork and pipe calls that failed
  broken      \* one of them failed, or there was no room

vars == <<proc, line, typed, faults, broken>>
rest == <<line, typed, faults, broken>>

Slots == 1 .. NPROC
init == 0
sh == 1

Console == <<"console", 0>>
Closed == <<"closed", 0>>
File == <<"file", 0>>
ReadEnd(i) == <<"read", i>>
WriteEnd(i) == <<"write", i>>

Unused == [pc |-> "unused"]
Live == {p \in Slots : proc[p].pc \notin {"unused", "zombie"}}
Holders(end) == {p \in Live : \E n \in 0 .. NOFILE - 1 : proc[p].fd[n] = end}

\* init starts the shell with the console on three descriptors.
Shell ==
  [pc |-> "prompt", cmd |-> Syntax, parent |-> init, waits |-> 0, back |-> FALSE, p |-> <<>>,
   fd |-> [n \in 0 .. NOFILE - 1 |-> IF n < 3 THEN Console ELSE Closed]]

Init ==
  /\ proc = [p \in Slots |-> IF p = sh THEN Shell ELSE Unused]
  /\ line = <<>>
  /\ typed = 0
  /\ faults = 0
  /\ broken = FALSE

Close(fd, n) == [fd EXCEPT ![n] = Closed]
Lowest(fd) == Min({n \in DOMAIN fd : fd[n] = Closed})
Open(fd, file) == [fd EXCEPT ![Lowest(fd)] = file]
Dup(fd, n) == Open(fd, fd[n])

\* The processes after p has exited: its descriptors are closed, its children
\* are init's.
Exited(procs, p) ==
  [q \in Slots |->
     IF q = p THEN [pc |-> "zombie", parent |-> procs[p].parent]
     ELSE IF procs[q].pc # "unused" /\ procs[q].parent = p THEN [procs[q] EXCEPT !.parent = init]
     ELSE procs[q]]

Exit(p) == proc' = Exited(proc, p) /\ UNCHANGED rest

\* A call of p that may fail for lack of memory, or must without room.
Panics(p, room) ==
  /\ room => faults < MaxFaults
  /\ proc' = Exited(proc, p)
  /\ faults' = IF room THEN faults + 1 ELSE faults
  /\ broken' = TRUE
  /\ line' = IF p = sh THEN <<>> ELSE line
  /\ UNCHANGED typed

\* fork1: child is the new process, parent what p does next.  A failure is a
\* panic, which ends p.
Free == {q \in Slots : proc[q].pc = "unused"}
Fork1(p, child, next) ==
  \/ /\ Free # {}
     /\ proc' = [proc EXCEPT ![Min(Free)] = [child EXCEPT !.parent = p], ![p] = next]
     /\ line' = IF p = sh THEN <<>> ELSE line
     /\ UNCHANGED <<typed, faults, broken>>
  \/ Panics(p, Free # {})

At(p, pc) == proc[p].pc = pc
Runs(p, type) == At(p, "run") /\ proc[p].cmd.type = type

\* p in wait() for n children, and then at cmd; Syntax stands for exit().
Waiting(p, n, cmd) == [proc[p] EXCEPT !.pc = "wait", !.waits = n, !.cmd = cmd]

-----------------------------------------------------------------------------
(* main                                                                    *)

\* getcmd.  What parsecmd makes of the line depends on the line alone, and is
\* kept for the child, which parses and runs it while the shell waits.
ReadLine(p) ==
  /\ At(p, "prompt")
  /\ typed < MaxLines
  /\ \E s \in IF typed = 0 THEN Lines ELSE LaterLines :
       /\ line' = s
       /\ proc' = [proc EXCEPT ![p].pc = "main", ![p].cmd = parsecmd(s)]
  /\ typed' = typed + 1
  /\ UNCHANGED <<faults, broken>>

\* cd is run by the shell itself.
Chdir(p) ==
  /\ At(p, "prompt")
  /\ typed < MaxLines
  /\ typed' = typed + 1
  /\ UNCHANGED <<proc, line, faults, broken>>

MainFork(p) ==
  /\ At(p, "main")
  /\ Fork1(p, [proc[p] EXCEPT !.pc = "parse"], Waiting(p, 1, Syntax))

\* The end of the input ends the shell.
ReadEOF(p) ==
  /\ At(p, "prompt")
  /\ typed < MaxLines
  /\ typed' = typed + 1
  /\ proc' = Exited(proc, p)
  /\ UNCHANGED <<line, faults, broken>>

Parse(p) ==
  /\ At(p, "parse")
  /\ IF proc[p].cmd = Syntax
     THEN Exit(p)
     ELSE proc' = [proc EXCEPT ![p].pc = "run"] /\ UNCHANGED rest

\* wait(): one zombie child is freed; without children it returns at once.
Wait(p) ==
  LET kids == {q \in Slots : proc[q].pc # "unused" /\ proc[q].parent = p}
      dead == {q \in kids : At(q, "zombie")}
      me == [proc[p] EXCEPT !.waits = @ - 1] IN
  /\ At(p, "wait")
  /\ proc[p].waits > 0
  /\ IF kids = {} THEN proc' = [proc EXCEPT ![p] = me]
     ELSE \E q \in dead : proc' = [proc EXCEPT ![q] = Unused, ![p] = me]
  /\ UNCHANGED rest

Prompt(p) ==
  /\ At(p, "wait")
  /\ proc[p].waits = 0
  /\ p = sh
  /\ proc' = [proc EXCEPT ![p].pc = "prompt"]
  /\ UNCHANGED rest

\* After the last wait of runcmd: the right side of a list, or exit().
Waited(p) ==
  /\ At(p, "wait")
  /\ proc[p].waits = 0
  /\ p # sh
  /\ proc' = IF proc[p].cmd = Syntax THEN Exited(proc, p) ELSE [proc EXCEPT ![p].pc = "run"]
  /\ UNCHANGED rest

-----------------------------------------------------------------------------
(* runcmd                                                                  *)

Cat == <<"c">>
Echo == <<"e">>

RunExec(p) ==
  /\ Runs(p, "EXEC")
  /\ IF proc[p].cmd.argv = <<>> \/ proc[p].cmd.argv[1] \notin {Cat, Echo}
     THEN Exit(p)
     ELSE /\ proc' = [proc EXCEPT ![p].pc = "program"]
          /\ UNCHANGED rest

\* open() may fail, except for an input that is there: the file of an output may
\* not be created or may not be writable.
RunRedir(p) ==
  LET c == proc[p].cmd IN
  /\ Runs(p, "REDIR")
  /\ \/ (c.file \notin {Cat, Echo} \/ c.fd # 0) /\ Exit(p)
     \/ /\ proc' = [proc EXCEPT ![p].cmd = c.cmd, ![p].fd = Open(Close(@, c.fd), File)]
        /\ UNCHANGED rest

RunList(p) ==
  /\ Runs(p, "LIST")
  /\ Fork1(p, [proc[p] EXCEPT !.cmd = @.left], Waiting(p, 1, proc[p].cmd.right))

RunBack(p) ==
  /\ Runs(p, "BACK")
  /\ Fork1(p, [proc[p] EXCEPT !.cmd = @.cmd, !.back = TRUE], [proc[p] EXCEPT !.pc = "exit"])

RunExit(p) == At(p, "exit") /\ Exit(p)

RunPipe(p) ==
  LET i == Min({j \in 1 .. NPROC : Holders(ReadEnd(j)) \cup Holders(WriteEnd(j)) = {}})
      room == Cardinality({n \in 0 .. NOFILE - 1 : proc[p].fd[n] = Closed}) > 1
      half == Open(proc[p].fd, ReadEnd(i)) IN
  /\ Runs(p, "PIPE")
  /\ \/ /\ room
        /\ proc' = [proc EXCEPT ![p].pc = "pipe_left", ![p].fd = Open(half, WriteEnd(i)),
                               ![p].p = <<Lowest(proc[p].fd), Lowest(half)>>]
        /\ UNCHANGED rest
     \/ Panics(p, room)

\* close(p[0]); close(p[1])
ClosePipe(fd, p) == Close(Close(fd, p[1]), p[2])
\* Mutant of Plumb: the child keeps the pipe's own descriptors.
PlumbOnly(fd, p, n) == Dup(Close(fd, n), p[n + 1])

\* The child's descriptor n becomes its end of the pipe: p[0] for its input,
\* p[1] for its output.
Plumb(fd, p, n) == ClosePipe(Dup(Close(fd, n), p[n + 1]), p)

RunLeft(p) ==
  LET me == proc[p] IN
  /\ At(p, "pipe_left")
  /\ Fork1(p, [me EXCEPT !.pc = "run", !.cmd = @.left, !.fd = Plumb(@, me.p, 1)],
              [me EXCEPT !.pc = "pipe_right"])
\* Mutant of RunRight: only one of the two children is waited for.
RunRightWaitsOnce(p) ==
  LET me == proc[p] IN
  /\ At(p, "pipe_right")
  /\ Fork1(p, [me EXCEPT !.pc = "run", !.cmd = @.right, !.fd = Plumb(@, me.p, 0)],
              [Waiting(p, 1, Syntax) EXCEPT !.fd = ClosePipe(@, me.p)])

RunRight(p) ==
  LET me == proc[p] IN
  /\ At(p, "pipe_right")
  /\ Fork1(p, [me EXCEPT !.pc = "run", !.cmd = @.right, !.fd = Plumb(@, me.p, 0)],
              [Waiting(p, 2, Syntax) EXCEPT !.fd = ClosePipe(@, me.p)])

-----------------------------------------------------------------------------
(* The programs and init                                                   *)

Is(p, name) == At(p, "program") /\ proc[p].cmd.argv[1] = name
Input(p) == proc[p].fd[0]
Output(p) == proc[p].fd[1]

\* A read returns 0: the input is not a pipe, or nobody can write to it.
EndOfInput(p) == Input(p)[1] = "read" => Holders(WriteEnd(Input(p)[2])) = {}
\* A write fails.
NoReader(p) == Output(p)[1] = "write" /\ Holders(ReadEnd(Output(p)[2])) = {}
\* Someone reads what p writes, or it goes elsewhere than into a pipe.
Drained(p) == Output(p)[1] = "write" =>
  \E q \in Live : Is(q, Cat) /\ Input(q) = ReadEnd(Output(p)[2])

\* The program comes to its end, whatever the amount of data.
Finish(p) ==
  /\ At(p, "program")
  /\ Is(p, Cat) => EndOfInput(p)
  /\ NoReader(p) \/ Drained(p)
  /\ Exit(p)

\* What it writes fits into the pipe, or a write fails before its input ends.
FinishEarly(p) ==
  /\ At(p, "program")
  /\ NoReader(p) \/ (Is(p, Cat) => EndOfInput(p))
  /\ Exit(p)

\* init waits; when the shell is gone it starts another one.
InitReap(p) ==
  /\ At(p, "zombie")
  /\ proc[p].parent = init
  /\ proc' = [proc EXCEPT ![p] = IF p = sh THEN Shell ELSE Unused]
  /\ UNCHANGED rest

-----------------------------------------------------------------------------
RunCmd(p) == \/ RunExec(p) \/ RunRedir(p) \/ RunList(p) \/ RunBack(p) \/ RunExit(p)
             \/ RunPipe(p) \/ RunLeft(p) \/ RunRight(p)

Step(p) == \/ MainFork(p) \/ Parse(p) \/ Wait(p) \/ Prompt(p) \/ Waited(p)
           \/ RunCmd(p) \/ Finish(p) \/ InitReap(p)

Next == \E p \in Slots : Step(p) \/ ReadLine(p) \/ Chdir(p) \/ ReadEOF(p) \/ FinishEarly(p)

\* Every process is scheduled; a program that can finish does.
Spec == Init /\ [][Next]_vars /\ \A p \in Slots : WF_vars(Step(p))

-----------------------------------------------------------------------------
(* Properties                                                              *)

\* The parser accepts the lines of the grammar and no others, finds the one
\* command each of them stands for, and the NULs it puts into the line leave
\* every word of it whole and no word longer (sh.c:265-493).
ParserMatchesGrammar ==
  At(sh, "main") => LineOf(Tokens(line)) = {proc[sh].cmd} \ {Syntax}

\* When the prompt is shown again every process of the line is gone, except
\* those put in the background with "&", unless a fork or a pipe has failed half
\* way (sh.c:96, 120-121, 169).
ForegroundDone ==
  At(sh, "prompt") /\ ~broken => \A p \in Live \ {sh} : proc[p].back

\* The shell always comes back to the prompt: no process of a pipeline keeps an
\* end of a pipe open that another one waits to see closed (sh.c:104-121).
PromptReturns == []<>At(sh, "prompt")
=============================================================================
