-------------------------------- MODULE Nush --------------------------------
(***************************************************************************)
(* The shell of hw05 (nush.c): what its processes fork, execute and wait   *)
(* for while it reads a script, in the three versions of the program that  *)
(* the repository holds.  A child whose execvp fails falls out of execute  *)
(* into the loop of main: it is a second shell, with its own copy of the   *)
(* lines that stdio had read ahead when it was forked.  The script comes   *)
(* through a pipe and is short enough to be read ahead as a whole.         *)
(***************************************************************************)
EXTENDS Integers, Sequences, FiniteSetsExt

CONSTANTS
  Scripts,     \* the scripts to run: sequences of lines; without an operator, second are the arguments
  Installed,   \* the words execvp finds a program for
  MaxProcs     \* bound: processes at a time

ASSUME NushAssumption ==
  /\ MaxProcs \in Nat \ {0}
  /\ \A s \in Scripts : s \in Seq([first : STRING, oper : STRING, second : STRING]) /\ s # <<>>

\* The version of hw05/, that of Operating Systems/hw05/ and that of Operating Systems/HW/hw05/.
Versions  == {"start", "draft", "final"}
Operators == {"&&", "||", ";", "&", "<"}
Procs     == 1 .. MaxProcs

VARIABLES
  version,  \* which program it is
  script,   \* the lines of stdin
  pc,       \* per process: what it does
  pos,      \* per process: the lines it has read
  parent,   \* per process: who may wait for it, 0 for init
  child,    \* per process: whom it waits for
  from,     \* history, per process: the line at which it was forked
  ran,      \* history: how often each line was executed
  born      \* history: how many second shells each line has made

vars == <<version, script, pc, pos, parent, child, from, ran, born>>

Init ==
  /\ version \in Versions /\ script \in Scripts
  /\ pc = [p \in Procs |-> IF p = 1 THEN "read" ELSE "none"]
  /\ pos = [p \in Procs |-> 0]
  /\ parent = [p \in Procs |-> 0]
  /\ child = [p \in Procs |-> 0]
  /\ from = [p \in Procs |-> 0]
  /\ ran = [i \in 1 .. Len(script) |-> 0]
  /\ born = [i \in 1 .. Len(script) |-> 0]

line(p) == script[pos[p]]

\* strOper.  The first version takes the line up to its first space as the command.
strOper(p) == version # "start" /\ line(p).oper \in Operators
oper(p)    == IF strOper(p) THEN line(p).oper ELSE ""

\* fork: the child is a copy of p that goes on at exec, p at then.
Fork(p, exec, then) ==
  \E c \in {q \in Procs : pc[q] = "none" /\ \A r \in Procs : r < q => pc[r] # "none"} :
    /\ pc' = [pc EXCEPT ![p] = then, ![c] = exec]
    /\ pos' = [pos EXCEPT ![c] = pos[p]]
    /\ parent' = [parent EXCEPT ![c] = p]
    /\ child' = [child EXCEPT ![p] = c]
    /\ from' = [from EXCEPT ![c] = pos[p]]

\* The process is over: its children are left to init, itself to its parent, or to init.
Over(p) ==
  /\ pc' = [q \in Procs |->
              IF q = p THEN IF parent[p] = 0 THEN "none" ELSE "zombie"
              ELSE IF parent[q] = p /\ pc[q] = "zombie" THEN "none" ELSE pc[q]]
  /\ parent' = [q \in Procs |-> IF parent[q] = p THEN 0 ELSE parent[q]]
  /\ UNCHANGED <<version, script, pos, child, from, ran, born>>

\* The first version, which does not ask whether there was a line, has one: no script is empty.
EndOfFile(p) ==
  /\ pc[p] = "read"
  /\ pos[p] = Len(script)
  /\ Over(p)

\* A variant for the checks: a line is read for the prompt, and the next one executed.
ReadNextLine(p) ==
  /\ pc[p] = "read"
  /\ pos[p] + 1 < Len(script)
  /\ pos' = [pos EXCEPT ![p] = @ + 2]
  /\ pc' = [pc EXCEPT ![p] = "execute"]
  /\ ran' = [ran EXCEPT ![pos[p] + 2] = @ + 1]
  /\ UNCHANGED <<version, script, parent, child, from, born>>

ReadLine(p) ==
  /\ pc[p] = "read"
  /\ pos[p] < Len(script)
  /\ pos' = [pos EXCEPT ![p] = @ + 1]
  /\ pc' = [pc EXCEPT ![p] = "execute"]
  /\ ran' = [ran EXCEPT ![pos[p] + 1] = @ + 1]
  /\ UNCHANGED <<version, script, parent, child, from, born>>

\* cd and exit are the shell's own.
ChangeDir(p) ==
  /\ pc[p] = "execute" /\ version # "start" /\ line(p).first = "cd"
  /\ pc' = [pc EXCEPT ![p] = "read"]
  /\ UNCHANGED <<version, script, pos, parent, child, from, ran, born>>

Exit(p) ==
  /\ pc[p] = "execute" /\ version # "start" /\ line(p).first = "exit"
  /\ Over(p)

\* strtok finds no word in an empty line, and strcmp is called with NULL.
Crash(p) ==
  /\ pc[p] = "execute" /\ version # "start" /\ line(p).first = ""
  /\ Over(p)

\* A variant for the checks: no line is one of the background.
ForkFirstAndGoOn(p) ==
  /\ pc[p] = "execute"
  /\ version = "start" \/ line(p).first \notin {"", "cd", "exit"}
  /\ Fork(p, "exec1", "read")
  /\ UNCHANGED <<version, script, ran, born>>

\* In the background: do not wait.
ForkFirst(p) ==
  /\ pc[p] = "execute"
  /\ version = "start" \/ line(p).first \notin {"", "cd", "exit"}
  /\ Fork(p, "exec1", IF oper(p) = "&" THEN "read" ELSE "wait1")
  /\ UNCHANGED <<version, script, ran, born>>

\* waitpid for the child that p forked last; the child is gone after it.
Reap(p, then) ==
  /\ pc[child[p]] = "zombie"
  /\ pc' = [pc EXCEPT ![child[p]] = "none", ![p] = then]
  /\ UNCHANGED <<version, script, pos, parent, child, from, ran, born>>

\* && and || look at the first word, not at the status of what it ran.
Skips(p) == \/ oper(p) = "&&" /\ line(p).first = "false"
            \/ oper(p) = "||" /\ line(p).first = "true"

\* The first version executes one command.
WaitFirst(p) ==
  /\ pc[p] = "wait1"
  /\ Reap(p, IF version = "start" THEN "return"
             ELSE IF ~strOper(p) \/ Skips(p) THEN "read" ELSE "fork2")

ForkSecond(p) ==
  /\ pc[p] = "fork2"
  /\ Fork(p, "exec2", "wait2")
  /\ UNCHANGED <<version, script, ran, born>>

WaitSecond(p) ==
  /\ pc[p] = "wait2"
  /\ Reap(p, IF oper(p) = ";" THEN "read" ELSE "fork3")

\* A variant for the checks: do not wait for the third child.
ForkThirdAndGoOn(p) ==
  /\ pc[p] = "fork3"
  /\ Fork(p, "exec3", "read")
  /\ UNCHANGED <<version, script, ran, born>>

\* A third child executes the operator itself.
ForkThird(p) ==
  /\ pc[p] = "fork3"
  /\ Fork(p, "exec3", "wait3")
  /\ UNCHANGED <<version, script, ran, born>>

WaitThird(p) ==
  /\ pc[p] = "wait3"
  /\ Reap(p, "read")

Return(p) ==
  /\ pc[p] = "return"
  /\ Over(p)

word(p) == CASE pc[p] = "exec1" -> line(p).first
             [] pc[p] = "exec2" -> line(p).second
             [] pc[p] = "exec3" -> oper(p)

\* Before it executes, the draft's first child of a < reads stdin, that is the lines that are
\* left of the script and then the file, to its end, and leaves args without a NULL at its end.
Redirected(p) == version = "draft" /\ pc[p] = "exec1" /\ oper(p) = "<"

\* The first version cuts a line at its first space; a line of one word keeps its newline.
Found(p) == word(p) \in Installed /\ (version = "start" => line(p).oper # "" \/ line(p).second # "")

\* A variant for the checks: try again until it succeeds.
ExecAgain(p) ==
  /\ pc[p] \in {"exec1", "exec2", "exec3"}
  /\ Found(p)
  /\ pc' = [pc EXCEPT ![p] = "program"]
  /\ UNCHANGED <<version, script, pos, parent, child, from, ran, born>>

Exec(p) ==
  /\ pc[p] \in {"exec1", "exec2", "exec3"}
  /\ \/ /\ Found(p)
        /\ pc' = [pc EXCEPT ![p] = "program"]
        /\ UNCHANGED <<version, script, pos, parent, child, from, ran, born>>
     \/ /\ ~Found(p) \/ Redirected(p)
        /\ pc' = [pc EXCEPT ![p] = IF version = "start" THEN "return" ELSE "read"]
        /\ pos' = [pos EXCEPT ![p] = IF Redirected(p) THEN Len(script) ELSE @]
        /\ born' = [born EXCEPT ![pos[p]] = @ + 1]
        /\ UNCHANGED <<version, script, parent, child, from, ran>>

Program(p) ==
  /\ pc[p] = "program"
  /\ Over(p)

execute(p) == \/ ChangeDir(p) \/ Exit(p) \/ Crash(p) \/ ForkFirst(p) \/ WaitFirst(p)
              \/ ForkSecond(p) \/ WaitSecond(p) \/ ForkThird(p) \/ WaitThird(p)

Step(p) == EndOfFile(p) \/ ReadLine(p) \/ execute(p) \/ Return(p) \/ Exec(p) \/ Program(p)

AllOver == \A p \in Procs : pc[p] = "none"

Next == \/ \E p \in Procs : Step(p)
        \/ AllOver /\ UNCHANGED vars

\* Every process is scheduled, and programs end.
Spec == Init /\ [][Next]_vars /\ \A p \in Procs : WF_vars(Step(p))

-----------------------------------------------------------------------------
Shells == {p \in Procs : pc[p] \in {"read", "execute", "fork2", "fork3", "exec1", "exec2", "exec3"}}

\* However many second shells there are, they take turns, because each is somebody's child
\* in the foreground; only a command in the background lets two processes of the shell run.
ShellsTakeTurns ==
  (\A i \in 1 .. Len(script) : version # "start" => script[i].oper # "&") => Cardinality(Shells) <= 1

\* Between two lines a shell has no children but those it put in the background: it has
\* waited for all others, and for the second shells they have become.
OnlyBackgroundUnreaped ==
  \A p, c \in Procs :
    pc[p] = "read" /\ pc[c] # "none" /\ parent[c] = p => script[from[c]].oper = "&"

\* A line runs once for the shell itself and once for each second shell that an earlier
\* line has made: nothing else repeats or loses one, up to an exit or an empty line.
RunsOncePerShell ==
  LET shells(i) == 1 + MapThenSumSet(LAMBDA j : born[j], 1 .. i - 1) IN
  /\ \A i \in 1 .. Len(script) : ran[i] <= shells(i)
  /\ AllOver /\ version = "final" /\ (\A i \in 1 .. Len(script) : script[i].first \notin {"", "exit"})
       => \A i \in 1 .. Len(script) : ran[i] = shells(i)

\* Every second shell comes to the end of the script, and the shell after it.
AllEnd == <>[]AllOver

=============================================================================
