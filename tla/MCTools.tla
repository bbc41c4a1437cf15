------------------------------- MODULE MCTools ------------------------------
(***************************************************************************)
(* The three smaller programs, one of them at a time; those that do not    *)
(* run stay as they start.                                                 *)
(*                                                                         *)
(* The shell: scripts of two or three lines of fourteen kinds, each        *)
(* operator with words that are installed and words that are not, an       *)
(* argument, cd, exit, no word.  The file system: three mounts at two      *)
(* addresses, killed between any two steps; a path that exists nowhere,    *)
(* and reads shorter and longer than the file.  The arrays: up to six      *)
(* elements of two values, so that every array grows, some twice, and      *)
(* hello2's shrinks; an index below zero and one behind the end.           *)
(***************************************************************************)
EXTENDS Nush, Nufs, Vectors

VARIABLE tool  \* which of the three it is

toolVars == <<tool, vars, nvars, vvars>>

ToolInit ==
  /\ tool \in {"nush", "nufs", "vectors"}
  /\ Init  /\ (tool # "nush" => version = "final" /\ script = CHOOSE s \in Scripts : Len(s) = 2)
  /\ NInit /\ (tool # "nufs" => server = "starter")
  /\ VInit /\ (tool # "vectors" => program = "lab1")

ShellStep(p) == tool = "nush" /\ Step(p) /\ UNCHANGED <<tool, nvars, vvars>>

FileStep == tool = "nufs" /\ NNext /\ UNCHANGED <<tool, vars, vvars>>

VectorStep == tool = "vectors" /\ VNext /\ UNCHANGED <<tool, vars, nvars>>

\* Where each of them may stop: over, mounted as often as the bound has it, ended or at its bound.
Rest ==
  /\ \/ tool = "nush" /\ AllOver
     \/ tool = "nufs" /\ step = "off" /\ mem[root_refCount] = MaxMounts
     \/ tool = "vectors" /\ (running => count = MaxCount)
  /\ UNCHANGED toolVars

ToolNext == (\E p \in Procs : ShellStep(p)) \/ FileStep \/ VectorStep \/ Rest

\* As in Nush.
ToolSpec == ToolInit /\ [][ToolNext]_toolVars /\ \A p \in Procs : WF_toolVars(ShellStep(p))

\* Every second shell comes to the end of the script, and the shell after it.
ShellEnds == tool = "nush" => AllEnd

-----------------------------------------------------------------------------
Line(first, op, second) == [first |-> first, oper |-> op, second |-> second]

Lines == {
  Line("true", "", ""),       Line("typo", "", ""),        Line("exit", "", ""),
  Line("cd", "", ""),         Line("", "", ""),            Line("true", "&&", "true"),
  Line("false", "&&", "true"), Line("true", "||", "true"), Line("typo", "||", "true"),
  Line("true", ";", "typo"),  Line("true", "", "word"),
  Line("sort", "<", "file"),  Line("true", "&", ""),       Line("typo", "&", "")}

\* All scripts of two lines, and those of three with none in the background.
MCScripts ==
  [1 .. 2 -> Lines] \cup
  {s \in [1 .. 3 -> Lines] : \A i \in 1 .. 3 : s[i].oper # "&"}
MCInstalled == {"true", "false", "sort"}

MCIndexes == {-1, 0, 1, 2, 4}
=============================================================================
