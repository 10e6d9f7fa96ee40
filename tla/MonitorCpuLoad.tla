--------------------------- MODULE MonitorCpuLoad ---------------------------
(***************************************************************************)
(* src/test/various/monitor_cpu_load.py: every interval, run               *)
(*   ps -heocomm,pid,pcpu                                                  *)
(* split each line of its output into name, pid and cpu with               *)
(* l.strip().split(maxsplit=2), padded with "" to three fields, collect    *)
(* the processes with cpu_threshold <= float(cpu) into a set, and, when    *)
(* the set is not empty, write a timestamp and the set to the log file.    *)
(*                                                                         *)
(* A line of ps is a sequence of blank-separated tokens: the words of the  *)
(* command name (comm, which may contain blanks), the pid and the cpu      *)
(* share.  Words are model values, numbers are naturals; a field is the   *)
(* sequence of tokens it holds ("" is << >>).  The processes ps lists and  *)
(* their cpu shares change between rounds as they like; the time, the     *)
(* interval and the log's layout are left out.                            *)
(***************************************************************************)
EXTENDS Naturals, Sequences, SequencesExt

CONSTANTS
  Pids,        \* the pids of the processes that may run
  Comm,        \* Comm[p]: the words of process p's command name
  CpuValues,   \* the cpu shares ps may print
  Threshold,   \* cpu_threshold
  MaxRounds    \* bound on the rounds of the loop

ASSUME Pids \subseteq Nat /\ CpuValues \subseteq Nat /\ MaxRounds \in Nat

VARIABLES
  status,      \* "running", or "crashed" once an exception left main
  log,         \* the rounds written: a sequence of sets of ProcessInfo
  rounds       \* iterations of while(True) done

vars == <<status, log, rounds>>

\* The line ps prints for process p using cpu share c.
PsLine(p, c) == Comm[p] \o <<p, c>>

\* str.split(maxsplit=2) of a line: the first two tokens, then the rest of
\* the line as one field.
SplitMax2(l) ==
  IF Len(l) <= 3 THEN [i \in DOMAIN l |-> <<l[i]>>]
  ELSE << <<l[1]>>, <<l[2]>>, SubSeq(l, 3, Len(l)) >>

\* to_3_tuple: the fields padded with "" to three.
To3Tuple(f) == [i \in 1..3 |-> IF i <= Len(f) THEN f[i] ELSE << >>]

\* decompose: ProcessInfo(name, pid, cpu) of a line.
Decompose(l) ==
  LET t == To3Tuple(SplitMax2(l))
  IN  [name |-> t[1], pid |-> t[2], cpu |-> t[3]]

\* float(s) succeeds for a field that is one number.
FloatOK(f) == Len(f) = 1 /\ f[1] \in Nat

\* main after argument parsing and open(outfile, "w+").
Init ==
  /\ status = "running"
  /\ log = << >>
  /\ rounds = 0

\* One iteration of while(True): ps lists the processes running, each
\* with its share; the for loop raises at the first line whose cpu field
\* is not a number, before anything of the round is written; otherwise
\* the overloaded processes are written if there are any, and the loop
\* sleeps.
Round ==
  /\ status = "running"
  /\ rounds < MaxRounds
  /\ rounds' = rounds + 1
  /\ \E running \in SUBSET Pids, cpu \in [Pids -> CpuValues] :
       LET infos == {Decompose(PsLine(p, cpu[p])) : p \in running}
           overloaded == {i \in infos : Threshold <= i.cpu[1]}
       IN  IF \E i \in infos : ~FloatOK(i.cpu)
           THEN /\ status' = "crashed"
                /\ UNCHANGED log
           ELSE /\ log' = IF overloaded # {} THEN Append(log, overloaded)
                                             ELSE log
                /\ UNCHANGED status

Next == Round

Spec == Init /\ [][Next]_vars

-----------------------------------------------------------------------------
(* Properties                                                              *)

\* The monitor "performs this check once every x seconds until the script
\* is killed" (its --help text): no output of ps ends the loop.
MonitorKeepsRunning == status = "running"

=============================================================================
