------------------------------ MODULE EvalGrid ------------------------------
(* The evaluation harness (orcarein-eval: bin/eval.rs, runner.rs, report.rs): *)
(* every case under every configuration, so many times, one cell after the    *)
(* other, each in a fresh directory the process changes into.                 *)
EXTENDS Integers, Sequences, FiniteSets

CONSTANTS
    Cases,        \* the suite, a sequence
    ConfigLists,  \* what --configs may be: sequences of names, known or not
    KnownConfigs, \* the names parse_config knows
    Repeats,      \* values of --repeat
    Caps,         \* values of --max-cases; 0 for none
    MaxSteps      \* bound: tool calls of a cell

\* The suite's ids are unique (task.rs: toy_suite_is_nonempty_and_ids_unique).
ASSUME SuiteAssumption ==
    /\ Cases \in Seq({Cases[i] : i \in DOMAIN Cases})
    /\ \A i, j \in DOMAIN Cases : Cases[i] = Cases[j] => i = j
ASSUME ArgumentsAssumption ==
    /\ \A list \in ConfigLists : list \in Seq({list[i] : i \in DOMAIN list})
    /\ Repeats \subseteq Nat /\ Caps \subseteq Nat

VARIABLES
    args,    \* the command line
    cell,    \* indices of case, configuration and repeat
    cells,   \* cells done
    cwd,     \* 0 at home, else the number of the cell's directory
    dirs,    \* what the cells' directories hold: number to the steps taken there
    rec,     \* the cell's record, its steps, as a sequence of at most one
    traces,  \* trace files under --out: name to steps, for each place it was written
    rows,    \* the rows collected
    csv,     \* metrics.csv, as a sequence of at most one
    eval     \* "ready", "cell", "turn", "graded", "done", "failed"

evars == <<args, cell, cells, cwd, dirs, rec, traces, rows, csv, eval>>

EInit ==
    /\ args = [configs |-> <<>>, repeat |-> 0, cap |-> 0]
    /\ cell = <<1, 1, 1>> /\ cells = 0 /\ cwd = 0 /\ dirs = <<>> /\ rec = <<>>
    /\ traces = {} /\ rows = <<>> /\ csv = <<>> /\ eval = "ready"

\* The key, the directories and config.json come first.
Launch(configs, repeat, cap) ==
    /\ eval = "ready"
    /\ args' = [configs |-> configs, repeat |-> repeat, cap |-> cap]
    /\ eval' = "cell"
    /\ UNCHANGED <<cell, cells, cwd, dirs, rec, traces, rows, csv>>

Aborts == eval' = "failed" /\ UNCHANGED <<args, cell, cells, rows, csv>>

-----------------------------------------------------------------------------
(* One cell: run_case *)

Case == cell[1]
Config == cell[2]
Repeat == cell[3]

AtEnd == Case > Len(Cases)
InRow == ~AtEnd /\ Config <= Len(args.configs)

\* Mutant: one cell too many.
Capped_OffByOne == args.cap # 0 /\ cells > args.cap

\* The budget guard, looked at before every cell.
Capped == args.cap # 0 /\ cells >= args.cap

\* The loops' own steps: the next case, the next configuration.
NextRow ==
    /\ eval = "cell"
    /\ \/ ~AtEnd /\ Config > Len(args.configs) /\ cell' = <<Case + 1, 1, 1>>
       \/ InRow /\ args.configs[Config] \in KnownConfigs /\ Repeat > args.repeat /\ cell' = <<Case, Config + 1, 1>>
    /\ UNCHANGED <<args, cells, cwd, dirs, rec, traces, rows, csv, eval>>

\* parse_config is reached when the loop reaches the name.
UnknownConfig ==
    /\ eval = "cell" /\ InRow /\ args.configs[Config] \notin KnownConfigs
    /\ Aborts /\ UNCHANGED <<cwd, dirs, rec, traces>>

\* A fresh directory, the case's setup, and the process moves there; each of the
\* three may fail and end the program.
EnterCell(ok) ==
    /\ eval = "cell" /\ InRow /\ args.configs[Config] \in KnownConfigs
    /\ Repeat <= args.repeat /\ ~Capped
    /\ IF ok THEN /\ dirs' = Append(dirs, 0) /\ cwd' = Len(dirs') /\ eval' = "turn"
                  /\ UNCHANGED <<args, cell, cells, rows, csv>>
       ELSE Aborts /\ UNCHANGED <<dirs, cwd>>
    /\ UNCHANGED <<rec, traces>>

\* A tool works relative to where the process is.
CellTool ==
    /\ eval = "turn" /\ cwd # 0 /\ dirs[cwd] < MaxSteps
    /\ dirs' = [dirs EXCEPT ![cwd] = @ + 1]
    /\ UNCHANGED <<args, cell, cells, cwd, rec, traces, rows, csv, eval>>

\* Mutant: the process stays where the cell was.
Restored_Never == cwd

\* set_current_dir(prev_cwd), whatever became of the turn.
Restored == 0

\* The turn's error ends the program; an answer is graded in the directory.
LeaveCell(ok) ==
    /\ eval = "turn"
    /\ cwd' = Restored
    /\ IF ok THEN rec' = <<dirs[Len(dirs)]>> /\ eval' = "graded" /\ UNCHANGED <<args, cell, cells, rows, csv>>
       ELSE Aborts /\ UNCHANGED rec
    /\ UNCHANGED <<dirs, traces>>

TraceName == <<Cases[Case], args.configs[Config], Repeat>>

\* The trace is a file of that name, the row one more row; a failed write ends
\* the program with the row unsaved.
Record(written) ==
    /\ eval = "graded"
    /\ IF written
       THEN /\ traces' = {t \in traces : t.name # TraceName \/ t.in # cwd} \cup {[name |-> TraceName, in |-> cwd, steps |-> rec[1]]}
            /\ rows' = Append(rows, [name |-> TraceName, steps |-> rec[1]])
            /\ cells' = cells + 1 /\ cell' = <<Case, Config, Repeat + 1>>
            /\ rec' = <<>> /\ eval' = "cell" /\ UNCHANGED <<args, csv>>
       ELSE Aborts /\ UNCHANGED <<rec, traces>>
    /\ UNCHANGED <<cwd, dirs>>

\* break 'outer, or the last case: only now the rows are saved.
Report(written) ==
    /\ eval = "cell"
    /\ AtEnd \/ (InRow /\ args.configs[Config] \in KnownConfigs /\ Repeat <= args.repeat /\ Capped)
    /\ IF written THEN csv' = <<rows>> /\ eval' = "done" /\ UNCHANGED <<args, cell, cells, rows>> ELSE Aborts
    /\ UNCHANGED <<cwd, dirs, rec, traces>>

ENext ==
    \/ \E configs \in ConfigLists, repeat \in Repeats, cap \in Caps : Launch(configs, repeat, cap)
    \/ NextRow \/ UnknownConfig \/ CellTool
    \/ \E ok \in BOOLEAN : EnterCell(ok) \/ LeaveCell(ok) \/ Record(ok) \/ Report(ok)

-----------------------------------------------------------------------------
(* Properties *)

SizeOf(list) == Len(Cases) * Len(list) * args.repeat

\* A table that was written is the whole grid, or its first cells up to the
\* budget: one row for each, of the steps taken in its own directory, and beside
\* it the trace of that very run.  With a configuration named twice the second
\* run's trace replaces the first one's, so that such lists are left out.
\* (eval.rs: max_cases, "Budget guard"; runner.rs: a fresh workspace)
TableIsTheGrid ==
    csv # <<>> =>
        LET all == SizeOf(args.configs)
            twice == \E i, j \in DOMAIN args.configs : i # j /\ args.configs[i] = args.configs[j]
        IN /\ Len(rows) = IF args.cap # 0 /\ args.cap < all THEN args.cap ELSE all
           /\ \A k \in DOMAIN rows : rows[k].steps = dirs[k]
           /\ twice \/ traces = {[name |-> r.name, in |-> 0, steps |-> r.steps] : r \in {rows[k] : k \in DOMAIN rows}}
           /\ twice \/ Cardinality(traces) = Len(rows)

=============================================================================
