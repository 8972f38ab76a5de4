----------------------------- MODULE MCCommands -----------------------------
(* Two processes on the two files, or one command on three saved sessions, or *)
(* the prompts of one REPL: the three share no state.                         *)
EXTENDS ConfigFiles, SessionPick, Prompt, TLC

MCSettings == {<<"provider", "openai">>, <<"provider", "other">>, <<"provider", " ">>, <<"model", "m">>, <<"mode", "plan">>, <<"mode", "bad">>}
MCStarts == {File("absent", NoConfig), File("closed", NoConfig),
             File("toml", [provider |-> "openai", model |-> "n", mode |-> Unset, rules |-> {"deny rm"}])}
Machine(located, cli, env, key) == [located |-> located, cli |-> cli, env |-> env, key |-> key]
MCMachines == {Machine(TRUE, Unset, Unset, Unset), Machine(TRUE, Unset, Blank, Blank),
               Machine(TRUE, "deepseek", Blank, Unset), Machine(TRUE, Unset, Unset, Blank), Machine(FALSE, Unset, Unset, "k0")}
MCSurroundings ==
    LET plain == [data |-> "writable", loose |-> FALSE, bare |-> FALSE, unread |-> FALSE]
    IN {plain, [plain EXCEPT !.data = "none"], [plain EXCEPT !.data = "unwritable"],
        [plain EXCEPT !.loose = TRUE], [plain EXCEPT !.bare = TRUE], [plain EXCEPT !.unread = TRUE]}
MCIds == {<<1, 1>>, <<1, 2>>, <<2, 1>>}
MCNeedles == MCIds \cup {<<>>, <<1>>, <<2>>, <<3>>}

MCAncestors == <<"cwd", "root">>
MCMemories == {[is |-> "absent", text |-> <<>>], [is |-> "file", text |-> <<" ">>],
               [is |-> "file", text |-> <<"x">>], [is |-> "file", text |-> <<"x", "y", "z">>]}
SkillFile(is, lines) == [is |-> is, lines |-> lines]
MCSkillDirs == { <<SkillFile("absent", <<>>)>>,
                 <<SkillFile("nested", <<"", "---", "name: b", "---", "", "t">>),
                   SkillFile("flat", <<"---", "name: b", "---", "u">>),
                   SkillFile("flat", <<"---", "desc", "name: a", "---", "v">>)>>,
                 <<SkillFile("flat", <<"---", "name:", "---">>), SkillFile("flat", <<"---", "name: a">>),
                   SkillFile("other", <<"---", "name: a", "---">>)>> }
MCNameOrder == <<"a", "b">>
MCTrees == {<<"p", "p">>}
MCPathFiles == {<<"p">>, <<"p", ".", "p">>}

AllSaved == [id \in Ids |-> "ok"]
Here == [d \in Range(Ancestors) |-> CHOOSE m \in Memories : m.is = "absent"]
NoSkills == [d \in Range(Ancestors) |-> << SkillFile("absent", <<>>) >>]
AtRepl == steps = 0 /\ input = <<>>
AtStart == AtRepl /\ agents = Here /\ skills = NoSkills
AnyMachine == CHOOSE m \in MCMachines : TRUE
NoFiles == machine = AnyMachine /\ config.is = "absent" /\ secrets.is = "absent"
Init ==
    \/ /\ agents = Here /\ skills = NoSkills /\ input = <<>>
       /\ FInit /\ SInit /\ PInit
       /\ stored = AllSaved \/ NoFiles
    \/ /\ machine = AnyMachine /\ stored = AllSaved
       /\ FInit /\ NoFiles /\ SInit
       /\ \/ input = <<>> /\ PInit
          \/ agents = Here /\ skills = NoSkills /\ PInit
Next ==
    \/ AtStart /\ stored = AllSaved /\ cmd = "none" /\ events = 0 /\ FNext /\ UNCHANGED <<svars, pvars>>
    \/ AtStart /\ saves = 0 /\ (\A p \in Procs : ~Busy(p)) /\ SNext /\ UNCHANGED <<fvars, pvars>>
    \/ stored = AllSaved /\ NoFiles /\ saves = 0 /\ events = 0 /\ cmd = "none"
       /\ (\A p \in Procs : ~Busy(p)) /\ PNext /\ (input # <<>> => steps' = 0) /\ UNCHANGED <<fvars, svars>>
Spec == Init /\ [][Next]_<<fvars, svars, pvars>>
=============================================================================
