----------------------------- MODULE MCHeadless -----------------------------
(* Two calls on two files, one of them committed; two hooks before a call and *)
(* one after it.  An evaluation of two cases is a behaviour of its own: the    *)
(* two halves share no state.                                                 *)
EXTENDS Headless, EvalGrid, TLC

MCHead == "a" :> <<"x", "CRLF", "y">>
MCTrees == {MCHead, "a" :> <<"x", "LF", "x">>}
MCContents == {<<"E">>, <<"x", "LF", "y", "x">>}
MCSnippets == {<<>>, <<"x">>, <<"x", "LF">>}
MCRawArgs == {<<>>, <<"t", "{", "q", "}", "q", "}">>, <<"t", "{">>}
MCValidArgs == {<<"{", "}">>, <<"{", "q", "}", "q", "}">>}
MCPreHooks == <<{"edit", "bash"}, {"*"}>>
MCPostHooks == <<{"edit", "task"}>>
MCToolLists == {<<>>, <<{"read_file", "edit", "nosuch"}>>}
MCAllowLists == {<<>>, <<{"edit", "bash"}>>}
MCCases == <<"create-hello", "append-line">>
MCConfigLists == {<<"economy", "benchmark">>, <<"economy", "economy">>, <<"benchmark", "other">>, <<>>}

Init == HInit /\ EInit
Next ==
    \/ eval = "ready" /\ HNext /\ UNCHANGED evars
    \/ phase = "start" /\ ENext /\ UNCHANGED <<tvars, hvars>>
Spec == Init /\ [][Next]_<<tvars, hvars, evars>>
=============================================================================
