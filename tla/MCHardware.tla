----------------------------- MODULE MCHardware -----------------------------
(* Small device profiles and boards, and one Python sidecar.  The three share *)
(* no state here, so a behaviour works on one of them.                         *)
EXTENDS ProfileTool, BoardGpio, Sidecar, TLC

MCIdents == {"pin", "high"}
MCPlainWords == MCIdents \cup {"open", "x", "go", "true"}
MCLiteralInt == "0x3d" :> 61 @@ "300" :> 300

\* An i64 reaches up to 1000, and beyond 800 an f64 holds even integers only.
MCNumbers == {0, 1, 2, 3, 4, 510, 600, 1600, 1602, 2000, 2002, 3000}
MCAsF64 == [n \in MCNumbers |-> IF n > 1600 THEN 4 * (n \div 4) ELSE n]

Val(kind, num, str) == [kind |-> kind, num |-> num, str |-> str]
MCValues == {Val("int", 0, ""), Val("int", 600, ""), Val("int", 1602, ""), Val("int", 2000, ""), Val("int", 2002, ""), Val("float", 3, ""),
             Val("str", 0, "open"), Val("str", 0, "os;rm"), Val("bool", 1, "")}

Param(name, ty, min, max, enum) == [name |-> name, ty |-> ty, min |-> min, max |-> max, enum |-> enum]
Firsts == {Param("pin", "int", <<0>>, <<510>>, <<>>), Param("pin", "int", <<1>>, <<>>, <<>>), Param("pin", "int", <<>>, <<>>, <<>>),
           Param("pin", "int", <<>>, <<1600>>, <<>>), Param("pin", "int", <<3000>>, <<>>, <<>>), Param("pin", "float", <<>>, <<1600>>, <<>>),
           Param("pin", "float", <<2>>, <<2>>, <<>>), Param("pin", "float", <<4>>, <<2>>, <<>>), Param("pin", "string", <<>>, <<>>, <<>>),
           Param("pin", "string", <<>>, <<>>, <<{"open"}>>), Param("pin", "string", <<>>, <<>>, <<{"open", "os;rm"}>>)}
Highs == {Param("high", "bool", <<>>, <<>>, <<>>), Param("high", "bool", <<>>, <<>>, <<{"open"}>>), Param("high", "bool", <<0>>, <<>>, <<>>)}
ParamLists == {<<p>> : p \in Firsts} \cup {<<p, q>> : p \in {CHOOSE p \in Firsts : p.max = <<510>>}, q \in Highs} \cup {<<>>}

Hole(name) == <<"{", name, "}">>
Natives ==
    [op : {"gpio_set"}, args : {"pin" :> Hole("pin") @@ "high" :> Hole("high"), "pin" :> Hole("pin") @@ "high" :> <<"true">>, "pin" :> Hole("pin")}]
    \cup [op : {"i2c_write_reg"}, args : {"reg" :> <<"0x3d">> @@ "value" :> Hole("pin"), "reg" :> <<"300">> @@ "value" :> Hole("pin")}]
    \cup [op : {"i2c_read_reg"}, args : {"reg" :> (<<"0x">> \o Hole("pin")), "reg" :> <<"{", "9", "}">>}]
    \cup [op : {"gpio_read"}, args : {"pin" :> Hole("pin"), NoArgs}]
    \cup [op : {"i2c_scan", "spi"}, args : {NoArgs}]
Calls == {<<"go", "(">> \o Hole("pin") \o <<")">>, <<"x", "=">> \o Hole("pin"), <<"x", "<<=">> \o Hole("pin"), <<"go", "(", "x", "=">> \o Hole("pin") \o Hole("high") \o <<")">>, <<"}">>}

Intent(params, backend, native, python) ==
    [name |-> "it", risk |-> "risky", params |-> params, backend |-> backend, native |-> native, python |-> python]
Intents == {Intent(ps, b, <<n>>, <<>>) : ps \in ParamLists, b \in {"native", "python"}, n \in Natives}
    \cup {Intent(ps, "python", n, <<[call |-> c, returns |-> r]>>) :
            ps \in ParamLists, n \in {<<>>, <<CHOOSE n \in Natives : TRUE>>}, c \in Calls, r \in {<<>>, <<"int">>}}
MCRaws == {[version |-> v, intents |-> <<i>>] : v \in {1, 2}, i \in Intents}
    \cup {[version |-> 1, intents |-> <<i, i>>] : i \in Intents}

Pin(name, offset, line) == [name |-> name, offset |-> offset, line |-> line]
Bank(b, port, index) == <<[bank |-> b, port |-> port, index |-> index]>>
MCBoards == [version : {1}, labels : {<<>>, <<"rp1", "bcm">>}, pins :
    {<<Pin("LED", <<17>>, <<>>), Pin("ALIAS", <<17>>, <<>>), Pin("FAN", <<4>>, <<>>)>>,
     <<Pin("LED", <<>>, Bank(1, "C", 4)), Pin("FAN", <<>>, Bank(4, "A", 7))>>,
     <<Pin("LED", <<>>, Bank(1, "C", 8))>>, <<Pin("LED", <<>>, <<>>)>>, <<Pin("LED", <<17>>, <<>>), Pin("LED", <<4>>, <<>>)>>}]
Chip(index, label) == [index |-> index, label |-> label]
MCChipSets == {<<Chip(0, "pinctrl-bcm2711"), Chip(4, "pinctrl-rp1")>>, <<Chip(0, "pinctrl-bcm2711"), Chip(1, "other")>>, <<>>}
MCCarries == {<<"pinctrl-rp1", "rp1">>, <<"pinctrl-bcm2711", "bcm">>}

NoProfile == profile = <<>> /\ reads = <<>>
NoPins == board = NoBoard /\ \A l \in Lines : owner[l] = "nobody"
NoSidecar == phase = "init" /\ nextId = 1

HardwareInit == TInit /\ GInit /\ SideInit
HardwareNext ==
    \/ NoPins /\ NoSidecar /\ TNext /\ UNCHANGED <<gvars, sideVars>>
    \/ NoProfile /\ NoSidecar /\ GNext /\ UNCHANGED <<tvars, sideVars>>
    \/ NoProfile /\ NoPins /\ SideNext /\ UNCHANGED <<tvars, gvars>>
HardwareSpec == HardwareInit /\ [][HardwareNext]_<<tvars, gvars, sideVars>> /\ SideFairness
=============================================================================
