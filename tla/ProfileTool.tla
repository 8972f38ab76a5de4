---------------------------- MODULE ProfileTool ----------------------------
(* orcarein-hardware's ProfileTool: each intent of a loaded profile is a    *)
(* tool; a call binds its arguments, then runs Python code in the sidecar   *)
(* or one operation on the transport, or says what it would run (dry run).  *)
(* The tools of one registry share an executor; the examples build two      *)
(* registries from a profile, one of them for dry runs.                     *)
EXTENDS DeviceProfile, Functions

CONSTANTS
    Raws,      \* the documents a profile may be loaded from
    Values,    \* JSON values an argument may have
    Bytes,     \* what a scripted read may return
    MaxReads,  \* bound: scripted reads waiting
    MaxCalls   \* bound: calls of one behaviour

\* What the deserializers hand over: JSON values, an integer being an even
\* number of halves, and documents whose fields are of their kinds, the bounds
\* f64s.
ASSUME ValuesAssumption ==
    /\ Values \subseteq [kind : {"int", "float", "str", "bool"}, num : Numbers, str : STRING]
    /\ \A v \in Values : v.kind = "int" => v.num % 2 = 0
ParamIsTyped(p) ==
    /\ p.ty \in {"int", "float", "string", "bool"}
    /\ \A b \in {p.min, p.max} : b # <<>> => b[1] \in Numbers /\ AsF64[b[1]] = b[1]
ASSUME RawsAssumption ==
    \A raw \in Raws : \A i \in DOMAIN raw.intents :
        LET intent == raw.intents[i] IN
          /\ \A p \in Range(intent.params) : ParamIsTyped(p)
          /\ intent.python # <<>> => intent.python[1].call \in Seq(STRING)

VARIABLES
    profile,  \* the loaded profile, if from_toml_str returned one
    sidecar,  \* whether the real executor has a Python sidecar
    reads,    \* MockTransport's read_queue
    ioCount,  \* operations the transport recorded and codes the sidecar ran
    last,     \* the last call and what became of it
    calls

tvars == <<profile, sidecar, reads, ioCount, last, calls>>

NoArgs == [k \in {} |-> 0]
NoOp == [op |-> "", first |-> 0, second |-> 0]

\* What a call comes to: refused before any I/O, or this code or operation.
Refused(why) == [way |-> "refused", why |-> why, code |-> <<>>, op |-> NoOp]
Python(mode, code) == [way |-> mode, why |-> "", code |-> code, op |-> NoOp]
Native(op) == [way |-> "native", why |-> "", code |-> <<>>, op |-> op]

NoCall == [intent |-> 0, args |-> NoArgs, dry |-> FALSE, plan |-> Refused("none"), result |-> "none"]

TInit ==
    /\ profile = <<>> /\ sidecar = FALSE
    /\ reads = <<>> /\ ioCount = 0 /\ calls = 0
    /\ last = NoCall

-----------------------------------------------------------------------------
(* build_native_op *)

\* A placeholder must be bound to an int; other text must parse as one.
ResolveInt(t, bound) ==
    IF SinglePlaceholder(t)
    THEN IF bound[t[2]].kind = "int" THEN <<bound[t[2]].num \div 2>> ELSE <<>>
    ELSE IF Len(t) = 1 /\ t[1] \in DOMAIN LiteralInt THEN <<LiteralInt[t[1]]>> ELSE <<>>

ResolveBool(t, bound) ==
    IF SinglePlaceholder(t)
    THEN IF bound[t[2]].kind = "bool" THEN <<bound[t[2]].num>> ELSE <<>>
    ELSE IF t = <<"true">> THEN <<1>> ELSE IF t = <<"false">> THEN <<0>> ELSE <<>>

ToU8(v) == IF v # <<>> /\ v[1] \in 0 .. 255 THEN v ELSE <<>>

\* The operation's registers, pins and levels, or a refusal.
BuildNativeOp(native, bound) ==
    LET Arg(key) == IF key \in DOMAIN native.args THEN native.args[key] ELSE <<>>
        Int8(key) == ToU8(ResolveInt(Arg(key), bound))
        Op(first, second) ==
            IF first = <<>> \/ second = <<>> THEN Refused("native arg")
            ELSE Native([op |-> native.op, first |-> first[1], second |-> second[1]])
    IN CASE native.op = "i2c_scan" -> Op(<<0>>, <<0>>)
         [] native.op = "i2c_write_reg" -> Op(Int8("reg"), Int8("value"))
         [] native.op = "i2c_read_reg" -> Op(Int8("reg"), <<0>>)
         [] native.op = "gpio_set" -> Op(Int8("pin"), ResolveBool(Arg("high"), bound))
         [] native.op = "gpio_read" -> Op(Int8("pin"), <<0>>)

-----------------------------------------------------------------------------
(* ProfileTool::execute *)

\* The arguments are bound and the code or operation built, dry run or not.
Plan(intent, args) ==
    IF ~Binds(args, intent.params) THEN Refused("bind")
    ELSE LET bound == Bound(args, intent.params)
         IN IF intent.python # <<>>
            THEN Python(IF intent.python[1].returns # <<>> THEN "eval" ELSE "exec",
                        Render(intent.python[1].call, bound))
            ELSE BuildNativeOp(intent.native[1], bound)

Called(i, args, dry, plan, result) ==
    /\ calls' = calls + 1
    /\ last' = [intent |-> i, args |-> args, dry |-> dry, plan |-> plan, result |-> result]
    /\ UNCHANGED <<profile, sidecar>>

\* Profile::from_toml_str, then registry_from_profile with an executor whose
\* sidecar may be missing.
Load(raw) ==
    /\ Loads(raw)
    /\ profile' = <<raw>>
    /\ sidecar' \in {\E i \in DOMAIN raw.intents : raw.intents[i].python # <<>>, FALSE}
    /\ UNCHANGED <<reads, ioCount, last, calls>>

MayCall(i) == calls < MaxCalls /\ profile # <<>> /\ i \in DOMAIN profile[1].intents

DryRun(i, args) ==
    /\ MayCall(i)
    /\ LET plan == Plan(profile[1].intents[i], args)
       IN Called(i, args, TRUE, plan, IF plan.way = "refused" THEN "refused" ELSE "ok")
    /\ UNCHANGED <<reads, ioCount>>

Refuse(i, args) ==
    /\ MayCall(i)
    /\ LET plan == Plan(profile[1].intents[i], args)
       IN /\ plan.way = "refused"
          /\ Called(i, args, FALSE, plan, "refused")
    /\ UNCHANGED <<reads, ioCount>>

\* The sidecar answers or fails; without one nothing runs.
RunPython(i, args, result) ==
    /\ MayCall(i)
    /\ LET plan == Plan(profile[1].intents[i], args)
       IN /\ plan.way \in {"eval", "exec"}
          /\ result \in (IF sidecar THEN {"ok", "device"} ELSE {"no sidecar"})
          /\ Called(i, args, FALSE, plan, result)
          /\ ioCount' = ioCount + (IF sidecar THEN 1 ELSE 0)
    /\ UNCHANGED reads

\* MockTransport::exec: the operation is recorded; a read pops the queue and
\* fails when it is empty.
RunNative(i, args) ==
    /\ MayCall(i)
    /\ LET plan == Plan(profile[1].intents[i], args)
           isRead == plan.op.op \in {"i2c_read_reg", "gpio_read"}
       IN /\ plan.way = "native"
          /\ Called(i, args, FALSE, plan, IF isRead /\ reads = <<>> THEN "device" ELSE "ok")
          /\ reads' = IF isRead /\ reads # <<>> THEN Tail(reads) ELSE reads
          /\ ioCount' = ioCount + 1

\* MockTransport::push_read
PushRead(byte) ==
    /\ profile # <<>> /\ Len(reads) < MaxReads /\ calls < MaxCalls
    /\ reads' = Append(reads, byte)
    /\ UNCHANGED <<profile, sidecar, ioCount, last, calls>>

\* Arguments with the intent's keys, one key less or one key more.
ArgSets(i) ==
    LET names == Named(profile[1].intents[i].params)
        whole == [names -> Values]
    IN whole \cup {[a \in names \cup {"extra"} |-> IF a = "extra" THEN CHOOSE v \in Values : TRUE ELSE f[a]] : f \in whole}
             \cup UNION {[names \ {n} -> Values] : n \in names}

TNext ==
    \/ profile = <<>> /\ \E raw \in Raws : Load(raw)
    \/ \E byte \in Bytes : PushRead(byte)
    \/ /\ profile # <<>> /\ calls < MaxCalls
       /\ \E i \in DOMAIN profile[1].intents : \E args \in ArgSets(i) :
            \/ DryRun(i, args)
            \/ Refuse(i, args)
            \/ \E result \in {"ok", "device", "no sidecar"} : RunPython(i, args, result)
            \/ RunNative(i, args)

-----------------------------------------------------------------------------
(* Properties *)

LastIntent == profile[1].intents[last.intent]

\* Code given to Python is the profile's own text and, for the rest, numbers
\* within their parameter's bounds (to the precision of an f64), booleans, and
\* words of a whitelist that contain nothing but name characters: the language
\* model never writes code.
\* (validate_python_call, is_valid_enum_member, bind_param, render)
OnlyVettedValues ==
    last.plan.way \in {"eval", "exec"} =>
        LET code == last.plan.code
            text == Range(LastIntent.python[1].call)
        IN \A k \in DOMAIN code :
             \/ code[k].kind = "text" /\ code[k].str \in text
             \/ /\ code[k].kind = "str"
                /\ \E p \in Range(LastIntent.params) : p.enum # <<>> /\ code[k].str \in p.enum[1]
                /\ code[k].str \in PlainWords
             \/ /\ code[k].kind \in {"int", "float"}
                /\ \E p \in Range(LastIntent.params) : Numeric(p) /\ InRange(p, code[k].num)
             \/ code[k].kind = "bool"

\* A profile whose author gave every int parameter bounds that are i64s, and every
\* native argument a parameter of its kind, with bounds a byte holds, or a literal
\* that is one.
IntArg(t, params) ==
    IF SinglePlaceholder(t)
    THEN \E p \in Range(params) :
            /\ p.name = t[2] /\ p.ty = "int" /\ p.min # <<>> /\ p.max # <<>>
            /\ p.min[1] >= 0 /\ p.max[1] <= 510
    ELSE ToU8(ResolveInt(t, NoArgs)) # <<>>
BoolArg(t, params) ==
    IF SinglePlaceholder(t) THEN \E p \in Range(params) : p.name = t[2] /\ p.ty = "bool"
    ELSE ResolveBool(t, NoArgs) # <<>>
CarefulIntent(intent) ==
    /\ \A p \in Range(intent.params) :
          p.ty = "int" => \A b \in {p.min, p.max} : b # <<>> => b[1] = 2 * AsI64(b[1])
    /\ intent.native # <<>> =>
        \A k \in DOMAIN intent.native[1].args :
            IF k = "high" THEN BoolArg(intent.native[1].args[k], intent.params)
            ELSE IntArg(intent.native[1].args[k], intent.params)

\* Integers that the code can take: written without a fraction or exponent, and
\* i64s.  The schema asks for neither.
TakesInts(args, params) ==
    \A p \in Range(params) : p.ty = "int" => args[p.name].kind = "int" /\ IsI64(args[p.name].num)
IsExact(args) == \A name \in DOMAIN args : AsF64[args[name].num] = args[name].num

\* The checks at load are enough: when a profile written with care loads, no
\* arguments that meet the schema the model was shown are ever refused, an integer
\* that is no i64 or has a fraction's form apart; and arguments that bind meet that
\* schema, unless rounding a number of more than 53 bits brings it within a bound.
\* (validate_and_convert against bind_param, build_native_op and json_schema)
LoadedCallsReach ==
    last # NoCall =>
        LET params == LastIntent.params
        IN /\ Binds(last.args, params) /\ IsExact(last.args) => SchemaAccepts(last.args, params)
           /\ CarefulIntent(LastIntent) /\ SchemaAccepts(last.args, params) /\ TakesInts(last.args, params)
                => last.plan.way # "refused"

=============================================================================
