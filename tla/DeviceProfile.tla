--------------------------- MODULE DeviceProfile ---------------------------
(* orcarein-hardware's device profiles: which TOML documents load           *)
(* (profile/mod.rs), which arguments a loaded intent binds, what a template *)
(* renders to (profile/template.rs) and the JSON schema the language model  *)
(* is shown (profile/schema.rs).                                            *)
(*                                                                          *)
(* A template is a sequence of lexemes: braces, brackets, operators, words. *)
(* An optional field is a sequence of at most one element.  Numbers count   *)
(* halves, so that a bound can lie between two integers.                    *)
EXTENDS Integers, Sequences, SequencesExt, FiniteSets

CONSTANTS
    Idents,      \* words that match [A-Za-z_][A-Za-z0-9_]*
    PlainWords,  \* words that match [A-Za-z0-9_.-]+
    LiteralInt,  \* what a literal argument parses to, by its text
    Numbers,     \* the numbers that documents and calls may hold
    AsF64,       \* the f64 a number is compared as: beyond 2^53 it may be another
    MaxInt       \* i64::MAX

ASSUME WordsAssumption == {"{", "}"} \cap (Idents \cup PlainWords) = {}

\* Rounding keeps the order and what is an f64 already; no byte is rounded to.
ASSUME NumbersAssumption ==
    /\ Numbers \subseteq Int /\ MaxInt \in Nat
    /\ AsF64 \in [Numbers -> Numbers]
    /\ \A n \in Numbers : AsF64[AsF64[n]] = AsF64[n] /\ (AsF64[n] \in 0 .. 510 => AsF64[n] = n)
    /\ \A m, n \in Numbers : m <= n => AsF64[m] <= AsF64[n]

Numeric(p) == p.ty \in {"int", "float"}

MinInt == -MaxInt - 1

\* as_i64 of an integer, and `as i64` of an f64, which cuts and saturates.
IsI64(halves) == 2 * MinInt <= halves /\ halves <= 2 * MaxInt
AsI64(halves) ==
    IF halves < 2 * MinInt THEN MinInt ELSE IF halves > 2 * MaxInt THEN MaxInt
    ELSE IF halves >= 0 THEN halves \div 2 ELSE -((-halves) \div 2)

-----------------------------------------------------------------------------
(* Templates *)

Opens(t) == {i \in DOMAIN t : t[i] = "{"}
IsHole(t, i) == i + 2 <= Len(t) /\ t[i + 1] \in Idents /\ t[i + 2] = "}"

\* The brace grammar: only {ident} and text.
WellFormed(t) ==
    /\ \A i \in Opens(t) : IsHole(t, i)
    /\ \A i \in DOMAIN t : t[i] = "}" => i > 2 /\ i - 2 \in Opens(t)

Placeholders(t) == {t[i + 1] : i \in Opens(t)}

\* The argument is one placeholder and nothing else.
SinglePlaceholder(t) == Len(t) = 3 /\ WellFormed(t) /\ t[1] = "{"

Text(word) == [kind |-> "text", num |-> 0, str |-> word]

\* The text with each placeholder's bound value in its place: its pieces, by
\* the positions of their lexemes.
Render(t, bound) ==
    [i \in {i \in DOMAIN t : t[i] \notin {"{", "}"}} |->
        IF i - 1 \in Opens(t) THEN bound[t[i]] ELSE Text(t[i])]

\* The nesting depth before lexeme i; a placeholder's braces count and cancel.
Depth(t, i) ==
    LET Many(bs) == Cardinality({j \in 1 .. i - 1 : t[j] \in bs})
    IN Many({"(", "[", "{"}) - Many({")", "]", "}"})

\* An "=" outside every bracket that is not part of ==, !=, <= or >=.  The
\* shifts' <<= and >>= end like a comparison and pass for one.
LooksLikeAssignment(t) == \E i \in DOMAIN t : t[i] \in {"=", "+="} /\ Depth(t, i) = 0

-----------------------------------------------------------------------------
(* Profile::from_toml_str *)

AllowedOps == {"i2c_scan", "i2c_write_reg", "i2c_read_reg", "gpio_set", "gpio_read"}

RequiredNativeArgs(op) ==
    CASE op = "i2c_scan" -> {}
      [] op = "i2c_write_reg" -> {"reg", "value"}
      [] op = "i2c_read_reg" -> {"reg"}
      [] op = "gpio_set" -> {"pin", "high"}
      [] op = "gpio_read" -> {"pin"}

Named(s) == {s[i].name : i \in DOMAIN s}
NoDuplicates(s) == \A i, j \in DOMAIN s : s[i].name = s[j].name => i = j

\* Bounds belong to numbers.  A whitelist is refused on numbers only.
ValidParam(p) ==
    /\ Numeric(p) => /\ p.enum = <<>>
                     /\ (p.min # <<>> /\ p.max # <<>>) => p.min[1] <= p.max[1]
    /\ ~Numeric(p) => p.min = <<>> /\ p.max = <<>>
    /\ p.enum # <<>> => p.enum[1] \subseteq PlainWords

\* Every placeholder is declared and every parameter is used.
CoversParams(ts, params) ==
    /\ \A t \in ts : WellFormed(t)
    /\ UNION {Placeholders(t) : t \in ts} = Named(params)

\* Mutant: only unexpected arguments are refused.
ValidNative_MayLack(n, params) ==
    /\ n.op \in AllowedOps
    /\ DOMAIN n.args \subseteq RequiredNativeArgs(n.op)
    /\ CoversParams({n.args[k] : k \in DOMAIN n.args}, params)

ValidNative(n, params) ==
    /\ n.op \in AllowedOps
    /\ DOMAIN n.args = RequiredNativeArgs(n.op)
    /\ CoversParams({n.args[k] : k \in DOMAIN n.args}, params)

\* Mutant: strings need no whitelist.
ValidPython_FreeText(y, params) ==
    /\ y.returns # <<>> => ~LooksLikeAssignment(y.call)
    /\ CoversParams({y.call}, params)

ValidPython(y, params) ==
    /\ y.returns # <<>> => ~LooksLikeAssignment(y.call)
    /\ CoversParams({y.call}, params)
    /\ \A i \in DOMAIN params : params[i].ty = "string" => params[i].enum # <<>>

\* Exactly one backend, the one the backend field names.
ValidIntent(intent) ==
    /\ NoDuplicates(intent.params)
    /\ \A i \in DOMAIN intent.params : ValidParam(intent.params[i])
    /\ Len(intent.native) + Len(intent.python) = 1
    /\ intent.native # <<>> => /\ intent.backend = "native"
                               /\ ValidNative(intent.native[1], intent.params)
    /\ intent.python # <<>> => /\ intent.backend = "python"
                               /\ ValidPython(intent.python[1], intent.params)

Loads(raw) ==
    /\ raw.version = 1
    /\ NoDuplicates(raw.intents)
    /\ \A i \in DOMAIN raw.intents : ValidIntent(raw.intents[i])

-----------------------------------------------------------------------------
(* validate_and_bind *)

Within(p, n) ==
    /\ p.min # <<>> => n >= p.min[1]
    /\ p.max # <<>> => n <= p.max[1]

\* The bounds are f64s, and so is what they are compared with.
InRange(p, n) == Within(p, AsF64[n])

\* An int parameter takes a JSON integer that is an i64, a float parameter any
\* number; the whitelist is consulted for strings.
Fits(p, v) ==
    CASE p.ty = "int" -> v.kind = "int" /\ IsI64(v.num) /\ InRange(p, v.num)
      [] p.ty = "float" -> v.kind \in {"int", "float"} /\ InRange(p, v.num)
      [] p.ty = "string" -> v.kind = "str" /\ (p.enum # <<>> => v.str \in p.enum[1])
      [] p.ty = "bool" -> v.kind = "bool"

\* Every parameter, no other key.  (arguments are a JSON object)
Binds(args, params) ==
    /\ DOMAIN args = Named(params)
    /\ \A i \in DOMAIN params : Fits(params[i], args[params[i].name])

\* An integer bound to a float parameter becomes a float.
BindParam(p, v) == IF p.ty = "float" THEN [v EXCEPT !.kind = "float", !.num = AsF64[v.num]] ELSE v

Bound(args, params) ==
    [name \in Named(params) |->
        BindParam(CHOOSE p \in Range(params) : p.name = name, args[name])]

-----------------------------------------------------------------------------
(* Intent::json_schema *)

\* A schema's integer is any number without a fraction, and an int parameter's
\* bounds are cut to integers (min as i64).
SchemaFits(p, v) ==
    CASE p.ty = "int" ->
            /\ v.kind \in {"int", "float"} /\ v.num % 2 = 0
            /\ p.min # <<>> => v.num >= 2 * AsI64(p.min[1])
            /\ p.max # <<>> => v.num <= 2 * AsI64(p.max[1])
      [] p.ty = "float" -> v.kind \in {"int", "float"} /\ Within(p, v.num)
      [] OTHER -> Fits(p, v)

SchemaAccepts(args, params) ==
    /\ DOMAIN args = Named(params)
    /\ \A i \in DOMAIN params : SchemaFits(params[i], args[params[i].name])

=============================================================================
