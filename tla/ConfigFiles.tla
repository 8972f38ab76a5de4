----------------------------- MODULE ConfigFiles -----------------------------
(* config.toml and secrets.toml and the commands that read and write them:   *)
(* `config set`, the REPL's /model and always-allow, `login` and the first   *)
(* run's login, `doctor` (orcarein-core: config.rs, doctor.rs; main.rs).     *)
(* Nothing locks the files: every command loads, changes and saves, a save   *)
(* empties the file before it fills it, and any process may stop anywhere.   *)
EXTENDS Integers, FiniteSets

CONSTANTS
    Procs,      \* processes of the user
    Settings,   \* what `config set` may be given: <<key, value>>
    Modes,      \* the permission modes' names
    Commands,   \* shell commands the user may always allow
    KeyTexts,   \* API keys the user may give
    Starts,     \* configurations the file may begin with
    Machines,   \* environments: [located, cli, env, key]
    Surroundings,  \* what else a command may meet, otherwise at the next: the sessions'
                   \*   directory, secrets.toml's mode being other than 0600, a tool list
                   \*   with no built-in tool, an unreadable --system-prompt-file
    MaxSaves    \* bound: saves begun in one behaviour

Unset == "unset"
Blank == " "
Providers == {"deepseek", "openai"}
Attempts == 3

VARIABLES
    machine,  \* whether a configuration directory exists; --provider,
              \*   ORCAREIN_PROVIDER and the provider's key variable
    config,   \* config.toml: what it is, and what it says
    secrets,  \* secrets.toml, likewise
    proc,     \* process to what it is doing, and what it will save (or, while it
              \*   asks for a key, the provider it asks for)
    saves,    \* saves begun
    want,     \* for the properties: the two files, had the commands run one by one
    calm,     \*   ... no two commands overlapped and none stopped while it saved
    given     \*   ... keys the user gave at a prompt or to login, and nobody refused

fvars == <<machine, config, secrets, proc, saves, want, calm, given>>

NoConfig == [provider |-> Unset, model |-> Unset, mode |-> Unset, rules |-> {}]
NoKeys == [p \in Providers |-> Unset]
File(is, has) == [is |-> is, has |-> has]
Idle == [at |-> "idle", file |-> "none", new |-> NoConfig, tries |-> 0]

\* A file that says nothing is read as the default.
ASSUME StartsAssumption ==
    \A file \in Starts :
        /\ file = File(file.is, file.has)
        /\ file.is \in {"absent", "empty", "toml", "garbage", "closed"}
        /\ file.is \in {"absent", "empty"} => file.has = NoConfig

ASSUME SurroundingsAssumption ==
    Surroundings \subseteq [data : {"none", "unwritable", "writable"}, loose : BOOLEAN, bare : BOOLEAN, unread : BOOLEAN]

-----------------------------------------------------------------------------
(* Reading *)

\* A missing file and an empty one say nothing; anything else must parse.  A
\* file is "closed" when its directory cannot be entered.
Loads(file) == file.is \in {"absent", "empty", "toml"}
Loaded(file, default) == IF file.is = "toml" THEN file.has ELSE default

ConfigLoads == machine.located /\ Loads(config)
SecretsLoad == machine.located /\ Loads(secrets)

NonBlank(s) == s \notin {Unset, Blank}

\* --provider, then ORCAREIN_PROVIDER, then config.toml, then deepseek; a blank
\* falls through.
Chain(c) ==
    IF NonBlank(machine.cli) THEN machine.cli
    ELSE IF NonBlank(machine.env) THEN machine.env
    ELSE IF NonBlank(c.provider) THEN c.provider ELSE "deepseek"

\* Mutant: a set but empty variable is taken as it is.
ResolveProvider_BlankWins(c) ==
    IF NonBlank(machine.cli) THEN machine.cli
    ELSE IF machine.env # Unset THEN machine.env
    ELSE IF NonBlank(c.provider) THEN c.provider ELSE "deepseek"

\* resolve_settings.
ResolveProvider(c) == Chain(c)

\* The environment's key unless it is blank, then the stored one.
EffectiveKey(p) ==
    IF NonBlank(machine.key) THEN machine.key ELSE Loaded(secrets, NoKeys)[p]

\* resolve: what `run` and `issue` need before they send anything.
Resolves(around) ==
    /\ ConfigLoads
    /\ ResolveProvider(Loaded(config, NoConfig)) \in Providers
    /\ ~around.unread
    /\ SecretsLoad
    /\ EffectiveKey(ResolveProvider(Loaded(config, NoConfig))) # Unset

-----------------------------------------------------------------------------
(* doctor *)

\* A file that cannot be reached does not exist, as far as Path::exists says.
Exists(file) == file.is \notin {"absent", "closed"}
FileCheck(file) ==
    IF ~machine.located THEN "WARN"
    ELSE IF Exists(file) /\ ~Loads(file) THEN "FAIL" ELSE "PASS"

\* Resolved like the REPL's, from no configuration when it does not load.
DoctorProvider == Chain(IF ConfigLoads THEN Loaded(config, NoConfig) ELSE NoConfig)
ProviderCheck == IF DoctorProvider \in Providers THEN "PASS" ELSE "FAIL"

\* Only asked of a known provider.
ApiKeyCheck ==
    IF DoctorProvider \notin Providers THEN "PASS"
    ELSE IF NonBlank(machine.key) \/ (SecretsLoad /\ Loaded(secrets, NoKeys)[DoctorProvider] # Unset)
    THEN "PASS" ELSE "WARN"

SecretsCheck(loose) ==
    IF FileCheck(secrets) = "PASS" /\ Exists(secrets) /\ loose THEN "WARN" ELSE FileCheck(secrets)

\* Sessions live in a data directory of the platform's, not beside config.toml.
DataDirCheck(data) == CASE data = "none" -> "WARN" [] data = "unwritable" -> "FAIL" [] OTHER -> "PASS"
ToolsCheck(bare) == IF bare THEN "WARN" ELSE "PASS"

\* run_doctor, but for the build line, which always passes.
Checks(around) ==
    {FileCheck(config), SecretsCheck(around.loose), ProviderCheck, ApiKeyCheck,
     DataDirCheck(around.data), ToolsCheck(around.bare)}
WorstStatus(around) ==
    CASE "FAIL" \in Checks(around) -> "FAIL" [] Checks(around) = {"PASS"} -> "PASS" [] OTHER -> "WARN"

-----------------------------------------------------------------------------
(* Commands that save *)

Busy(p) == proc[p].at # "idle"
Others(p, file) == \E q \in Procs \ {p} : Busy(q) /\ proc[q].file = file

\* The command has loaded the file and made its change.
Begins(p, file, new) ==
    /\ proc' = [proc EXCEPT ![p] = [at |-> "loaded", file |-> file, new |-> new, tries |-> 0]]
    /\ saves' = saves + 1
    /\ calm' = (calm /\ ~Others(p, file))

\* Config::set on what was loaded; an unknown key or mode stops the command.
SetKey(c, key, value) == [c EXCEPT ![key] = value]

\* `config set`, and /model's persist_model_choice.
ConfigSet(p, key, value) ==
    /\ ~Busy(p) /\ saves < MaxSaves
    /\ ConfigLoads
    /\ key = "mode" => value \in Modes
    /\ Begins(p, "config", SetKey(Loaded(config, NoConfig), key, value))
    /\ want' = [want EXCEPT !.config = IF @.is = "garbage" THEN @ ELSE File("toml", SetKey(@.has, key, value))]
    /\ UNCHANGED <<machine, config, secrets, given>>

\* Mutant: a file that does not parse counts as none.
MayPersist_Anyway == machine.located

\* An unreadable file keeps the rule out of it.
MayPersist == ConfigLoads

AddRule(c, command) == [c EXCEPT !.rules = @ \cup {command}]

\* persist_bash_rule, after the user chose "always allow".
PersistBashRule(p, command) ==
    /\ ~Busy(p) /\ saves < MaxSaves /\ MayPersist
    /\ Begins(p, "config", AddRule(Loaded(config, NoConfig), command))
    /\ want' = [want EXCEPT !.config = IF @.is = "garbage" THEN @ ELSE File("toml", AddRule(@.has, command))]
    /\ UNCHANGED <<machine, config, secrets, given>>

-----------------------------------------------------------------------------
(* Keys *)

\* What the provider's /v1/models said: an HTTP status, or 0 when none came.
Answers == {0, 200, 401, 403, 500}

\* Mutant: only 401 rejects.
ClassifyVerify_401Only(answer) == CASE answer = 200 -> "Verified" [] answer = 401 -> "Rejected" [] OTHER -> "Inconclusive"

\* Only the status line counts, not what an error's body says.
ClassifyVerify(answer) == CASE answer = 200 -> "Verified" [] answer \in {401, 403} -> "Rejected" [] OTHER -> "Inconclusive"

\* save_key.
SaveKey(p, provider, key) ==
    /\ SecretsLoad
    /\ Begins(p, "secrets", [Loaded(secrets, NoKeys) EXCEPT ![provider] = key])
    /\ want' = [want EXCEPT !.secrets = IF @.is = "garbage" THEN @ ELSE File("toml", [@.has EXCEPT ![provider] = key])]

\* `login` reads a line, from a terminal or a pipe, and saves it unless it is
\* refused; --no-verify does not ask.
RunLogin(p, provider, key, verify, answer) ==
    /\ ~Busy(p) /\ saves < MaxSaves
    /\ ConfigLoads
    /\ provider = ResolveProvider(Loaded(config, NoConfig)) /\ provider \in Providers
    /\ NonBlank(key)
    /\ verify => ClassifyVerify(answer) # "Rejected"
    /\ SaveKey(p, provider, key)
    /\ given' = IF verify /\ answer \in {401, 403} THEN given ELSE given \cup {<<provider, key>>}
    /\ UNCHANGED <<machine, config, secrets>>

\* Mutant: one terminal is enough.
Interactive_Either(stdin, stdout) == stdin \/ stdout

\* Both ends are a terminal.
Interactive(stdin, stdout) == stdin /\ stdout

FirstRunDecision(key, inter) ==
    IF NonBlank(key) THEN "Proceed" ELSE IF inter THEN "Prompt" ELSE "Bail"

\* The REPL without a key: a prompt, three attempts, the key saved unless it is
\* refused.  An empty line declines.  What comes from a script is no key.  The
\* files are read and the provider is settled before the first attempt.
FirstRunLogin(p, provider, key, stdin, stdout, answer) ==
    /\ \/ /\ ~Busy(p) /\ ConfigLoads /\ SecretsLoad
          /\ provider = ResolveProvider(Loaded(config, NoConfig)) /\ provider \in Providers
          /\ FirstRunDecision(EffectiveKey(provider), Interactive(stdin, stdout)) = "Prompt"
       \/ proc[p].at = "asking" /\ provider = proc[p].new /\ Interactive(stdin, stdout)
    /\ saves < MaxSaves /\ NonBlank(key)
    /\ IF ClassifyVerify(answer) = "Rejected"
       THEN /\ proc[p].tries < Attempts
            /\ proc' = [proc EXCEPT ![p] =
                           IF proc[p].tries + 1 = Attempts THEN Idle
                           ELSE [at |-> "asking", file |-> "none", new |-> provider, tries |-> proc[p].tries + 1]]
            /\ UNCHANGED <<saves, want, calm, given>>
       ELSE /\ SaveKey(p, provider, key)
            /\ given' = IF stdin /\ answer \notin {401, 403} THEN given \cup {<<provider, key>>} ELSE given
    /\ UNCHANGED <<machine, config, secrets>>

-----------------------------------------------------------------------------
(* Saving, stopping, editing *)

\* std::fs::write: the file is created or emptied, then filled.
Truncate(p) ==
    /\ proc[p].at = "loaded"
    /\ proc' = [proc EXCEPT ![p].at = "emptied"]
    /\ IF proc[p].file = "config" THEN config' = File("empty", NoConfig) /\ UNCHANGED secrets
       ELSE secrets' = File("empty", NoKeys) /\ UNCHANGED config
    /\ UNCHANGED <<machine, saves, want, calm, given>>

Fill(p) ==
    /\ proc[p].at = "emptied"
    /\ proc' = [proc EXCEPT ![p] = Idle]
    /\ IF proc[p].file = "config" THEN config' = File("toml", proc[p].new) /\ UNCHANGED secrets
       ELSE secrets' = File("toml", proc[p].new) /\ UNCHANGED config
    /\ UNCHANGED <<machine, saves, want, calm, given>>

\* The process ends, or its write fails.
Stop(p) ==
    /\ Busy(p)
    /\ proc' = [proc EXCEPT ![p] = Idle]
    /\ calm' = (calm /\ proc[p].at = "asking")
    /\ UNCHANGED <<machine, config, secrets, saves, want, given>>

\* A slip in an editor: the file no longer parses, its text is all there.
EditByHand ==
    /\ \A p \in Procs : ~Busy(p)
    /\ config.is = "toml"
    /\ config' = [config EXCEPT !.is = "garbage"] /\ want' = [want EXCEPT !.config = config']
    /\ UNCHANGED <<machine, secrets, proc, saves, calm, given>>

FInit ==
    /\ machine \in Machines
    /\ config \in Starts
    /\ secrets \in {File("absent", NoKeys), File("garbage", NoKeys), File("toml", [NoKeys EXCEPT !["openai"] = Blank])}
    /\ proc = [p \in Procs |-> Idle] /\ saves = 0
    /\ want = [config |-> config, secrets |-> secrets] /\ calm = TRUE /\ given = {}

FNext ==
    \/ \E p \in Procs :
          \/ \E s \in Settings : ConfigSet(p, s[1], s[2])
          \/ \E command \in Commands : PersistBashRule(p, command)
          \/ \E provider \in Providers, key \in KeyTexts, verify \in BOOLEAN, answer \in Answers :
                RunLogin(p, provider, key, verify, answer)
          \/ \E provider \in Providers, key \in KeyTexts, stdin, stdout \in BOOLEAN, answer \in Answers :
                FirstRunLogin(p, provider, key, stdin, stdout, answer)
          \/ Truncate(p) \/ Fill(p) \/ Stop(p)
    \/ EditByHand

-----------------------------------------------------------------------------
(* Properties *)

\* As long as commands do not overlap and none is stopped in mid-save, a file
\* says what the commands one after the other make of it: each changes what it
\* names and nothing else, and a file that does not parse is left as it is.
\* (persist_bash_rule: "persistence is skipped entirely rather than overwriting
\* it"; Config::save_to, SecretStore::save_to)
NothingElseLost ==
    (calm /\ \A p \in Procs : ~Busy(p)) =>
        /\ config.is = want.config.is /\ config.has = want.config.has
        /\ secrets.is = want.secrets.is /\ secrets.has = want.secrets.has

\* A key in secrets.toml was there from the start or was given to login or typed
\* at a terminal, and was not one the provider had refused: no line of a script
\* the REPL was fed becomes a key.  (interactive: "&&, emphatically not ||")
StoredKeysWereGiven ==
    \A p \in Providers : secrets.has[p] \in {Unset, Blank} \/ <<p, secrets.has[p]>> \in given

\* With a configuration directory whose files can be opened, a doctor without a
\* complaint means that a headless run resolves what it needs, unless the prompt
\* file it is given cannot be read, which doctor does not look at; a missing key
\* and any failure but that of the sessions' directory, which run never opens,
\* mean that it does not: the two read the same settings in different code.
\* (run_doctor: "resolved the same way the REPL resolves them")
DoctorAgrees ==
    (machine.located /\ config.is # "closed") =>
        \A around \in Surroundings :
            /\ WorstStatus(around) = "PASS" => (Resolves(around) <=> ~around.unread)
            /\ WorstStatus(around) = "FAIL" => (~Resolves(around) \/ DataDirCheck(around.data) = "FAIL")
            /\ ApiKeyCheck = "WARN" => ~Resolves(around)

=============================================================================
