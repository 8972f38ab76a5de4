------------------------------- MODULE Prompt -------------------------------
(* What the model is told before it answers: the system prompt of a REPL     *)
(* session, put together from the persona, AGENTS.md, the index of skills    *)
(* and the block of plan mode, and the user's line with its @-mentions       *)
(* expanded (memory.rs, skill.rs, mention.rs and the REPL's use of them).    *)
EXTENDS Integers, Sequences, SequencesExt, FiniteSets

CONSTANTS
  Ancestors,   \* the working directory, its parent, ... to the root
  Memories,    \* what AGENTS.md may be in a directory
  SkillDirs,   \* what .orcarein/skills may hold: entries in the order of paths
  NameOrder,   \* the names skills may have, in their order
  MaxMemory,   \* units of text AGENTS.md may add
  MaxSkills,   \* skills the index may list
  Letters,     \* the characters of an input line, "@", " " and "." among them
  MaxLine,     \* characters in an input line
  Trees,       \* mentioned paths that are directories
  Files,       \* mentioned paths that are readable files
  MaxSteps     \* commands, edits and starts

(* Nothing is not a path. *)
ASSUME MentionAssumption == MaxLine \in Nat /\ <<>> \notin Trees \cup Files

VARIABLES
  agents, skills,         \* the files of each directory
  mode, prompt, tool,     \* of the process: tool holds the skills it discovered
  frozen,                 \* the system prompt of a saved session
  input, at, paths, message,
  born, fresh, steps      \* AGENTS.md when the session began; not a resumed one

pvars == <<agents, skills, mode, prompt, born, fresh, tool, frozen, steps, input, at, paths, message>>

Part(is, of) == [is |-> is, of |-> of]

-----------------------------------------------------------------------------
(* AGENTS.md. *)

(* The nearest regular file ends the walk, also when it cannot be used. *)
Nearest(fs, Is(_)) ==
  LET hits == {k \in DOMAIN Ancestors : Is(fs[Ancestors[k]])}
  IN IF hits = {} THEN 0 ELSE CHOOSE k \in hits : \A j \in hits : k <= j

IsFile(m) == m.is \in {"file", "binary"}
FindAgentsMd == Nearest(agents, IsFile)

LoadProjectMemory ==
  IF FindAgentsMd = 0 THEN <<>>
  ELSE LET m == agents[Ancestors[FindAgentsMd]]
       IN IF m.is = "binary" \/ Range(m.text) \subseteq {" "} THEN <<>>
          ELSE IF Len(m.text) > MaxMemory
          THEN <<Part("memory", Append(SubSeq(m.text, 1, MaxMemory), "truncated"))>>
          ELSE <<Part("memory", m.text)>>

-----------------------------------------------------------------------------
(* Skills. *)

(* The frontmatter lines that matter, and the name each gives. *)
NameOf(line) == CASE line = "name: a" -> "a" [] line = "name: b" -> "b" [] OTHER -> ""
IsName(line) == line \in {"name: a", "name: b", "name:"}

ParseLine(st, line) ==
  CASE st.at = "before" /\ line = "" -> st
    [] st.at = "before" -> [st EXCEPT !.at = IF line = "---" THEN "front" ELSE "not a skill"]
    [] st.at = "front" /\ line = "---" -> [st EXCEPT !.at = "body"]
    [] st.at = "front" /\ IsName(line) -> [st EXCEPT !.name = NameOf(line)]
    [] st.at = "body" -> [st EXCEPT !.body = Append(@, line)]
    [] OTHER -> st

(* The name and the body of a skill file; no name for any other file. One   *)
(* empty line after the closing fence is not part of the body.              *)
ParseSkill(lines) ==
  LET st == FoldLeft(ParseLine, [at |-> "before", name |-> "", body |-> <<>>], lines)
  IN [name |-> IF st.at = "body" THEN st.name ELSE "",
      body |-> IF st.body # <<>> /\ st.body[1] = "" THEN Tail(st.body) ELSE st.body]

IsSkillsDir(d) == d # << [is |-> "absent", lines |-> <<>>] >>

(* First by path wins a name; the names are sorted, and then cut. *)
DiscoverSkills ==
  LET k == Nearest(skills, IsSkillsDir)
      entries == IF k = 0 THEN <<>> ELSE SelectSeq(skills[Ancestors[k]], LAMBDA f : f.is \in {"flat", "nested"})
      parsed == SelectSeq([j \in DOMAIN entries |-> ParseSkill(entries[j].lines)], LAMBDA s : s.name # "")
      names == SelectSeq(NameOrder, LAMBDA n : \E j \in DOMAIN parsed : parsed[j].name = n)
      First(n) == CHOOSE j \in DOMAIN parsed : parsed[j].name = n /\ \A h \in 1..(j - 1) : parsed[h].name # n
  IN [j \in 1..(IF Len(names) < MaxSkills THEN Len(names) ELSE MaxSkills) |-> parsed[First(names[j])]]

SkillsIndex(found) ==
  IF found = <<>> THEN <<>> ELSE <<Part("index", [j \in DOMAIN found |-> found[j].name])>>

-----------------------------------------------------------------------------
(* The system prompt. *)

ModeBlock == <<Part("open", <<>>), Part("plan", <<>>), Part("close", <<>>)>>
FirstOf(p, is) == LET hits == {k \in DOMAIN p : p[k].is = is}
                  IN IF hits = {} THEN 0 ELSE CHOOSE k \in hits : \A j \in hits : k <= j

(* Mutant: the old block stays. *)
ApplyModeBlock_Appends(p, m) == IF m = "plan" THEN p \o ModeBlock ELSE p

ApplyModeBlock(p, m) ==
  LET a == FirstOf(p, "open")
      b == FirstOf(p, "close")
      stripped == IF 0 < a /\ a <= b THEN SubSeq(p, 1, a - 1) \o SubSeq(p, b + 1, Len(p)) ELSE p
  IN IF m = "plan" THEN stripped \o ModeBlock ELSE stripped

FreshPrompt(index) == <<Part("base", <<>>)>> \o LoadProjectMemory \o index

PromptModes == {"default", "plan"}

PInit ==
  /\ agents \in [Range(Ancestors) -> Memories]
  /\ skills \in [Range(Ancestors) -> SkillDirs]
  /\ mode = "default"
  /\ tool = DiscoverSkills
  /\ prompt = ApplyModeBlock(FreshPrompt(SkillsIndex(tool)), mode)
  /\ born = LoadProjectMemory
  /\ fresh = TRUE /\ frozen = <<>> /\ steps = 0
  /\ input \in UNION {[1..n -> Letters] : n \in 0..MaxLine}
  /\ at = 1 /\ paths = <<>> /\ message = <<>>

Step == steps < MaxSteps /\ steps' = steps + 1 /\ UNCHANGED <<input, at, paths, message>>

SwitchMode(m) ==
  /\ Step /\ mode' = m /\ prompt' = ApplyModeBlock(prompt, m)
  /\ UNCHANGED <<agents, skills, born, fresh, tool, frozen>>

ClearSession ==
  /\ Step /\ prompt' = ApplyModeBlock(prompt, mode)
  /\ UNCHANGED <<agents, skills, mode, born, fresh, tool, frozen>>

(* /new saves the session and starts one from the persona as it was given. *)
(* Mutant: it starts from the prompt of the old session. *)
NewSession_OnTop ==
  /\ Step /\ frozen' = prompt /\ fresh' = TRUE
  /\ born' = LoadProjectMemory
  /\ prompt' = ApplyModeBlock(prompt \o LoadProjectMemory \o SkillsIndex(tool), mode)
  /\ UNCHANGED <<agents, skills, mode, tool>>

NewSession ==
  /\ Step /\ frozen' = prompt /\ fresh' = TRUE
  /\ born' = LoadProjectMemory
  /\ prompt' = ApplyModeBlock(FreshPrompt(SkillsIndex(tool)), mode)
  /\ UNCHANGED <<agents, skills, mode, tool>>

(* A resumed session keeps its own prompt but for the block. *)
ResumeSession ==
  /\ Step /\ frozen # <<>>
  /\ prompt' = ApplyModeBlock(frozen, mode)
  /\ fresh' = FALSE
  /\ UNCHANGED <<agents, skills, mode, born, tool, frozen>>

(* The next process discovers the skills again. *)
StartAgain ==
  /\ Step /\ frozen' = prompt /\ fresh' = TRUE
  /\ tool' = DiscoverSkills /\ mode' \in PromptModes
  /\ born' = LoadProjectMemory
  /\ prompt' = ApplyModeBlock(FreshPrompt(SkillsIndex(tool')), mode')
  /\ UNCHANGED <<agents, skills>>

(* /init never writes over the file of the working directory; the agent may *)
(* end without writing one.                                                  *)
InitPrecondition == ~IsFile(agents[Ancestors[1]])
RunInit(m) ==
  /\ Step /\ InitPrecondition /\ m.is = "file"
  /\ agents' = [agents EXCEPT ![Ancestors[1]] = m]
  /\ UNCHANGED <<skills, mode, prompt, born, fresh, tool, frozen>>

EditFiles ==
  /\ Step
  /\ \/ \E d \in Range(Ancestors), m \in Memories : agents' = [agents EXCEPT ![d] = m] /\ skills' = skills
     \/ \E d \in Range(Ancestors), s \in SkillDirs : skills' = [skills EXCEPT ![d] = s] /\ agents' = agents
  /\ UNCHANGED <<mode, prompt, born, fresh, tool, frozen>>

-----------------------------------------------------------------------------
(* Mentions: one action per round of expand_mentions' loop. *)

Boundary(k) == k > 1 => input[k - 1] = " "
RunEnd(k) == CHOOSE j \in (k + 1)..(Len(input) + 1) :
               /\ j > Len(input) \/ input[j] = " "
               /\ \A h \in (k + 1)..(j - 1) : input[h] # " "
Unpunctuated(s) ==
  SubSeq(s, 1, CHOOSE n \in 0..Len(s) : /\ n = 0 \/ s[n] # "."
                                        /\ \A m \in (n + 1)..Len(s) : s[m] = ".")
Mention(k) == Unpunctuated(SubSeq(input, k + 1, RunEnd(k) - 1))

Reading == steps = 0 /\ message = <<>> /\ at <= Len(input)
Kept == UNCHANGED <<agents, skills, mode, prompt, born, fresh, tool, frozen, steps, input, message>>

(* Mutant: a path mentioned twice is read twice. *)
TakeMention_Again ==
  /\ Reading /\ input[at] = "@" /\ Boundary(at)
  /\ paths' = IF Mention(at) # <<>> THEN Append(paths, Mention(at)) ELSE paths
  /\ at' = RunEnd(at) /\ Kept

TakeMention ==
  /\ Reading /\ input[at] = "@" /\ Boundary(at)
  /\ paths' = IF Mention(at) # <<>> /\ Mention(at) \notin Range(paths) THEN Append(paths, Mention(at)) ELSE paths
  /\ at' = RunEnd(at) /\ Kept

PassOver ==
  /\ Reading /\ ~(input[at] = "@" /\ Boundary(at))
  /\ at' = at + 1 /\ UNCHANGED paths /\ Kept

(* What the paths bring, path by path; those that do not resolve stay literal *)
(* text.                                                                       *)
Block(p) == Part(IF p \in Trees THEN "directory" ELSE "file", p)
Blocks(ps) ==
  LET to[n \in Nat] ==
        IF n = 0 THEN <<>>
        ELSE IF ps[n] \in Trees \cup Files THEN Append(to[n - 1], Block(ps[n])) ELSE to[n - 1]
  IN to

Expand ==
  /\ steps = 0 /\ message = <<>> /\ input # <<>> /\ at > Len(input)
  /\ message' = <<Part("text", input)>> \o Blocks(paths)[Len(paths)]
  /\ UNCHANGED <<agents, skills, mode, prompt, born, fresh, tool, frozen, steps, input, at, paths>>

PNext ==
  \/ \E m \in PromptModes : SwitchMode(m)
  \/ ClearSession \/ NewSession \/ ResumeSession \/ StartAgain
  \/ \E m \in Memories : RunInit(m)
  \/ EditFiles \/ TakeMention \/ PassOver \/ Expand

-----------------------------------------------------------------------------
(* Whatever the order of /mode, /clear, /new, /resume, edits and starts, a   *)
(* session that was not resumed has the persona, AGENTS.md as it was when    *)
(* the session began, the skills its tool can load and, in plan mode alone,  *)
(* one block; a resumed one has at most that block. And the user's line goes *)
(* out as typed, followed by each path it mentions and that resolves, once,  *)
(* in the order of first mention.                                            *)
ModelIsTold ==
  /\ fresh => prompt = <<Part("base", <<>>)>> \o born \o SkillsIndex(tool)
                       \o (IF mode = "plan" THEN ModeBlock ELSE <<>>)
  /\ Cardinality({k \in DOMAIN prompt : prompt[k].is = "open"}) = IF mode = "plan" THEN 1 ELSE 0
  /\ message # <<>> =>
       LET said == {k \in DOMAIN input : input[k] = "@" /\ Boundary(k) /\ Mention(k) \in Trees \cup Files}
           firsts == {k \in said : \A j \in said : Mention(j) = Mention(k) => k <= j}
           blocks == SubSeq(message, 2, Len(message))
       IN /\ message[1].of = input
          /\ Len(blocks) = Cardinality(firsts)
          /\ \A k \in firsts : blocks[Cardinality({j \in firsts : j <= k})].of = Mention(k)
=============================================================================
