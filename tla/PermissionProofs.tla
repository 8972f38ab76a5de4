-------------------------- MODULE PermissionProofs --------------------------
(***************************************************************************)
(* Proofs about the permission ladder and the gate built on it, and about  *)
(* the glob matcher its rules use: for any pattern and any text the        *)
(* matcher's indices stay inside the two strings, and what it answers is   *)
(* what the documentation calls a match.                                   *)
(***************************************************************************)
EXTENDS PermissionGate, GlobMatch, BasicLemmas

-----------------------------------------------------------------------------
(* The ladder *)

\* Evaluate answers with one of the three actions.
LEMMA LadderRange ==
  ASSUME NEW m, NEW rules, NEW req
  PROVE  Evaluate(m, rules, req) \in Actions
BY DEF Evaluate, EvaluateWithOrigin, Verdict, Lifted, Actions

\* A rule in a set is one in any larger set.
LEMMA SaysUnion ==
  ASSUME NEW rules, NEW more, NEW action, NEW req
  PROVE  Says(rules \cup more, action, req) <=> Says(rules, action, req) \/ Says(more, action, req)
BY DEF Says

\* A matching deny rule denies in every mode (rules.rs, step 1).
LEMMA DenyWins ==
  ASSUME NEW m, NEW rules, NEW req, Says(rules, "deny", req)
  PROVE  Evaluate(m, rules, req) = "deny"
<1>1. Says(rules \cup DefaultRules, "deny", req)
  BY SaysUnion
<1>2. EvaluateWithOrigin(m, rules, req).action = "deny"
  BY <1>1 DEF EvaluateWithOrigin, Verdict
<1> QED
  BY <1>2 DEF Evaluate, Lifted

\* A tool the mode hides is denied whatever the rules say (rules.rs, step 0).
LEMMA CeilingHolds ==
  ASSUME NEW m, NEW rules, NEW req, ~AllowsTool(m, req.tool)
  PROVE  Evaluate(m, rules, req) = "deny"
<1>1. EvaluateWithOrigin(m, rules, req).action = "deny"
  BY DEF EvaluateWithOrigin, Verdict
<1> QED
  BY <1>1 DEF Evaluate, Lifted

\* Outside yolo, the ladder allows a request for a user's allow rule, or, when
\* no rule and no sensitive path asks, for the tool's risk and the mode.
LEMMA LadderAllows ==
  ASSUME NEW m, NEW rules, NEW req, m # "yolo", Evaluate(m, rules, req) = "allow"
  PROVE  \/ Says(rules, "allow", req)
         \/ /\ ~Says(rules \cup DefaultRules, "ask", req)
            /\ \/ req.tool \notin RiskyTools
               \/ m = "plan"
               \/ m = "acceptEdits" /\ req.tool \in {"edit", "write_file"}
<1> DEFINE v == EvaluateWithOrigin(m, rules, req)
<1>1. SUFFICES ASSUME ~Says(rules, "allow", req)
               PROVE  /\ ~Says(rules \cup DefaultRules, "ask", req)
                      /\ \/ req.tool \notin RiskyTools
                         \/ m = "plan"
                         \/ m = "acceptEdits" /\ req.tool \in {"edit", "write_file"}
  OBVIOUS
<1>2. v.action # "deny"
  BY DEF Evaluate, Lifted
<1>3. AllowsTool(m, req.tool) /\ ~Says(rules \cup DefaultRules, "deny", req)
  BY <1>2 DEF EvaluateWithOrigin, Verdict
<1>4. v.origin # "BaseRisk" => v.action = "ask"
  BY <1>1, <1>3 DEF EvaluateWithOrigin, Verdict
<1>5. v.origin = "BaseRisk"
  BY <1>4 DEF Evaluate, Lifted
<1>6. ~Says(rules, "ask", req) /\ ~Says(DefaultRules, "ask", req)
  BY <1>1, <1>3, <1>5 DEF EvaluateWithOrigin, Verdict
<1>7. ~Says(rules \cup DefaultRules, "ask", req)
  BY <1>6, SaysUnion
<1>8. v.action = IF req.tool \in RiskyTools /\ m # "plan" THEN "ask" ELSE "allow"
  BY <1>1, <1>3, <1>6 DEF EvaluateWithOrigin, Verdict
<1> QED
  BY <1>7, <1>8 DEF Evaluate, Lifted

-----------------------------------------------------------------------------
(* The inductive invariant *)

\* A running turn, and the child in it, work under the REPL's mode.
ModesAgree ==
  /\ turn => turnMode = mode
  /\ child => turn /\ childMode = mode

\* What a policy remembers is what its user answered, for the same scope.
Remembers(store, by, told) ==
  /\ \A a \in told : a.by = by => store[ScopeKey(a.call)] # "none"
  /\ \A s \in Scopes : store[s] # "none" =>
       \E a \in told : a.by = by /\ ScopeKey(a.call) = s /\ a.decision = store[s]

MemoryMatches ==
  Remembers(sticky, "parent", answers) /\ Remembers(childSticky, "child", answers)

\* What a child's user answered is forgotten with the child.
ChildForgets == ~child => \A a \in answers : a.by # "child"

LastExplained == DenyRuleFinal /\ PlanReadOnly /\ Accountable

GateInv == TypeOK /\ ModesAgree /\ MemoryMatches /\ LastExplained

-----------------------------------------------------------------------------
(* Scopes *)

LEMMA ScopeKeyType ==
  ASSUME NEW call \in Call
  PROVE  ScopeKey(call) \in Scopes
BY DEF ScopeKey, Scopes, Call, TextsOf, FileTools

\* Two calls share a scope exactly when the user sees them as the same.
LEMMA SameKeySameScope ==
  ASSUME NEW c, NEW d
  PROVE  ScopeKey(c) = ScopeKey(d) <=> SameScope(c, d)
BY DEF ScopeKey, SameScope

LEMMA ExtractTool ==
  ASSUME NEW call
  PROVE  Extract(call).tool = call.tool
BY DEF Extract

LEMMA RememberType ==
  ASSUME NEW store \in Stores, NEW call \in Call, NEW answer \in Decisions
  PROVE  Remember(store, call, answer) \in Stores
BY ScopeKeyType DEF Remember, Stores, StickyDecisions

\* Persisting keeps config.toml a set of rules.
LEMMA PersistedType ==
  ASSUME TypeOK, NEW call \in Call, NEW answer \in Decisions,
         NEW c \in Persisted(call, answer)
  PROVE  c \in [rules : SUBSET Rule, ok : BOOLEAN]
<1>1. CASE c = config
  BY <1>1 DEF TypeOK
<1>2. CASE /\ call.tool = "bash" /\ call.text # NoText
           /\ c = [config EXCEPT !.rules = @ \cup {BashAllow(call.text)}]
  <2>1. call.text \in Commands /\ call.tool \in Tools
    BY <1>2 DEF Call, TextsOf, FileTools
  <2>2. BashAllow(call.text) \in Rule
    BY <2>1, <1>2 DEF BashAllow, Rule, AnyPattern, Actions
  <2> QED
    BY <1>2, <2>2 DEF TypeOK
<1> QED
  BY <1>1, <1>2 DEF Persisted

-----------------------------------------------------------------------------
(* One call through the gate *)

\* The call's record and the answers stay well typed.
LEMMA DecideType ==
  ASSUME TypeOK, NEW by \in {"parent", "child"}, NEW m \in Modes, NEW store \in Stores,
         NEW call \in Call, NEW answer \in Decisions,
         Decide(by, m, store, call, answer)
  PROVE  /\ last' \in Events
         /\ answers' \subseteq [by : {"parent", "child"}, call : Call, decision : StickyDecisions]
<1>1. Runs(m, store, call, answer) \in BOOLEAN
  BY DEF Runs, Consulted
<1>2. Prompts(m, store, call) \in BOOLEAN
  BY DEF Prompts, Consulted
<1>3. last' \in Events
  BY <1>1, <1>2 DEF Decide, Events
<1> QED
  BY <1>3 DEF Decide, TypeOK

\* The store of the asker still matches its answers after the call.
LEMMA DecideRemembers ==
  ASSUME TypeOK, NEW by \in {"parent", "child"}, NEW m \in Modes, NEW store \in Stores,
         NEW call \in Call, NEW answer \in Decisions,
         Remembers(store, by, answers), Decide(by, m, store, call, answer),
         NEW after,
         after = IF Prompts(m, store, call) THEN Remember(store, call, answer) ELSE store
  PROVE  Remembers(after, by, answers')
<1> DEFINE k == ScopeKey(call)
           new == [by |-> by, call |-> call, decision |-> answer]
<1>0. k \in Scopes
  BY ScopeKeyType
<1>1. CASE Prompts(m, store, call) /\ answer \in StickyDecisions
  <2>1. after = [store EXCEPT ![k] = answer] /\ answers' = answers \cup {new}
    BY <1>1 DEF Decide, Remember
  <2>2. answer # "none"
    BY DEF Decisions
  <2>3. store[k] = "none"
    BY <1>1 DEF Prompts
  <2>4. ASSUME NEW s \in Scopes PROVE after[s] = IF s = k THEN answer ELSE store[s]
    BY <2>1 DEF Stores
  <2>5. ASSUME NEW a \in answers', a.by = by PROVE after[ScopeKey(a.call)] # "none"
    <3>1. a.call \in Call
      BY <2>1 DEF TypeOK
    <3>2. ScopeKey(a.call) \in Scopes
      BY <3>1, ScopeKeyType
    <3>3. CASE a = new
      BY <3>3, <1>0, <2>2, <2>4
    <3>4. CASE a \in answers
      BY <3>4, <3>2, <2>2, <2>4, <2>5 DEF Remembers
    <3>5. a = new \/ a \in answers
      BY <2>1, <2>5
    <3> QED
      BY <3>3, <3>4, <3>5
  <2>6. ASSUME NEW s \in Scopes, after[s] # "none"
        PROVE  \E a \in answers' : a.by = by /\ ScopeKey(a.call) = s /\ a.decision = after[s]
    <3>1. CASE s = k
      <4>1. new \in answers' /\ new.by = by /\ new.call = call /\ new.decision = answer
        BY <2>1
      <4>2. after[s] = answer
        BY <3>1, <1>0, <2>4
      <4>3. ScopeKey(new.call) = s
        BY <3>1, <4>1
      <4> QED
        BY <4>1, <4>2, <4>3
    <3>2. CASE s # k
      BY <3>2, <2>1, <2>4, <2>6 DEF Remembers
    <3> QED
      BY <3>1, <3>2
  <2> QED
    BY <2>5, <2>6 DEF Remembers, ScopeKey
<1>2. CASE ~(Prompts(m, store, call) /\ answer \in StickyDecisions)
  <2>1. after = store /\ answers' = answers
    BY <1>2 DEF Decide, Remember
  <2> QED
    BY <2>1 DEF Remembers, ScopeKey
<1> QED
  BY <1>1, <1>2

\* Another asker's answers are not touched.
LEMMA DecideOthers ==
  ASSUME NEW by, NEW other, other # by, NEW m, NEW store, NEW call, NEW answer,
         NEW mine, Remembers(mine, other, answers), Decide(by, m, store, call, answer)
  PROVE  Remembers(mine, other, answers')
<1>1. \A a : a.by = other => (a \in answers' <=> a \in answers)
  BY DEF Decide
<1> QED
  BY <1>1 DEF Remembers, ScopeKey

\* Whatever the gate lets through under the REPL's mode is explained.
LEMMA DecideExplained ==
  ASSUME TypeOK, NEW by \in {"parent", "child"}, NEW store \in Stores,
         NEW call \in Call, NEW answer \in Decisions,
         Remembers(store, by, answers), Decide(by, mode, store, call, answer),
         UNCHANGED <<mode, baseRules>>
  PROVE  LastExplained'
<1> DEFINE req == Extract(call)
           act == Evaluate(mode, baseRules, req)
<1>1. last' = [by |-> by, call |-> call, ran |-> Runs(mode, store, call, answer),
               prompted |-> Prompts(mode, store, call)]
  BY DEF Decide
<1>2. last'.by = by /\ last'.call = call /\ last'.ran = Runs(mode, store, call, answer)
      /\ last'.prompted = Prompts(mode, store, call)
  BY <1>1
<1>3. act \in Actions
  BY LadderRange
<1>4. Runs(mode, store, call, answer) => act # "deny"
  BY DEF Runs, Consulted
<1>5. DenyRuleFinal'
  BY <1>2, <1>4, DenyWins DEF DenyRuleFinal, Ran, LastRequest
<1>6. PlanReadOnly'
  <2>1. SUFFICES ASSUME Runs(mode, store, call, answer), mode = "plan"
                 PROVE  call.tool \in PlanTools
    BY <1>2 DEF PlanReadOnly, Ran
  <2>2. AllowsTool(mode, req.tool)
    BY <2>1, <1>4, CeilingHolds
  <2> QED
    BY <2>1, <2>2, ExtractTool DEF AllowsTool
<1>7. Accountable'
  <2>1. SUFFICES ASSUME Runs(mode, store, call, answer), ~Prompts(mode, store, call),
                        mode # "yolo"
                 PROVE  (Says(baseRules, "allow", LastRequest) \/ Granted \/ ModeLets)'
    BY <1>2 DEF Accountable, Ran
  <2>2. LastRequest' = req
    BY <1>2 DEF LastRequest
  <2>3. CASE act = "allow"
    <3>1. \/ Says(baseRules, "allow", req)
          \/ /\ ~Says(baseRules \cup DefaultRules, "ask", req)
             /\ \/ call.tool \notin RiskyTools
                \/ mode = "plan"
                \/ mode = "acceptEdits" /\ call.tool \in {"edit", "write_file"}
      BY <2>1, <2>3, LadderAllows, ExtractTool
    <3> QED
      BY <3>1, <2>2, <1>2 DEF ModeLets
  <2>4. CASE act = "ask"
    <3>1. store[ScopeKey(call)] \in Allowing
      BY <2>1, <2>4 DEF Runs, Prompts, Consulted, Decision
    <3>2. ScopeKey(call) \in Scopes
      BY ScopeKeyType
    <3>3. PICK a \in answers : /\ a.by = by /\ ScopeKey(a.call) = ScopeKey(call)
                              /\ a.decision = store[ScopeKey(call)]
      BY <3>1, <3>2 DEF Remembers, Allowing
    <3>4. a.decision \in StickyDecisions
      BY <3>3 DEF TypeOK
    <3>5. a.decision = "AllowAlways"
      BY <3>1, <3>3, <3>4 DEF StickyDecisions, Allowing
    <3>6. SameScope(a.call, call)
      BY <3>3, SameKeySameScope
    <3>7. a \in answers'
      BY DEF Decide
    <3>8. SameScope(a.call, last.call)'
      BY <3>6, <1>2 DEF SameScope
    <3> QED
      BY <3>3, <3>5, <3>7, <3>6, <1>2 DEF Granted, SameScope
  <2> QED
    BY <2>1, <2>3, <2>4, <1>3, <1>4 DEF Actions
<1> QED
  BY <1>5, <1>6, <1>7 DEF LastExplained

\* A step after which no call has run yet explains everything.
LEMMA QuietExplained ==
  ASSUME last' = Quiet
  PROVE  LastExplained'
BY DEF LastExplained, DenyRuleFinal, PlanReadOnly, Accountable, Ran

\* The store of an asker and its answers are left alone.
LEMMA MemoryKept ==
  ASSUME MemoryMatches, UNCHANGED <<sticky, childSticky, answers>>
  PROVE  MemoryMatches'
BY DEF MemoryMatches, Remembers, ScopeKey

LEMMA EmptyStoreType == EmptyStore \in Stores
BY DEF EmptyStore, Stores

-----------------------------------------------------------------------------
(* The invariant holds initially and is kept by every step *)

LEMMA InitGateInv == Init => GateInv
<1> SUFFICES ASSUME Init PROVE GateInv
  OBVIOUS
<1> USE DEF Init
<1>1. TypeOK
  BY EmptyStoreType, GateAssumption DEF TypeOK
<1>2. ModesAgree
  BY DEF ModesAgree
<1>3. MemoryMatches
  BY DEF MemoryMatches, Remembers, EmptyStore
<1>4. LastExplained
  BY DEF LastExplained, DenyRuleFinal, PlanReadOnly, Accountable, Ran
<1> QED
  BY <1>1, <1>2, <1>3, <1>4 DEF GateInv

\* A call of the parent, its prompt and its answer keep the invariant.
LEMMA ParentCallInv ==
  ASSUME GateInv, NEW call \in Call, NEW answer \in Decisions, ParentCall(call, answer)
  PROVE  GateInv'
<1> DEFINE asks == Prompts(turnMode, sticky, call)
<1>1. TypeOK /\ ModesAgree /\ MemoryMatches
  BY DEF GateInv
<1>2. turnMode = mode /\ mode \in Modes /\ sticky \in Stores
  BY <1>1 DEF ParentCall, ModesAgree, TypeOK
<1>3. Decide("parent", mode, sticky, call, answer)
  BY <1>2 DEF ParentCall
<1>4. sticky' = IF Prompts(mode, sticky, call) THEN Remember(sticky, call, answer) ELSE sticky
  BY <1>2 DEF ParentCall
<1>5. sticky' \in Stores
  BY <1>2, <1>4, RememberType
<1>6. config' \in [rules : SUBSET Rule, ok : BOOLEAN]
  <2>1. CASE asks
    <3>1. config' \in Persisted(call, answer)
      BY <2>1 DEF ParentCall
    <3> QED
      BY <3>1, <1>1, PersistedType
  <2>2. CASE ~asks
    BY <2>2, <1>1 DEF ParentCall, TypeOK
  <2> QED
    BY <2>1, <2>2
<1>7. TypeOK'
  <2>1. /\ last' \in Events
        /\ answers' \subseteq [by : {"parent", "child"}, call : Call, decision : StickyDecisions]
    BY <1>1, <1>2, <1>3, DecideType
  <2> QED
    BY <2>1, <1>1, <1>5, <1>6 DEF ParentCall, TypeOK, turnVars, childVars
<1>8. ModesAgree'
  BY <1>1 DEF ParentCall, ModesAgree, turnVars, childVars
<1>9. MemoryMatches'
  <2>1. Remembers(sticky, "parent", answers) /\ Remembers(childSticky, "child", answers)
    BY <1>1 DEF MemoryMatches
  <2>2. Remembers(sticky', "parent", answers')
    BY <2>1, <1>1, <1>2, <1>3, <1>4, DecideRemembers
  <2>3. Remembers(childSticky', "child", answers')
    BY <2>1, <1>3, DecideOthers DEF ParentCall, childVars
  <2> QED
    BY <2>2, <2>3 DEF MemoryMatches
<1>10. LastExplained'
  <2>1. Remembers(sticky, "parent", answers) /\ UNCHANGED <<mode, baseRules>>
    BY <1>1 DEF MemoryMatches, ParentCall
  <2> QED
    BY <2>1, <1>1, <1>2, <1>3, DecideExplained
<1> QED
  BY <1>7, <1>8, <1>9, <1>10 DEF GateInv

\* Starting a child keeps it: the child's policy starts empty, and was told
\* nothing, whether or not another child ran before it.
LEMMA DelegateInv ==
  ASSUME GateInv, ChildForgets, NEW call \in Call, NEW answer \in Decisions,
         Delegate(call, answer)
  PROVE  GateInv'
<1>1. TypeOK /\ ModesAgree /\ MemoryMatches
  BY DEF GateInv
<1>2. turnMode = mode /\ mode \in Modes /\ sticky \in Stores
  BY <1>1 DEF Delegate, ModesAgree, TypeOK
<1>3. Decide("parent", mode, sticky, call, answer)
  BY <1>2 DEF Delegate
<1>4. sticky' = IF Prompts(mode, sticky, call) THEN Remember(sticky, call, answer) ELSE sticky
  BY <1>2 DEF Delegate
<1>5. sticky' \in Stores
  BY <1>2, <1>4, RememberType
<1>6. last'.ran \in BOOLEAN
  BY <1>3 DEF Decide, Runs, Consulted
<1>7. TypeOK'
  <2>1. /\ last' \in Events
        /\ answers' \subseteq [by : {"parent", "child"}, call : Call, decision : StickyDecisions]
    BY <1>1, <1>2, <1>3, DecideType
  <2> QED
    BY <2>1, <1>1, <1>2, <1>5, <1>6, EmptyStoreType DEF Delegate, TypeOK, turnVars
<1>8. ModesAgree'
  BY <1>1 DEF Delegate, ModesAgree, turnVars
<1>9. MemoryMatches'
  <2>1. Remembers(sticky, "parent", answers)
    BY <1>1 DEF MemoryMatches
  <2>2. Remembers(sticky', "parent", answers')
    BY <2>1, <1>1, <1>2, <1>3, <1>4, DecideRemembers
  <2>3. \A a \in answers' : a.by # "child"
    BY <1>3 DEF Decide, Delegate, ChildForgets
  <2>4. Remembers(childSticky', "child", answers')
    BY <2>3 DEF Delegate, Remembers, EmptyStore
  <2> QED
    BY <2>2, <2>4 DEF MemoryMatches
<1>10. LastExplained'
  <2>1. Remembers(sticky, "parent", answers) /\ UNCHANGED <<mode, baseRules>>
    BY <1>1 DEF MemoryMatches, Delegate
  <2> QED
    BY <2>1, <1>1, <1>2, <1>3, DecideExplained
<1> QED
  BY <1>7, <1>8, <1>9, <1>10 DEF GateInv

\* A call of the child keeps it, and touches nothing of the parent's.
LEMMA ChildCallInv ==
  ASSUME GateInv, NEW call \in Call, NEW answer \in Decisions, ChildCall(call, answer)
  PROVE  GateInv'
<1>1. TypeOK /\ ModesAgree /\ MemoryMatches
  BY DEF GateInv
<1>2. childMode = mode /\ mode \in Modes /\ childSticky \in Stores
  BY <1>1 DEF ChildCall, ModesAgree, TypeOK
<1>3. Decide("child", mode, childSticky, call, answer)
  BY <1>2 DEF ChildCall
<1>4. childSticky' = IF Prompts(mode, childSticky, call)
                       THEN Remember(childSticky, call, answer) ELSE childSticky
  BY <1>2 DEF ChildCall
<1>5. childSticky' \in Stores
  BY <1>2, <1>4, RememberType
<1>6. TypeOK'
  <2>1. /\ last' \in Events
        /\ answers' \subseteq [by : {"parent", "child"}, call : Call, decision : StickyDecisions]
    BY <1>1, <1>2, <1>3, DecideType
  <2> QED
    BY <2>1, <1>1, <1>5 DEF ChildCall, TypeOK, turnVars
<1>7. ModesAgree'
  BY <1>1 DEF ChildCall, ModesAgree, turnVars
<1>8. MemoryMatches'
  <2>1. Remembers(sticky, "parent", answers) /\ Remembers(childSticky, "child", answers)
    BY <1>1 DEF MemoryMatches
  <2>2. Remembers(childSticky', "child", answers')
    BY <2>1, <1>1, <1>2, <1>3, <1>4, DecideRemembers
  <2>3. Remembers(sticky', "parent", answers')
    BY <2>1, <1>3, DecideOthers DEF ChildCall
  <2> QED
    BY <2>2, <2>3 DEF MemoryMatches
<1>9. LastExplained'
  <2>1. Remembers(childSticky, "child", answers) /\ UNCHANGED <<mode, baseRules>>
    BY <1>1 DEF MemoryMatches, ChildCall
  <2> QED
    BY <2>1, <1>1, <1>2, <1>3, DecideExplained
<1> QED
  BY <1>6, <1>7, <1>8, <1>9 DEF GateInv

\* The steps that run no tool.
LEMMA QuietStepInv ==
  ASSUME GateInv,
         \/ \E m \in Modes : SwitchMode(m) \/ Restart(m)
         \/ StartTurn \/ ChildReturns \/ TurnReturns
  PROVE  GateInv'
<1>1. TypeOK /\ ModesAgree /\ MemoryMatches
  BY DEF GateInv
<1>2. last' = Quiet
  BY DEF SwitchMode, Restart, StartTurn, ChildReturns, TurnReturns
<1>3. TypeOK'
  <2>1. ASSUME NEW m \in Modes, SwitchMode(m) PROVE TypeOK'
    BY <2>1, <1>1, <1>2 DEF SwitchMode, TypeOK, turnVars, childVars
  <2>2. ASSUME NEW m \in Modes, Restart(m) PROVE TypeOK'
    BY <2>2, <1>1, <1>2, EmptyStoreType DEF Restart, TypeOK
  <2>3. CASE StartTurn
    BY <2>3, <1>1, <1>2 DEF StartTurn, TypeOK, childVars
  <2>4. CASE ChildReturns
    BY <2>4, <1>1, <1>2, EmptyStoreType DEF ChildReturns, TypeOK, turnVars
  <2>5. CASE TurnReturns
    BY <2>5, <1>1, <1>2 DEF TurnReturns, TypeOK, childVars
  <2> QED
    BY <2>1, <2>2, <2>3, <2>4, <2>5
<1>4. ModesAgree'
  BY <1>1 DEF ModesAgree, SwitchMode, Restart, StartTurn, ChildReturns, TurnReturns,
              turnVars, childVars
<1>5. MemoryMatches'
  <2>1. ASSUME NEW m \in Modes, SwitchMode(m) PROVE MemoryMatches'
    BY <2>1, <1>1, MemoryKept DEF SwitchMode, childVars
  <2>2. ASSUME NEW m \in Modes, Restart(m) PROVE MemoryMatches'
    BY <2>2 DEF Restart, MemoryMatches, Remembers, EmptyStore
  <2>3. CASE StartTurn
    BY <2>3, <1>1, MemoryKept DEF StartTurn, childVars
  <2>4. CASE ChildReturns
    BY <2>4, <1>1 DEF ChildReturns, MemoryMatches, Remembers, EmptyStore
  <2>5. CASE TurnReturns
    BY <2>5, <1>1, MemoryKept DEF TurnReturns, childVars
  <2> QED
    BY <2>1, <2>2, <2>3, <2>4, <2>5
<1>6. LastExplained'
  BY <1>2, QuietExplained
<1> QED
  BY <1>3, <1>4, <1>5, <1>6 DEF GateInv

LEMMA EditConfigInv ==
  ASSUME GateInv, EditConfig
  PROVE  GateInv'
<1>1. TypeOK'
  BY DEF GateInv, TypeOK, EditConfig, turnVars, childVars
<1>2. ModesAgree'
  BY DEF GateInv, ModesAgree, EditConfig, turnVars, childVars
<1>3. MemoryMatches'
  BY MemoryKept DEF GateInv, EditConfig, childVars
<1>4. LastExplained'
  BY DEF GateInv, LastExplained, DenyRuleFinal, PlanReadOnly, Accountable, Ran, LastRequest,
         Granted, ModeLets, EditConfig, Extract, SameScope
<1> QED
  BY <1>1, <1>2, <1>3, <1>4 DEF GateInv

-----------------------------------------------------------------------------
(* Theorems *)

LEMMA StepGateInv == GateInv /\ ChildForgets /\ [Next]_vars => (GateInv /\ ChildForgets)'
<1> SUFFICES ASSUME GateInv, ChildForgets, [Next]_vars PROVE (GateInv /\ ChildForgets)'
  OBVIOUS
<1>1. ASSUME NEW call \in Call, NEW answer \in Decisions, ParentCall(call, answer)
      PROVE  (GateInv /\ ChildForgets)'
  <2>1. ChildForgets'
    BY <1>1 DEF ParentCall, ChildForgets, Decide, childVars
  <2> QED
    BY <2>1, <1>1, ParentCallInv
<1>2. ASSUME NEW call \in Call, NEW answer \in Decisions, Delegate(call, answer)
      PROVE  (GateInv /\ ChildForgets)'
  <2>1. ChildForgets'
    BY <1>2 DEF Delegate, ChildForgets, Decide
  <2> QED
    BY <2>1, <1>2, DelegateInv
<1>3. ASSUME NEW call \in Call, NEW answer \in Decisions, ChildCall(call, answer)
      PROVE  (GateInv /\ ChildForgets)'
  <2>1. ChildForgets'
    BY <1>3 DEF ChildCall, ChildForgets
  <2> QED
    BY <2>1, <1>3, ChildCallInv
<1>4. CASE \/ \E m \in Modes : SwitchMode(m) \/ Restart(m)
           \/ StartTurn \/ ChildReturns \/ TurnReturns
  <2>1. ChildForgets'
    BY <1>4 DEF ChildForgets, SwitchMode, Restart, StartTurn, ChildReturns, TurnReturns,
                childVars, GateInv, ModesAgree, TypeOK
  <2> QED
    BY <2>1, <1>4, QuietStepInv
<1>5. CASE EditConfig
  BY <1>5, EditConfigInv DEF EditConfig, ChildForgets, childVars
<1>6. CASE UNCHANGED vars
  <2> USE <1>6 DEF vars, turnVars, childVars
  <2>1. TypeOK'
    BY DEF GateInv, TypeOK
  <2>2. ModesAgree'
    BY DEF GateInv, ModesAgree
  <2>3. MemoryMatches'
    BY MemoryKept DEF GateInv
  <2>4. LastExplained'
    BY DEF GateInv, LastExplained, DenyRuleFinal, PlanReadOnly, Accountable, Ran, LastRequest,
           Granted, ModeLets, Extract, SameScope
  <2> QED
    BY <2>1, <2>2, <2>3, <2>4 DEF GateInv, ChildForgets
<1> QED
  BY <1>1, <1>2, <1>3, <1>4, <1>5, <1>6 DEF Next

LEMMA GateInvariant == Spec => [](GateInv /\ ChildForgets)
<1>1. Init => GateInv /\ ChildForgets
  BY InitGateInv DEF Init, ChildForgets
<1> QED
  BY <1>1, StepGateInv, PTL DEF Spec

\* Only sticky answers are cached, and every history is well typed
\* (PermissionStore::remember).
THEOREM GateTypeCorrect == Spec => []TypeOK
<1>1. GateInv => TypeOK
  BY DEF GateInv
<1> QED
  BY <1>1, GateInvariant, PTL

\* A deny rule stands in every mode, for the parent and its children
\* (rules.rs, step 1 of the ladder).
THEOREM DenyRulesAreFinal == Spec => []DenyRuleFinal
<1>1. GateInv => DenyRuleFinal
  BY DEF GateInv, LastExplained
<1> QED
  BY <1>1, GateInvariant, PTL

\* Nothing outside the read-only list runs while the REPL is in plan mode
\* (rules.rs, step 0; the agent is rebuilt every turn).
THEOREM PlanIsReadOnly == Spec => []PlanReadOnly
<1>1. GateInv => PlanReadOnly
  BY DEF GateInv, LastExplained
<1> QED
  BY <1>1, GateInvariant, PTL

\* Outside yolo every unprompted run has a ground (Ruleset::evaluate with
\* InteractivePolicy::decide).
THEOREM EveryRunAccounted == Spec => []Accountable
<1>1. GateInv => Accountable
  BY DEF GateInv, LastExplained
<1> QED
  BY <1>1, GateInvariant, PTL

\* Nobody asks twice about a scope already answered for good: the policy, unlike
\* the agent, is not rebuilt every turn (main.rs, the REPL loop).
THEOREM NobodyAsksTwice == Spec => NeverReasked
<1>1. GateInv /\ [Next]_vars =>
        [last' # Quiet /\ last'.prompted /\ last' # last =>
           ~\E a \in answers : a.by = last'.by /\ SameScope(a.call, last'.call)]_vars
  <2> SUFFICES ASSUME GateInv, [Next]_vars, last' # Quiet, last'.prompted, last' # last,
                      NEW a \in answers, a.by = last'.by, SameScope(a.call, last'.call)
               PROVE  FALSE
    OBVIOUS
  <2>1. Remembers(sticky, "parent", answers) /\ Remembers(childSticky, "child", answers)
    BY DEF GateInv, MemoryMatches
  <2>2. ASSUME NEW by, NEW m, NEW store, NEW call, NEW answer, Remembers(store, by, answers),
               Decide(by, m, store, call, answer)
        PROVE  FALSE
    <3>1. last'.by = by /\ last'.call = call /\ last'.prompted = Prompts(m, store, call)
      BY <2>2 DEF Decide
    <3>2. ScopeKey(a.call) = ScopeKey(call)
      BY <3>1, SameKeySameScope
    <3>3. store[ScopeKey(a.call)] # "none"
      BY <3>1, <2>2 DEF Remembers
    <3> QED
      BY <3>1, <3>2, <3>3 DEF Prompts
  <2>3. ASSUME NEW call \in Call, NEW answer \in Decisions, ParentCall(call, answer)
        PROVE  FALSE
    BY <2>1, <2>2, <2>3 DEF ParentCall
  <2>4. ASSUME NEW call \in Call, NEW answer \in Decisions, Delegate(call, answer)
        PROVE  FALSE
    BY <2>1, <2>2, <2>4 DEF Delegate
  <2>5. ASSUME NEW call \in Call, NEW answer \in Decisions, ChildCall(call, answer)
        PROVE  FALSE
    BY <2>1, <2>2, <2>5 DEF ChildCall
  <2> QED
    BY <2>3, <2>4, <2>5 DEF Next, vars, SwitchMode, Restart, StartTurn, ChildReturns,
                            TurnReturns, EditConfig
<1> QED
  BY <1>1, GateInvariant, PTL DEF Spec, NeverReasked

-----------------------------------------------------------------------------
(* Globs: the basename *)

\* A text that has a slash has a last one.
LEMMA LastCut ==
  ASSUME NEW n \in Nat, NEW cuts \in SUBSET (1..n), cuts # {}
  PROVE  \E i \in cuts : \A j \in cuts : j <= i
<1> DEFINE T == {k \in Nat : n - k \in cuts}
<1>1. T # {}
  <2>1. PICK i \in cuts : TRUE
    OBVIOUS
  <2>2. n - i \in Nat /\ n - (n - i) = i
    OBVIOUS
  <2> QED
    BY <2>1, <2>2
<1>2. PICK k \in T : \A l \in T : k <= l
  BY <1>1, LeastNumber
<1>3. ASSUME NEW j \in cuts PROVE j <= n - k
  <2>1. n - j \in Nat /\ n - (n - j) = j
    OBVIOUS
  <2>2. n - j \in T
    BY <2>1
  <2> QED
    BY <2>2, <1>2
<1> QED
  BY <1>2, <1>3

\* The text after the last slash is a text.
LEMMA BasenameType ==
  ASSUME NEW t \in Seq(Chars)
  PROVE  Basename(t) \in Seq(Chars)
<1> DEFINE cuts == {i \in DOMAIN t : t[i] = Slash}
           cut == CHOOSE i \in cuts : \A j \in cuts : j <= i
<1>1. CASE cuts = {}
  BY <1>1 DEF Basename
<1>2. CASE cuts # {}
  <2>1. cuts \in SUBSET (1..Len(t)) /\ Len(t) \in Nat
    OBVIOUS
  <2>2. \E i \in cuts : \A j \in cuts : j <= i
    BY <2>1, <1>2, LastCut
  <2>3. cut \in 1..Len(t)
    BY <2>1, <2>2
  <2>4. Basename(t) = SubSeq(t, 1 + cut, Len(t))
    BY <1>2 DEF Basename
  <2>5. \A k \in (1 + cut)..Len(t) : t[k] \in Chars
    BY <2>3
  <2> HIDE DEF cut
  <2> QED
    BY <2>3, <2>4, <2>5
<1> QED
  BY <1>1, <1>2

-----------------------------------------------------------------------------
(* Globs: the indices *)

\* The run of the last star ends where the scan is, or before.
Behind == mark <= ti

IndexInv == IndicesOK /\ Behind

LEMMA InitIndexInv == GlobInit => IndexInv
BY GlobAssumption DEF GlobInit, IndexInv, IndicesOK, Behind, NoStar

LEMMA StepIndexInv == IndexInv /\ [GlobNext]_globVars => IndexInv'
<1> SUFFICES ASSUME IndexInv, [GlobNext]_globVars PROVE IndexInv'
  OBVIOUS
<1> USE DEF IndexInv, IndicesOK, Behind, NoStar
<1>0. pattern \in Seq(Chars) /\ text \in Seq(Chars)
  BY GlobAssumption
<1>1. CASE TakeLiteral
  BY <1>0, <1>1 DEF TakeLiteral, TextLeft, Literal
<1>2. CASE TakeStar
  BY <1>0, <1>2 DEF TakeStar, TextLeft, AtStar
<1>3. CASE Backtrack
  BY <1>0, <1>3 DEF Backtrack, TextLeft
<1>4. CASE Match
  BY <1>4 DEF Match, scan
<1>5. CASE TryBasename
  BY <1>0, <1>5, BasenameType DEF TryBasename
<1>6. CASE Fail
  BY <1>6 DEF Fail, scan
<1>7. CASE Returned \/ UNCHANGED globVars
  BY <1>7 DEF Returned, globVars, scan
<1> QED
  BY <1>1, <1>2, <1>3, <1>4, <1>5, <1>6, <1>7 DEF GlobNext, GlobStep

\* No access of star_match is out of bounds, whatever the pattern and the text
\* (rules.rs: p[pi], t[ti]).
THEOREM IndicesInBounds == GlobSpec => []IndicesOK
<1>1. IndexInv => IndicesOK
  BY DEF IndexInv
<1> QED
  BY <1>1, InitIndexInv, StepIndexInv, PTL DEF GlobSpec

-----------------------------------------------------------------------------
(* Globs: the meaning of the rest of a pattern *)

\* at places what is left of pattern p after i characters on what is left of
\* text t after j.
Places(p, t, i, j, at) ==
  /\ at \in [i..Len(p) -> 0..Len(t)]
  /\ at[i] = j /\ at[Len(p)] = Len(t)
  /\ \A k \in (i + 1)..Len(p) : AccountsFor(p, t, at, k)

Rest(p, t, i, j) == \E at : Places(p, t, i, j, at)

LEMMA RestOfAll ==
  ASSUME NEW p \in Seq(Chars), NEW t \in Seq(Chars)
  PROVE  Means(p, t) <=> Rest(p, t, 0, 0)
BY DEF Means, Rest, Places

\* A placement never goes back.
LEMMA PlacesForward ==
  ASSUME NEW p \in Seq(Chars), NEW t \in Seq(Chars), NEW i \in 0..Len(p), NEW j \in 0..Len(t),
         NEW at, Places(p, t, i, j, at), NEW k \in i..Len(p)
  PROVE  at[k] \in 0..Len(t) /\ j <= at[k]
<1>1. \A l \in i..Len(p) : at[l] \in 0..Len(t)
  BY DEF Places
<1> DEFINE T == {l \in Nat : l \in i..Len(p) /\ at[l] < j}
<1>2. CASE T = {}
  BY <1>1, <1>2
<1>3. CASE T # {}
  <2>1. PICK l \in T : \A m \in T : l <= m
    BY <1>3, LeastNumber
  <2>2. l \in (i + 1)..Len(p)
    BY <2>1 DEF Places
  <2>3. l - 1 \in i..Len(p) /\ l - 1 \in Nat /\ l - 1 < l
    BY <2>2
  <2>4. ~(at[l - 1] < j)
    BY <2>1, <2>3
  <2>5. AccountsFor(p, t, at, l)
    BY <2>2 DEF Places
  <2>6. at[l] \in Nat /\ at[l - 1] \in Nat
    <3>1. l \in i..Len(p) /\ l - 1 \in i..Len(p) /\ Len(t) \in Nat
      BY <2>2
    <3> QED
      BY <3>1, <1>1
  <2>7. at[l - 1] <= at[l]
    BY <2>5, <2>6 DEF AccountsFor
  <2> QED
    BY <2>1, <2>4, <2>6, <2>7
<1> QED
  BY <1>2, <1>3

\* Through literals it goes one character of the text for one of the pattern.
LEMMA PlacesLiterals ==
  ASSUME NEW p \in Seq(Chars), NEW t \in Seq(Chars), NEW i \in 0..Len(p), NEW j \in 0..Len(t),
         NEW at, Places(p, t, i, j, at), NEW n \in i..Len(p),
         \A k \in (i + 1)..n : p[k] # Star
  PROVE  at[n] = j + (n - i)
<1>1. \A l \in i..Len(p) : at[l] \in 0..Len(t)
  BY DEF Places
<1> DEFINE T == {l \in Nat : l \in i..n /\ at[l] # j + (l - i)}
<1>2. CASE T = {}
  BY <1>2
<1>3. CASE T # {}
  <2>1. PICK l \in T : \A m \in T : l <= m
    BY <1>3, LeastNumber
  <2>2. l \in (i + 1)..n
    <3>1. at[i] = j + (i - i)
      BY DEF Places
    <3>2. l # i /\ l \in i..n
      BY <2>1, <3>1
    <3> QED
      BY <3>2
  <2>3. l - 1 \in i..n /\ l - 1 \in Nat /\ l - 1 < l
    BY <2>2
  <2>4. at[l - 1] = j + ((l - 1) - i)
    BY <2>1, <2>3
  <2>5. at[l] = at[l - 1] + 1
    BY <2>2 DEF Places, AccountsFor
  <2> QED
    BY <2>1, <2>2, <2>4, <2>5
<1> QED
  BY <1>2, <1>3

\* One character on: a placement of the rest is one of a shorter rest, and the
\* other way round where the character accounts for what lies between.
LEMMA PlacesShorter ==
  ASSUME NEW p \in Seq(Chars), NEW t \in Seq(Chars), NEW i \in 0..(Len(p) - 1), NEW j \in 0..Len(t),
         NEW at, Places(p, t, i, j, at)
  PROVE  Rest(p, t, i + 1, at[i + 1]) /\ at[i + 1] \in 0..Len(t) /\ AccountsFor(p, t, at, i + 1)
<1> DEFINE shorter == [k \in (i + 1)..Len(p) |-> at[k]]
<1>1. \A k \in i..Len(p) : at[k] \in 0..Len(t)
  BY DEF Places
<1>2. shorter \in [(i + 1)..Len(p) -> 0..Len(t)]
  BY <1>1
<1>3. i + 1 \in (i + 1)..Len(p) /\ Len(p) \in (i + 1)..Len(p)
  OBVIOUS
<1>4. shorter[i + 1] = at[i + 1] /\ shorter[Len(p)] = Len(t)
  BY <1>3 DEF Places
<1>5. ASSUME NEW k \in ((i + 1) + 1)..Len(p) PROVE AccountsFor(p, t, shorter, k)
  <2>1. k \in (i + 1)..Len(p) /\ k - 1 \in (i + 1)..Len(p)
    OBVIOUS
  <2>2. AccountsFor(p, t, at, k)
    BY <2>1 DEF Places
  <2> QED
    BY <2>1, <2>2 DEF AccountsFor
<1>6. Places(p, t, i + 1, at[i + 1], shorter)
  <2> HIDE DEF shorter
  <2> QED
    BY <1>2, <1>4, <1>5 DEF Places
<1> QED
  BY <1>1, <1>3, <1>6 DEF Rest, Places

LEMMA PlacesLonger ==
  ASSUME NEW p \in Seq(Chars), NEW t \in Seq(Chars), NEW i \in 0..(Len(p) - 1), NEW j \in 0..Len(t),
         NEW m \in 0..Len(t), Rest(p, t, i + 1, m),
         IF p[i + 1] = Star THEN j <= m ELSE m = j + 1 /\ p[i + 1] = t[m]
  PROVE  Rest(p, t, i, j)
<1>1. PICK at : Places(p, t, i + 1, m, at)
  BY DEF Rest
<1> DEFINE longer == [k \in i..Len(p) |-> IF k = i THEN j ELSE at[k]]
<1>2. at \in [(i + 1)..Len(p) -> 0..Len(t)] /\ at[i + 1] = m /\ at[Len(p)] = Len(t)
  BY <1>1 DEF Places
<1>3. longer \in [i..Len(p) -> 0..Len(t)]
  <2>1. ASSUME NEW k \in i..Len(p), k # i PROVE k \in (i + 1)..Len(p)
    BY <2>1
  <2> QED
    BY <1>2, <2>1
<1>4. longer[i] = j /\ longer[i + 1] = m /\ longer[Len(p)] = Len(t)
  BY <1>2
<1>5. ASSUME NEW k \in (i + 1)..Len(p) PROVE AccountsFor(p, t, longer, k)
  <2>1. CASE k = i + 1
    <3>1. longer[k - 1] = j /\ longer[k] = m
      BY <1>4, <2>1
    <3> HIDE DEF longer
    <3> QED
      BY <2>1, <3>1 DEF AccountsFor
  <2>2. CASE k # i + 1
    <3>1. k \in ((i + 1) + 1)..Len(p) /\ k \in i..Len(p) /\ k - 1 \in i..Len(p) /\ k # i /\ k - 1 # i
      BY <2>2
    <3>2. AccountsFor(p, t, at, k)
      BY <1>1, <3>1 DEF Places
    <3>3. longer[k] = at[k] /\ longer[k - 1] = at[k - 1]
      BY <3>1
    <3> HIDE DEF longer
    <3> QED
      BY <3>2, <3>3 DEF AccountsFor
  <2> QED
    BY <2>1, <2>2
<1>6. Places(p, t, i, j, longer)
  <2> HIDE DEF longer
  <2> QED
    BY <1>3, <1>4, <1>5 DEF Places
<1> QED
  BY <1>6 DEF Rest

\* A literal matches one character, a star any run.
LEMMA RestAtLiteral ==
  ASSUME NEW p \in Seq(Chars), NEW t \in Seq(Chars), NEW i \in 0..(Len(p) - 1), NEW j \in 0..Len(t),
         p[i + 1] # Star
  PROVE  Rest(p, t, i, j) <=> j < Len(t) /\ p[i + 1] = t[j + 1] /\ Rest(p, t, i + 1, j + 1)
<1>1. ASSUME Rest(p, t, i, j) PROVE j < Len(t) /\ p[i + 1] = t[j + 1] /\ Rest(p, t, i + 1, j + 1)
  <2>1. PICK at : Places(p, t, i, j, at)
    BY <1>1 DEF Rest
  <2>2. Rest(p, t, i + 1, at[i + 1]) /\ at[i + 1] \in 0..Len(t) /\ AccountsFor(p, t, at, i + 1)
    BY <2>1, PlacesShorter
  <2>3. at[i] = j /\ (i + 1) - 1 = i
    BY <2>1 DEF Places
  <2>4. at[i + 1] = j + 1 /\ p[i + 1] = t[j + 1]
    BY <2>2, <2>3 DEF AccountsFor
  <2> QED
    BY <2>2, <2>4
<1>2. ASSUME j < Len(t), p[i + 1] = t[j + 1], Rest(p, t, i + 1, j + 1) PROVE Rest(p, t, i, j)
  <2>1. j + 1 \in 0..Len(t)
    BY <1>2
  <2> QED
    BY <1>2, <2>1, PlacesLonger
<1> QED
  BY <1>1, <1>2

LEMMA RestAtStar ==
  ASSUME NEW p \in Seq(Chars), NEW t \in Seq(Chars), NEW i \in 0..(Len(p) - 1), NEW j \in 0..Len(t),
         p[i + 1] = Star
  PROVE  Rest(p, t, i, j) <=> \E m \in j..Len(t) : Rest(p, t, i + 1, m)
<1>1. ASSUME Rest(p, t, i, j) PROVE \E m \in j..Len(t) : Rest(p, t, i + 1, m)
  <2>1. PICK at : Places(p, t, i, j, at)
    BY <1>1 DEF Rest
  <2>2. Rest(p, t, i + 1, at[i + 1]) /\ at[i + 1] \in 0..Len(t) /\ AccountsFor(p, t, at, i + 1)
    BY <2>1, PlacesShorter
  <2>3. at[i] = j /\ (i + 1) - 1 = i
    BY <2>1 DEF Places
  <2>4. at[i + 1] \in j..Len(t)
    BY <2>2, <2>3 DEF AccountsFor
  <2> QED
    BY <2>2, <2>4
<1>2. ASSUME NEW m \in j..Len(t), Rest(p, t, i + 1, m) PROVE Rest(p, t, i, j)
  <2>1. m \in 0..Len(t) /\ j <= m
    OBVIOUS
  <2> QED
    BY <1>2, <2>1, PlacesLonger
<1> QED
  BY <1>1, <1>2

\* Nothing is left of the pattern: it matches what is left of the text only if
\* that is nothing.
LEMMA RestAtEnd ==
  ASSUME NEW p \in Seq(Chars), NEW t \in Seq(Chars), NEW j \in 0..Len(t)
  PROVE  Rest(p, t, Len(p), j) => j = Len(t)
BY DEF Rest, Places

\* At the end of the text the rest matches if and only if it is stars.
LEMMA RestAtTextEnd ==
  ASSUME NEW p \in Seq(Chars), NEW t \in Seq(Chars), NEW i \in 0..Len(p)
  PROVE  Rest(p, t, i, Len(t)) <=> \A k \in (i + 1)..Len(p) : p[k] = Star
<1>0. Len(t) \in 0..Len(t) /\ Len(p) \in Nat
  OBVIOUS
<1>1. ASSUME Rest(p, t, i, Len(t)), NEW k \in (i + 1)..Len(p) PROVE p[k] = Star
  <2>1. PICK at : Places(p, t, i, Len(t), at)
    BY <1>1 DEF Rest
  <2>2. k \in i..Len(p) /\ k - 1 \in i..Len(p)
    OBVIOUS
  <2>3. at[k] = Len(t) /\ at[k - 1] = Len(t)
    BY <1>0, <2>1, <2>2, PlacesForward
  <2>4. AccountsFor(p, t, at, k)
    BY <2>1 DEF Places
  <2> QED
    BY <2>3, <2>4 DEF AccountsFor
<1>2. ASSUME \A k \in (i + 1)..Len(p) : p[k] = Star PROVE Rest(p, t, i, Len(t))
  <2> DEFINE at == [k \in i..Len(p) |-> Len(t)]
  <2>1. at \in [i..Len(p) -> 0..Len(t)] /\ at[i] = Len(t) /\ at[Len(p)] = Len(t)
    BY <1>0
  <2>2. ASSUME NEW k \in (i + 1)..Len(p) PROVE AccountsFor(p, t, at, k)
    <3>1. k \in i..Len(p) /\ k - 1 \in i..Len(p)
      OBVIOUS
    <3>2. at[k] = Len(t) /\ at[k - 1] = Len(t)
      BY <3>1
    <3> HIDE DEF at
    <3> QED
      BY <1>2, <3>2 DEF AccountsFor
  <2>3. Places(p, t, i, Len(t), at)
    <3> HIDE DEF at
    <3> QED
      BY <2>1, <2>2 DEF Places
  <2> QED
    BY <2>3 DEF Rest
<1> QED
  BY <1>1, <1>2

\* Any number of characters on.
LEMMA PlacesOn ==
  ASSUME NEW p \in Seq(Chars), NEW t \in Seq(Chars), NEW i \in 0..Len(p), NEW j \in 0..Len(t),
         NEW at, Places(p, t, i, j, at), NEW n \in i..Len(p)
  PROVE  Rest(p, t, n, at[n])
<1> DEFINE onward == [k \in n..Len(p) |-> at[k]]
<1>1. \A k \in i..Len(p) : at[k] \in 0..Len(t)
  BY DEF Places
<1>2. onward \in [n..Len(p) -> 0..Len(t)]
  BY <1>1
<1>3. onward[n] = at[n] /\ onward[Len(p)] = Len(t)
  BY DEF Places
<1>4. ASSUME NEW k \in (n + 1)..Len(p) PROVE AccountsFor(p, t, onward, k)
  <2>1. k \in (i + 1)..Len(p) /\ k \in n..Len(p) /\ k - 1 \in n..Len(p)
    OBVIOUS
  <2>2. AccountsFor(p, t, at, k)
    BY <2>1 DEF Places
  <2> QED
    BY <2>1, <2>2 DEF AccountsFor
<1>5. Places(p, t, n, at[n], onward)
  <2> HIDE DEF onward
  <2> QED
    BY <1>2, <1>3, <1>4 DEF Places
<1> QED
  BY <1>5 DEF Rest

\* A match of what follows a star, taken later, is a match of what follows the
\* literals behind that star, later by as much.
LEMMA RestShifted ==
  ASSUME NEW p \in Seq(Chars), NEW t \in Seq(Chars), NEW i \in 0..Len(p), NEW n \in i..Len(p),
         NEW j \in 0..Len(t), NEW m \in (j + 1)..Len(t), Rest(p, t, i, m),
         \A k \in (i + 1)..n : p[k] # Star
  PROVE  \E l \in (j + (n - i) + 1)..Len(t) : Rest(p, t, n, l)
<1>0. m \in 0..Len(t)
  OBVIOUS
<1>1. PICK at : Places(p, t, i, m, at)
  BY DEF Rest
<1>2. Rest(p, t, n, at[n])
  BY <1>0, <1>1, PlacesOn
<1>3. at[n] = m + (n - i)
  BY <1>0, <1>1, PlacesLiterals
<1>4. at[n] \in 0..Len(t)
  BY <1>0, <1>1, PlacesForward
<1>5. at[n] \in (j + (n - i) + 1)..Len(t)
  BY <1>3, <1>4
<1> QED
  BY <1>2, <1>5

\* Where the characters differ and there is no star, the rest does not match.
LEMMA RestAtMismatch ==
  ASSUME NEW p \in Seq(Chars), NEW t \in Seq(Chars), NEW i \in 0..Len(p), NEW j \in 0..(Len(t) - 1),
         i < Len(p) => p[i + 1] # t[j + 1] /\ p[i + 1] # Star
  PROVE  ~Rest(p, t, i, j)
<1>0. j \in 0..Len(t) /\ j < Len(t)
  OBVIOUS
<1>1. CASE i < Len(p)
  <2>1. i \in 0..(Len(p) - 1)
    BY <1>1
  <2> QED
    BY <1>0, <1>1, <2>1, RestAtLiteral
<1>2. CASE i = Len(p)
  BY <1>0, <1>2, RestAtEnd
<1> QED
  BY <1>1, <1>2

-----------------------------------------------------------------------------
(* Globs: the loop *)

Matches(i, j) == Rest(pattern, subject, i, j)

\* What is left to match would make a match of the whole, and so would a longer
\* run of the last star.
Sound ==
  Scanning =>
    /\ Matches(pi, ti) => Matches(0, 0)
    /\ star # NoStar =>
         /\ pattern[star + 1] = Star
         /\ \A m \in mark..Len(subject) : Matches(star + 1, m) => Matches(0, 0)

\* Since the last star only literals were taken, one character for each.
SinceStar ==
  Scanning /\ Plain(subject) /\ star # NoStar =>
    /\ star + 1 <= pi
    /\ pi - (star + 1) = ti - mark
    /\ \A k \in (star + 2)..pi : pattern[k] # Star

\* No match is out of reach: it is one of what is left to match, or of a longer
\* run of the last star.
Complete ==
  Scanning /\ Plain(subject) /\ Matches(0, 0) =>
    \/ Matches(pi, ti)
    \/ star # NoStar /\ \E m \in (mark + 1)..Len(subject) : Matches(star + 1, m)

\* The text itself is tried first, its basename after it has failed.
Tried ==
  /\ state = "whole" => subject = text
  /\ state = "base" =>
       /\ Bare /\ subject = Basename(text)
       /\ Plain(text) => ~Means(pattern, text)

MatchInv == IndexInv /\ Sound /\ SinceStar /\ Complete /\ Tried /\ Correct

LEMMA BasenamePlain ==
  ASSUME NEW t \in Seq(Chars), Plain(t)
  PROVE  Plain(Basename(t))
<1> DEFINE cuts == {i \in DOMAIN t : t[i] = Slash}
           cut == CHOOSE i \in cuts : \A j \in cuts : j <= i
<1>1. CASE cuts = {}
  BY <1>1 DEF Basename
<1>2. CASE cuts # {}
  <2>1. cuts \in SUBSET (1..Len(t)) /\ Len(t) \in Nat
    OBVIOUS
  <2>2. \E i \in cuts : \A j \in cuts : j <= i
    BY <2>1, <1>2, LastCut
  <2>3. cut \in 1..Len(t)
    BY <2>1, <2>2
  <2>4. Basename(t) = SubSeq(t, 1 + cut, Len(t))
    BY <1>2 DEF Basename
  <2> HIDE DEF cut
  <2>5. ASSUME NEW k \in DOMAIN SubSeq(t, 1 + cut, Len(t))
        PROVE  cut + k \in DOMAIN t /\ SubSeq(t, 1 + cut, Len(t))[k] = t[cut + k]
    BY <2>3
  <2> QED
    BY <2>4, <2>5 DEF Plain
<1> QED
  BY <1>1, <1>2

LEMMA InitMatchInv == GlobInit => MatchInv
<1> SUFFICES ASSUME GlobInit PROVE MatchInv
  OBVIOUS
<1>1. IndexInv
  BY InitIndexInv
<1>2. state = "whole" /\ pi = 0 /\ ti = 0 /\ star = NoStar /\ subject = text
  BY DEF GlobInit
<1> QED
  BY <1>1, <1>2 DEF MatchInv, Sound, SinceStar, Complete, Tried, Correct

\* What the loop knows when it has nothing left to try.
LEMMA FoundIsMatch ==
  ASSUME MatchInv, Found
  PROVE  Matches(0, 0)
<1>1. pattern \in Seq(Chars) /\ subject \in Seq(Chars) /\ pi \in 0..Len(pattern)
  BY GlobAssumption DEF MatchInv, IndexInv, IndicesOK
<1>2. Rest(pattern, subject, pi, Len(subject))
  BY <1>1, RestAtTextEnd DEF Found, RestIsStars
<1> QED
  BY <1>2 DEF MatchInv, Sound, Found, Matches

LEMMA LostIsNone ==
  ASSUME MatchInv, Lost, Plain(subject)
  PROVE  ~Matches(0, 0)
<1>1. /\ pattern \in Seq(Chars) /\ subject \in Seq(Chars)
      /\ pi \in 0..Len(pattern) /\ ti \in 0..Len(subject)
      /\ star # NoStar => star \in 0..(Len(pattern) - 1)
      /\ mark \in 0..Len(subject) /\ mark <= ti
  BY GlobAssumption DEF MatchInv, IndexInv, IndicesOK, Behind
<1>2. CASE TextLeft /\ ~Literal /\ ~AtStar /\ star = NoStar
  <2>1. ti \in 0..(Len(subject) - 1)
    BY <1>1, <1>2 DEF TextLeft
  <2>2. ~Matches(pi, ti)
    BY <1>1, <1>2, <2>1, RestAtMismatch DEF Literal, AtStar, Matches
  <2> QED
    BY <1>2, <2>2 DEF MatchInv, Complete, TextLeft
<1>3. CASE Scanning /\ ti = Len(subject) /\ ~RestIsStars
  <2>1. ~Matches(pi, ti)
    BY <1>1, <1>3, RestAtTextEnd DEF RestIsStars, Matches
  <2>2. ASSUME star # NoStar, NEW m \in (mark + 1)..Len(subject), Matches(star + 1, m) PROVE FALSE
    <3>1. star + 1 <= pi /\ pi - (star + 1) = ti - mark /\ \A k \in (star + 2)..pi : pattern[k] # Star
      BY <1>3, <2>2 DEF MatchInv, SinceStar
    <3>2. star + 1 \in 0..Len(pattern) /\ pi \in (star + 1)..Len(pattern) /\ (star + 1) + 1 = star + 2
      BY <1>1, <2>2, <3>1
    <3>3. \E l \in (mark + (pi - (star + 1)) + 1)..Len(subject) : Rest(pattern, subject, pi, l)
      BY <1>1, <2>2, <3>1, <3>2, RestShifted DEF Matches
    <3>4. mark + (pi - (star + 1)) + 1 = Len(subject) + 1
      <4>1. star \in Int /\ pi \in Int /\ ti \in Int /\ mark \in Int /\ ti = Len(subject)
        BY <1>1, <1>3, <2>2
      <4>2. pi - (star + 1) = ti - mark
        BY <3>1
      <4> QED
        BY <4>1, <4>2
    <3> QED
      BY <1>1, <3>3, <3>4
  <2> QED
    BY <1>3, <2>1, <2>2 DEF MatchInv, Complete
<1> QED
  BY <1>2, <1>3 DEF Lost

\* The three actions of the loop keep what it knows.
LEMMA LiteralKeeps ==
  ASSUME MatchInv, TakeLiteral
  PROVE  (Sound /\ SinceStar /\ Complete)'
<1>1. /\ pattern \in Seq(Chars) /\ subject \in Seq(Chars)
      /\ pi \in 0..(Len(pattern) - 1) /\ ti \in 0..(Len(subject) - 1) /\ ti \in 0..Len(subject)
      /\ star # NoStar => star \in 0..(Len(pattern) - 1)
      /\ mark \in 0..Len(subject)
      /\ ti + 1 \in ti..Len(subject) /\ ti + 1 \in DOMAIN subject /\ ti < Len(subject)
      /\ pattern[pi + 1] = subject[ti + 1]
  BY GlobAssumption DEF MatchInv, IndexInv, IndicesOK, TakeLiteral, TextLeft, Literal
<1>2. /\ pi' = pi + 1 /\ ti' = ti + 1 /\ pattern' = pattern /\ subject' = subject
      /\ star' = star /\ mark' = mark /\ state' = state /\ Scanning
  BY DEF TakeLiteral, TextLeft
<1>3. Matches(pi + 1, ti + 1) => Matches(pi, ti)
  <2>1. CASE pattern[pi + 1] = Star
    BY <1>1, <2>1, RestAtStar DEF Matches
  <2>2. CASE pattern[pi + 1] # Star
    BY <1>1, <2>2, RestAtLiteral DEF Matches
  <2> QED
    BY <2>1, <2>2
<1>4. Plain(subject) => pattern[pi + 1] # Star
  BY <1>1 DEF Plain
<1>5. Plain(subject) /\ Matches(pi, ti) => Matches(pi + 1, ti + 1)
  BY <1>1, <1>4, RestAtLiteral DEF Matches
<1>6. Sound'
  BY <1>2, <1>3 DEF MatchInv, Sound, Scanning, Matches
<1>7. SinceStar'
  <2>1. ASSUME Plain(subject), star # NoStar
        PROVE  /\ star + 1 <= pi + 1
               /\ (pi + 1) - (star + 1) = (ti + 1) - mark
               /\ \A k \in (star + 2)..(pi + 1) : pattern[k] # Star
    <3>1. star + 1 <= pi /\ pi - (star + 1) = ti - mark /\ \A k \in (star + 2)..pi : pattern[k] # Star
      BY <1>2, <2>1 DEF MatchInv, SinceStar
    <3>2. ASSUME NEW k \in (star + 2)..(pi + 1) PROVE pattern[k] # Star
      <4>1. k = pi + 1 \/ k \in (star + 2)..pi
        BY <1>1, <2>1
      <4> QED
        BY <1>4, <2>1, <3>1, <4>1
    <3> QED
      BY <1>1, <2>1, <3>1, <3>2
  <2> QED
    BY <1>2, <2>1 DEF SinceStar
<1>8. Complete'
  BY <1>2, <1>5 DEF MatchInv, Complete, Scanning, Matches
<1> QED
  BY <1>6, <1>7, <1>8

LEMMA StarKeeps ==
  ASSUME MatchInv, TakeStar
  PROVE  (Sound /\ SinceStar /\ Complete)'
<1>1. /\ pattern \in Seq(Chars) /\ subject \in Seq(Chars)
      /\ pi \in 0..(Len(pattern) - 1) /\ ti \in 0..Len(subject) /\ pi \in 0..Len(pattern)
      /\ star # NoStar => star \in 0..(Len(pattern) - 1)
      /\ mark \in 0..Len(subject) /\ ti \in ti..Len(subject)
      /\ pattern[pi + 1] = Star
  BY GlobAssumption DEF MatchInv, IndexInv, IndicesOK, TakeStar, TextLeft, AtStar
<1>2. /\ pi' = pi + 1 /\ ti' = ti /\ pattern' = pattern /\ subject' = subject
      /\ star' = pi /\ mark' = ti /\ state' = state /\ Scanning
  BY DEF TakeStar, TextLeft
<1>3. Matches(pi, ti) <=> \E m \in ti..Len(subject) : Matches(pi + 1, m)
  BY <1>1, RestAtStar DEF Matches
<1>4. Matches(pi, ti) => Matches(0, 0)
  BY <1>2 DEF MatchInv, Sound
<1>5. Sound'
  BY <1>1, <1>2, <1>3, <1>4 DEF Sound, Scanning, Matches
<1>6. SinceStar'
  BY <1>1, <1>2 DEF SinceStar, Scanning
<1>7. ASSUME Plain(subject), Matches(0, 0)
      PROVE  Matches(pi + 1, ti) \/ \E m \in (ti + 1)..Len(subject) : Matches(pi + 1, m)
  <2>1. CASE Matches(pi, ti)
    <3>1. PICK m \in ti..Len(subject) : Matches(pi + 1, m)
      BY <1>3, <2>1
    <3>2. m = ti \/ m \in (ti + 1)..Len(subject)
      BY <1>1
    <3> QED
      BY <3>1, <3>2
  <2>2. ASSUME star # NoStar, NEW m \in (mark + 1)..Len(subject), Matches(star + 1, m)
        PROVE  \E n \in (ti + 1)..Len(subject) : Matches(pi + 1, n)
    <3>1. star + 1 <= pi /\ pi - (star + 1) = ti - mark /\ \A k \in (star + 2)..pi : pattern[k] # Star
      BY <1>2, <1>7, <2>2 DEF MatchInv, SinceStar
    <3>2. star + 1 \in 0..Len(pattern) /\ pi \in (star + 1)..Len(pattern) /\ (star + 1) + 1 = star + 2
      BY <1>1, <2>2, <3>1
    <3>3. PICK l \in (mark + (pi - (star + 1)) + 1)..Len(subject) : Rest(pattern, subject, pi, l)
      BY <1>1, <2>2, <3>1, <3>2, RestShifted DEF Matches
    <3>4. mark + (pi - (star + 1)) = ti
      BY <1>1, <2>2, <3>1
    <3>5. l \in (ti + 1)..Len(subject) /\ l \in 0..Len(subject)
      BY <1>1, <3>4
    <3>6. PICK n \in l..Len(subject) : Rest(pattern, subject, pi + 1, n)
      BY <1>1, <3>3, <3>5, RestAtStar
    <3>7. n \in (ti + 1)..Len(subject)
      <4>1. ti \in Int /\ Len(subject) \in Int /\ n \in l..Len(subject)
        BY <1>1
      <4> QED
        BY <3>5, <4>1
    <3> QED
      BY <3>6, <3>7 DEF Matches
  <2> QED
    BY <1>2, <1>7, <2>1, <2>2 DEF MatchInv, Complete
<1>8. Complete'
  BY <1>1, <1>2, <1>7 DEF Complete, Scanning, Matches, NoStar
<1> QED
  BY <1>5, <1>6, <1>8

LEMMA BacktrackKeeps ==
  ASSUME MatchInv, Backtrack
  PROVE  (Sound /\ SinceStar /\ Complete)'
<1>1. /\ pattern \in Seq(Chars) /\ subject \in Seq(Chars)
      /\ pi \in 0..Len(pattern) /\ ti \in 0..(Len(subject) - 1)
      /\ star \in 0..(Len(pattern) - 1)
      /\ mark \in 0..Len(subject) /\ mark <= ti /\ mark + 1 \in mark..Len(subject)
  BY GlobAssumption DEF MatchInv, IndexInv, IndicesOK, Behind, Backtrack, TextLeft
<1>2. /\ pi' = star + 1 /\ ti' = mark + 1 /\ pattern' = pattern /\ subject' = subject
      /\ star' = star /\ mark' = mark + 1 /\ state' = state /\ Scanning /\ star # NoStar
  BY DEF Backtrack, TextLeft
<1>3. ~Matches(pi, ti)
  BY <1>1, RestAtMismatch DEF Backtrack, Literal, AtStar, Matches
<1>4. /\ pattern[star + 1] = Star
      /\ \A m \in mark..Len(subject) : Matches(star + 1, m) => Matches(0, 0)
  BY <1>2 DEF MatchInv, Sound
<1>5. \A m \in (mark + 1)..Len(subject) : m \in mark..Len(subject)
  BY <1>1
<1>6. Sound'
  BY <1>1, <1>2, <1>4, <1>5 DEF Sound, Scanning, Matches
<1>7. SinceStar'
  BY <1>1, <1>2 DEF SinceStar, Scanning
<1>8. ASSUME Plain(subject), Matches(0, 0)
      PROVE  \/ Matches(star + 1, mark + 1)
             \/ \E m \in (mark + 1 + 1)..Len(subject) : Matches(star + 1, m)
  <2>1. PICK m \in (mark + 1)..Len(subject) : Matches(star + 1, m)
    BY <1>2, <1>3, <1>8 DEF MatchInv, Complete
  <2>2. m = mark + 1 \/ m \in (mark + 1 + 1)..Len(subject)
    BY <1>1
  <2> QED
    BY <2>1, <2>2
<1>9. Complete'
  BY <1>2, <1>8 DEF Complete, Scanning, Matches
<1> QED
  BY <1>6, <1>7, <1>9

LEMMA StepMatchInv == MatchInv /\ [GlobNext]_globVars => MatchInv'
<1> SUFFICES ASSUME MatchInv, [GlobNext]_globVars PROVE MatchInv'
  OBVIOUS
<1>0. IndexInv'
  BY StepIndexInv DEF MatchInv
<1>t. pattern \in Seq(Chars) /\ text \in Seq(Chars)
  BY GlobAssumption DEF MatchInv, IndexInv, IndicesOK
<1>1. ASSUME TakeLiteral \/ TakeStar \/ Backtrack PROVE (Tried /\ Correct)'
  <2>1. pattern' = pattern /\ text' = text /\ subject' = subject /\ state' = state /\ Scanning
    BY <1>1 DEF TakeLiteral, TakeStar, Backtrack, TextLeft
  <2> QED
    BY <2>1 DEF MatchInv, Tried, Correct, Scanning, Bare
<1>2. CASE TakeLiteral
  BY <1>0, <1>1, <1>2, LiteralKeeps DEF MatchInv
<1>3. CASE TakeStar
  BY <1>0, <1>1, <1>3, StarKeeps DEF MatchInv
<1>4. CASE Backtrack
  BY <1>0, <1>1, <1>4, BacktrackKeeps DEF MatchInv
<1>5. CASE Match
  <2>1. Rest(pattern, subject, 0, 0)
    BY <1>5, FoundIsMatch DEF Match, Matches
  <2>2. Documented
    BY <1>5, <1>t, <2>1, RestOfAll, BasenameType
       DEF MatchInv, Tried, Match, Found, Scanning, Documented
  <2>3. state' = "matched" /\ pattern' = pattern /\ text' = text
    BY <1>5 DEF Match
  <2>4. Documented'
    BY <2>2, <2>3 DEF Documented, Bare
  <2> QED
    BY <1>0, <2>3, <2>4 DEF MatchInv, Sound, SinceStar, Complete, Tried, Correct, Scanning
<1>6. CASE TryBasename
  <2>1. /\ state = "whole" /\ Bare /\ state' = "base" /\ subject' = Basename(text)
        /\ pattern' = pattern /\ text' = text /\ pi' = 0 /\ ti' = 0 /\ star' = NoStar
    BY <1>6 DEF TryBasename
  <2>2. Plain(text) => ~Means(pattern, text)
    BY <1>6, <1>t, <2>1, LostIsNone, RestOfAll DEF TryBasename, MatchInv, Tried, Matches
  <2>3. Tried'
    BY <2>1, <2>2 DEF Tried, Bare
  <2> QED
    BY <1>0, <2>1, <2>3 DEF MatchInv, Sound, SinceStar, Complete, Correct, Scanning, Matches
<1>7. CASE Fail
  <2>1. state' = "unmatched" /\ pattern' = pattern /\ text' = text
    BY <1>7 DEF Fail
  <2>2. ASSUME Plain(text) PROVE ~Documented
    <3>1. CASE state = "whole" /\ ~Bare
      BY <1>7, <1>t, <2>2, <3>1, LostIsNone, RestOfAll DEF Fail, MatchInv, Tried, Matches, Documented
    <3>2. CASE state = "base"
      <4>1. Basename(text) \in Seq(Chars) /\ Plain(Basename(text))
        BY <1>t, <2>2, BasenameType, BasenamePlain
      <4>2. subject = Basename(text) /\ ~Means(pattern, text)
        BY <2>2, <3>2 DEF MatchInv, Tried
      <4> QED
        BY <1>7, <1>t, <4>1, <4>2, LostIsNone, RestOfAll DEF Fail, Matches, Documented
    <3> QED
      BY <1>7, <3>1, <3>2 DEF Fail, Lost, TextLeft, Scanning
  <2>3. Plain(text) => ~Documented'
    BY <2>1, <2>2 DEF Documented, Bare
  <2> QED
    BY <1>0, <2>1, <2>3 DEF MatchInv, Sound, SinceStar, Complete, Tried, Correct, Scanning
<1>8. CASE Returned \/ UNCHANGED globVars
  <2>1. UNCHANGED <<pattern, text, subject, pi, ti, star, mark, state>>
    BY <1>8 DEF Returned, globVars, scan
  <2> QED
    BY <1>0, <2>1 DEF MatchInv, Sound, SinceStar, Complete, Tried, Correct, Scanning, Matches,
                      Documented, Bare
<1> QED
  BY <1>2, <1>3, <1>4, <1>5, <1>6, <1>7, <1>8 DEF GlobNext, GlobStep

\* One backtracking point is enough for any pattern and any text: what
\* star_match and the second try on the basename accept is a match as
\* documented, and in a text without a star they miss none (rules.rs:
\* glob_match_with_home).
THEOREM MatcherIsRight == GlobSpec => []Correct
<1>1. MatchInv => Correct
  BY DEF MatchInv
<1> QED
  BY <1>1, InitMatchInv, StepMatchInv, PTL DEF GlobSpec
=============================================================================
