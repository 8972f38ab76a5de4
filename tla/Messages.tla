------------------------------ MODULE Messages ------------------------------
(***************************************************************************)
(* Conversation messages (crates/orcarein-core/src/message.rs), reduced to *)
(* what decides whether a transcript can be sent back to the provider: the *)
(* role, the ids of the calls an assistant message makes, and the id a     *)
(* tool message answers.  Of a tool message's text only the ERROR: prefix  *)
(* is kept.                                                                *)
(***************************************************************************)
EXTENDS Naturals, Sequences

CONSTANTS
  CallIds,   \* the ids the provider gives to tool calls
  NoId       \* stands for the absent tool_call_id

ASSUME IdAssumption == NoId \notin CallIds

Roles == {"system", "user", "assistant", "tool"}
Message == [role : Roles, calls : Seq(CallIds), id : CallIds \cup {NoId}, err : BOOLEAN]

SystemMsg == [role |-> "system", calls |-> <<>>, id |-> NoId, err |-> FALSE]
UserMsg == [role |-> "user", calls |-> <<>>, id |-> NoId, err |-> FALSE]
AssistantMsg(ids) == [role |-> "assistant", calls |-> ids, id |-> NoId, err |-> FALSE]
ToolMsg(i, e) == [role |-> "tool", calls |-> <<>>, id |-> i, err |-> e]

\* Every call made in the first n messages is answered, in order, by the
\* messages right after the one that makes it, within those n.
AnsweredUpTo(s, n) ==
  \A i \in 1..n : \A k \in 1..Len(s[i].calls) :
     i + k <= n /\ s[i + k].role = "tool" /\ s[i + k].id = s[i].calls[k]

\* Every tool message among the first n follows the call it answers.
NoOrphanUpTo(s, n) ==
  \A i \in 1..n : s[i].role = "tool" =>
     \E k \in 1..(i - 1) : k <= Len(s[i - k].calls)

\* The provider accepts the transcript: an assistant message with tool calls
\* is followed by one tool message for each, and tool messages stand nowhere else.
WellFormed(s) == AnsweredUpTo(s, Len(s)) /\ NoOrphanUpTo(s, Len(s))
=============================================================================
