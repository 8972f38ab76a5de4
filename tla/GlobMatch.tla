----------------------------- MODULE GlobMatch -----------------------------
(***************************************************************************)
(* The glob matcher of the permission rules: glob_match_with_home and the  *)
(* greedy star_match with one backtracking point                           *)
(* (crates/orcarein-core/src/permission/rules.rs).                         *)
(*                                                                         *)
(* One action is one round of the loop.  Indices count the characters      *)
(* consumed, as in the code.  Pattern and text are taken after the home    *)
(* directory and the path separators have been replaced.                   *)
(***************************************************************************)
EXTENDS Integers, Sequences

CONSTANTS
  Chars,     \* the characters
  GlobPatterns,  \* the patterns tried
  GlobTexts      \* the paths and commands they are matched against

ASSUME GlobAssumption == GlobPatterns \cup GlobTexts \subseteq Seq(Chars)

Star == "*"
Slash == "/"
NoStar == -1

VARIABLES
  pattern,
  text,
  subject,  \* what star_match looks at: the text, then its basename
  pi, ti,
  star,     \* the pattern index of the last star met, or NoStar
  mark,     \* where in the subject that star's run ends
  state     \* "whole", "base", "matched", "unmatched"

scan == <<pi, ti, star, mark>>
globVars == <<pattern, text, subject, scan, state>>

Bare == \A i \in DOMAIN pattern : pattern[i] # Slash

\* The text after its last slash.
Basename(t) ==
  LET cuts == {i \in DOMAIN t : t[i] = Slash}
  IN  IF cuts = {} THEN t ELSE SubSeq(t, 1 + CHOOSE i \in cuts : \A j \in cuts : j <= i, Len(t))

GlobInit ==
  /\ pattern \in GlobPatterns
  /\ text \in GlobTexts
  /\ subject = text
  /\ pi = 0 /\ ti = 0 /\ star = NoStar /\ mark = 0
  /\ state = "whole"

Scanning == state \in {"whole", "base"}
TextLeft == Scanning /\ ti < Len(subject)
Literal == pi < Len(pattern) /\ pattern[pi + 1] = subject[ti + 1]
AtStar == pi < Len(pattern) /\ pattern[pi + 1] = Star

-----------------------------------------------------------------------------
(* star_match *)

\* The next characters are the same.
TakeLiteral ==
  /\ TextLeft /\ Literal
  /\ pi' = pi + 1 /\ ti' = ti + 1
  /\ UNCHANGED <<pattern, text, subject, star, mark, state>>

\* Mutant: a star's run takes the next character at once.
TakeStar_NotEmpty ==
  /\ TextLeft /\ ~Literal /\ AtStar
  /\ star' = pi /\ mark' = ti + 1
  /\ pi' = pi + 1 /\ ti' = ti + 1
  /\ UNCHANGED <<pattern, text, subject, state>>

\* A star: its run is empty at first.
TakeStar ==
  /\ TextLeft /\ ~Literal /\ AtStar
  /\ star' = pi /\ mark' = ti
  /\ pi' = pi + 1
  /\ UNCHANGED <<pattern, text, subject, ti, state>>

\* A mismatch: the run of the last star takes one character more.
Backtrack ==
  /\ TextLeft /\ ~Literal /\ ~AtStar /\ star # NoStar
  /\ pi' = star + 1
  /\ mark' = mark + 1
  /\ ti' = mark'
  /\ UNCHANGED <<pattern, text, subject, star, state>>

\* Only stars are left of the pattern.
RestIsStars == \A i \in (pi + 1)..Len(pattern) : pattern[i] = Star

Found == Scanning /\ ti = Len(subject) /\ RestIsStars
Lost ==
  \/ TextLeft /\ ~Literal /\ ~AtStar /\ star = NoStar
  \/ Scanning /\ ti = Len(subject) /\ ~RestIsStars

-----------------------------------------------------------------------------
(* glob_match_with_home *)

Match ==
  /\ Found
  /\ state' = "matched"
  /\ UNCHANGED <<pattern, text, subject, scan>>

\* A pattern without a slash is tried on the basename as well.
TryBasename ==
  /\ Lost /\ state = "whole" /\ Bare
  /\ state' = "base"
  /\ subject' = Basename(text)
  /\ pi' = 0 /\ ti' = 0 /\ star' = NoStar /\ mark' = 0
  /\ UNCHANGED <<pattern, text>>

Fail ==
  /\ Lost /\ ~(state = "whole" /\ Bare)
  /\ state' = "unmatched"
  /\ UNCHANGED <<pattern, text, subject, scan>>

Returned == ~Scanning /\ UNCHANGED globVars

GlobStep == TakeLiteral \/ TakeStar \/ Backtrack \/ Match \/ TryBasename \/ Fail

GlobNext == GlobStep \/ Returned

GlobSpec == GlobInit /\ [][GlobNext]_globVars

-----------------------------------------------------------------------------
(* Properties *)

\* Character k of the pattern accounts for the text between at[k - 1] and at[k].
AccountsFor(p, t, at, k) ==
  IF p[k] = Star THEN at[k - 1] <= at[k]
  ELSE at[k] = at[k - 1] + 1 /\ p[k] = t[at[k]]

\* The documented meaning: "`*` matches any run of chars incl. `/` and empty;
\* everything else is literal."  at[k]: how much of the text the pattern's
\* first k characters account for.
Means(p, t) ==
  \E at \in [0..Len(p) -> 0..Len(t)] :
    /\ at[0] = 0 /\ at[Len(p)] = Len(t)
    /\ \A k \in 1..Len(p) : AccountsFor(p, t, at, k)

\* What the documentation calls a match: of the text or, for a bare name, of
\* its basename.
Documented == Means(pattern, text) \/ (Bare /\ Means(pattern, Basename(text)))

Plain(t) == \A j \in DOMAIN t : t[j] # Star

\* The indices stay inside the two strings: no access of star_match panics.
IndicesOK ==
  /\ pattern \in GlobPatterns /\ text \in GlobTexts
  /\ subject \in Seq(Chars)
  /\ pi \in 0..Len(pattern) /\ ti \in 0..Len(subject)
  /\ star \in 0..(Len(pattern) - 1) \cup {NoStar}
  /\ mark \in 0..Len(subject)
  /\ state \in {"whole", "base", "matched", "unmatched"}

\* The matcher's one backtracking point is enough: what it matches is a match
\* as documented and, in a text without a star of its own, it misses none.
Correct ==
  /\ state = "matched" => Documented
  /\ state = "unmatched" /\ Plain(text) => ~Documented

\* The documentation makes no exception for texts that contain a star; the
\* code does, because it compares characters before it looks for a star.
DocumentedMeaning == ~Scanning => (state = "matched" <=> Documented)

=============================================================================
