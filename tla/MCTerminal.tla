----------------------------- MODULE MCTerminal -----------------------------
(* The prompt's editor, or a document in the pager, or one line of code: the *)
(* three share no state, and a behaviour is of one of them.                  *)
EXTENDS Editor, Markdown, Syntax

MCModelPrefix == <<"/", "l", " ">>
MCModePrefix == <<"/", " ">>
MCHistory == << <<MCModelPrefix>>, << <<"a", " ", "b">>, <<"b">> >> >>
MCCandidates == [mention |-> << <<"a">>, <<"b", "a">> >>,
                 model |-> << <<"a">>, <<"b">> >>, mode |-> << <<"a">> >>]

MCWords == << <<"a", "b", "c", "d", "e", "f", " ", "g", "h", "i", "j", "k", "W", "X">>,
              <<"p", "Y", "q", "r", " ", "s">> >>
MCListKinds == {[n |-> Bullet, tight |-> FALSE], [n |-> 9, tight |-> TRUE]}
MCUrl == <<" ", "(", "u", ")">>

MCSynChars == {"a", "accented", "1", "quote", "'", "backslash", "/", "*", "#"}
MCKeywords == [rust |-> {<<"a", "1">>}, python |-> {<<"a">>}, text |-> {}]

ASSUME WordsAreLabelled == Labelled

NoCode == text = <<>> /\ lang = "text"
AtDocument == blocks = 0 /\ texts = 0 /\ ~finished
TermInit ==
  /\ Init /\ MdInit /\ SynInit
  /\ NoCode \/ (parser = Idle /\ width = 8)
  /\ parser = Idle \/ width = 8
TermNext ==
  \/ NoCode /\ AtDocument /\ width = 8 /\ Next /\ UNCHANGED <<mdVars, synVars>>
  \/ NoCode /\ pressed = 0 /\ parser = Idle /\ MdNext /\ UNCHANGED <<vars, synVars>>
  \/ ~NoCode /\ SynNext /\ UNCHANGED <<vars, mdVars>>
TermSpec == TermInit /\ [][TermNext]_<<vars, mdVars, synVars>>
=============================================================================
