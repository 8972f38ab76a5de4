------------------------------ MODULE Markdown ------------------------------
(* The Markdown renderer of the pager (markdown.rs): one action per parser *)
(* event, over a state `md` that is the code's struct Md without its styles. *)
(* The parser is external: `open` is the stack of tags it has opened, and    *)
(* the guards on it are the nestings CommonMark can produce.                 *)
EXTENDS Integers, Sequences, SequencesExt, FiniteSets

CONSTANTS
  Widths,     \* widths asked of render
  Words,      \* what the document's first, second, ... Text or Html event holds
  Wide,       \* the characters of two columns
  ListKinds,  \* the first number of a list and whether it is tight
  Url,        \* the characters of the one link's destination
  MaxBlocks,  \* blocks in one document, items of a list after its first included
  MaxDepth    \* tags open at once

(* Text is a sequence of characters; a space and the dots take one column.  *)
ASSUME DocumentAssumption ==
  /\ Widths \subseteq Nat
  /\ Words \in Seq(Seq(STRING)) /\ Url \in Seq(STRING)
  /\ Wide \subseteq STRING \ {" ", "..."}
  /\ \A l \in ListKinds : l.n \in Int /\ l.tight \in BOOLEAN

VARIABLES width, md, open, last, blocks, texts, celled, html, finished

mdVars == <<width, md, open, last, blocks, texts, celled, html, finished>>

Bullet == -1
Dots == "..."
CharW(c) == IF c \in Wide THEN 2 ELSE 1
(* FoldLeft, in linear time. *)
Over(op(_, _), base, s) ==
  LET f[i \in 0..Len(s)] == IF i = 0 THEN base ELSE op(f[i - 1], s[i]) IN f[Len(s)]
DispWidth(s) == Over(LAMBDA w, c : w + CharW(c), 0, s)

(* A line of the pager: the columns of its prefix and frame, whether it is   *)
(* marked (an item's marker, the edge of a cut table), and its text.         *)
Line(kind, pre, mark, body) == [kind |-> kind, pre |-> pre, mark |-> mark, body |-> body]
BlankLine == Line("text", 0, FALSE, <<>>)
IsBlank(l) == l.pre = 0 /\ l.body = <<>>
LineWidth(l) == l.pre + DispWidth(l.body)

-----------------------------------------------------------------------------
(* Wrapping. *)

(* One character of wrap_runs: break at the last space, else before it. *)
WrapChar(st, c, avail) ==
  LET tail == SubSeq(st.line, st.sp + 1, Len(st.line))
      broken == IF st.w + CharW(c) <= avail \/ st.line = <<>> THEN st
                ELSE IF st.sp > 0
                THEN [lines |-> Append(st.lines, SubSeq(st.line, 1, st.sp - 1)),
                      line |-> tail, w |-> DispWidth(tail), sp |-> 0]
                ELSE [lines |-> Append(st.lines, st.line), line |-> <<>>, w |-> 0, sp |-> 0]
  IN [broken EXCEPT !.sp = IF c = " " THEN Len(broken.line) + 1 ELSE @,
                    !.line = Append(@, c), !.w = @ + CharW(c)]

(* Mutant: the characters after the last break are not pushed. *)
WrapRuns_NoRest(chars, first) ==
  LET avail == IF width - first > 1 THEN width - first ELSE 1
      st == Over(LAMBDA s, c : WrapChar(s, c, avail),
                     [lines |-> <<>>, line |-> <<>>, w |-> 0, sp |-> 0], chars)
  IN IF st.lines = <<>> THEN <<st.line>> ELSE st.lines

(* Mutant: the prefix is not taken off the width. *)
WrapRuns_FullWidth(chars, first) ==
  LET st == Over(LAMBDA s, c : WrapChar(s, c, width),
                     [lines |-> <<>>, line |-> <<>>, w |-> 0, sp |-> 0], chars)
  IN IF st.line # <<>> \/ st.lines = <<>> THEN Append(st.lines, st.line) ELSE st.lines

WrapRuns(chars, first) ==
  LET avail == IF width - first > 1 THEN width - first ELSE 1
      st == Over(LAMBDA s, c : WrapChar(s, c, avail),
                     [lines |-> <<>>, line |-> <<>>, w |-> 0, sp |-> 0], chars)
  IN IF st.line # <<>> \/ st.lines = <<>> THEN Append(st.lines, st.line) ELSE st.lines

(* Code breaks before the character that does not fit; continuation lines   *)
(* are two columns shorter.                                                 *)
WrapCode(chars, avail) ==
  LET AtLeastOne(n) == IF n > 1 THEN n ELSE 1
      Step(st, c) ==
        IF /\ st.w + CharW(c) > AtLeastOne(IF st.segs = <<>> THEN avail ELSE avail - 2)
           /\ st.cur # <<>>
        THEN [segs |-> Append(st.segs, st.cur), cur |-> <<c>>, w |-> CharW(c)]
        ELSE [st EXCEPT !.cur = Append(@, c), !.w = @ + CharW(c)]
      st == Over(Step, [segs |-> <<>>, cur |-> <<>>, w |-> 0], chars)
  IN Append(st.segs, st.cur)

-----------------------------------------------------------------------------
(* Tables. *)

(* header::truncate_to_width: the result already ends with the dots. *)
TruncateToWidth(s, budget) ==
  IF DispWidth(s) <= budget THEN s
  ELSE IF budget = 0 THEN <<>>
  ELSE LET kept == CHOOSE n \in 0..Len(s) :
                     /\ DispWidth(SubSeq(s, 1, n)) <= budget - 1
                     /\ n = Len(s) \/ DispWidth(SubSeq(s, 1, n + 1)) > budget - 1
       IN Append(SubSeq(s, 1, kept), Dots)

(* The text a cell of w columns shows; spaces fill the rest. *)
FitCell(s, w) ==
  IF w = 0 THEN <<>>
  ELSE IF DispWidth(s) <= w THEN s
  ELSE Append(TruncateToWidth(s, w - 1), Dots)

SeqSum(s) == Over(+, 0, s)

(* Columns in order for as long as they fit; the first one always. *)
DropColumns(cw) ==
  Over(LAMBDA st, c : IF st.on /\ (st.used + c + 3 <= width \/ st.keep = 0)
                          THEN [st EXCEPT !.used = @ + c + 3, !.keep = @ + 1]
                          ELSE [st EXCEPT !.on = FALSE],
           [on |-> TRUE, used |-> 1, keep |-> 0], cw).keep

(* One column off the widest, the leftmost of equals. *)
Shrink(c, n) ==
  LET mi == CHOOSE i \in 1..Len(c) : /\ \A j \in 1..Len(c) : c[j] <= c[i]
                                     /\ \A j \in 1..(i - 1) : c[j] < c[i]
  IN IF SeqSum(c) > n /\ c[mi] > 1 THEN [c EXCEPT ![mi] = @ - 1] ELSE c

TableColumns(rows) ==
  LET ncol == Len(rows[1])
      Widest(i) == LET ws == {DispWidth(rows[r][i]) : r \in DOMAIN rows}
                   IN CHOOSE w \in ws : \A v \in ws : v <= w
      cw == [i \in 1..ncol |-> Widest(i)]
      budget == IF width > 3 * ncol + 1 THEN width - (3 * ncol + 1) ELSE 0
      over == SeqSum(cw) - budget
  IN IF over <= 0 THEN cw
     ELSE IF budget >= ncol
     THEN Over(LAMBDA c, k : Shrink(c, budget), cw, [k \in 1..over |-> k])
     ELSE SubSeq(cw, 1, DropColumns(cw))

(* The rows are padded to the header's columns by the parser. *)
RenderTable(head, body) ==
  LET rows == <<head>> \o body
      cols == TableColumns(rows)
      cut == Len(cols) < Len(head)
      frame == SeqSum(cols) + 3 * Len(cols) + 1 + (IF cut THEN 1 ELSE 0)
      Border == Line("table", frame, FALSE, <<>>)
      DataRow(cells) ==
        LET shown == FlattenSeq([i \in DOMAIN cols |-> FitCell(cells[i], cols[i])])
        IN Line("table", frame - DispWidth(shown), cut, shown)
  IN IF head = <<>> THEN <<>>
     ELSE <<Border, DataRow(head), Border>>
          \o [r \in DOMAIN body |-> DataRow(body[r])] \o <<Border>>

-----------------------------------------------------------------------------
(* Block emitters: from one state of Md to the next. *)

BlankAfter(m) == IF m.out # <<>> /\ IsBlank(Last(m.out)) THEN m
            ELSE [m EXCEPT !.out = Append(@, BlankLine)]

PushWrapped(m, first, mark) ==
  LET ls == WrapRuns(m.runs, first)
  IN [m EXCEPT !.out = @ \o [i \in DOMAIN ls |->
                               Line("text", first, mark /\ i = 1, ls[i])],
               !.runs = <<>>]

EmitHeading(m) == BlankAfter(PushWrapped(BlankAfter(m), 2, FALSE))

(* A marker is the columns it takes, indentation included; 0 is no marker. *)
NumeralWidth(n) == 1 + Cardinality({k \in 1..9 : 10 ^ k <= n})
MarkerWidth(depth, n) == 2 * depth + (IF n = Bullet THEN 2 ELSE NumeralWidth(n) + 2)

EmitPara(m) ==
  IF m.runs = <<>> /\ m.marker = 0 THEN m
  ELSE [PushWrapped(m, 2 * m.quote + m.marker, m.marker > 0) EXCEPT !.marker = 0]

(* Without code_buf the block still has one empty line. *)
EmitCode(m) ==
  LET qw == 2 * m.quote
      CodeLine(chars) ==
        LET segs == WrapCode(chars, width - (2 + qw))
        IN [i \in DOMAIN segs |-> Line("code", qw + (IF i = 1 THEN 2 ELSE 4), FALSE, segs[i])]
      body == IF m.code = <<>> THEN <<CodeLine(<<>>)>>
              ELSE [i \in DOMAIN m.code |-> CodeLine(m.code[i])]
      lang == IF m.lang > 0 THEN <<Line("lang", qw + 2 + m.lang, FALSE, <<>>)>> ELSE <<>>
      b == BlankAfter(m)
  IN BlankAfter([b EXCEPT !.out = @ \o lang \o FlattenSeq(body), !.code = <<>>])

EmitTable(m) == BlankAfter([m EXCEPT !.out = @ \o RenderTable(m.head, m.rows), !.inTable = FALSE])

FirstBlanks(o) == Cardinality({i \in DOMAIN o : \A j \in 1..i : IsBlank(o[j])})
LastBlanks(o) == Cardinality({i \in DOMAIN o : \A j \in i..Len(o) : IsBlank(o[j])})
Trimmed(o) == LET t == SubSeq(o, FirstBlanks(o) + 1, Len(o) - LastBlanks(o))
              IN IF t = <<>> THEN <<Line("empty", 4, FALSE, <<>>)>> ELSE t

-----------------------------------------------------------------------------
(* The document. *)

NewMd == [out |-> <<>>, runs |-> <<>>, quote |-> 0, lists |-> <<>>, marker |-> 0,
          inCode |-> FALSE, lang |-> 0, code |-> <<>>, inTable |-> FALSE, head |-> <<>>, rows |-> <<>>, inHead |-> FALSE,
          cell |-> <<>>, row |-> <<>>, link |-> FALSE]

MdInit ==
  /\ \E w \in Widths : width = IF w > 8 THEN w ELSE 8
  /\ md = NewMd
  /\ open = << [k |-> "doc", tight |-> FALSE] >>
  /\ last = "start" /\ blocks = 0 /\ texts = 0 /\ celled = {} /\ html = {} /\ finished = FALSE

Top == Last(open)
In(kinds) == ~finished /\ Top.k \in kinds

(* Tight items hold inline text themselves; other items hold paragraphs. *)
Inline == \/ In({"para", "heading", "cell", "link"})
          \/ In({"item"}) /\ Top.tight /\ last \in {"item", "inline", "break", "code", "heading", "rule", "html"}

StartTag(k, tight) ==
  /\ Len(open) <= MaxDepth
  /\ open' = Append(open, [k |-> k, tight |-> tight])
  /\ last' = k

StartBlock(k, tight) ==
  /\ In({"doc", "quote", "item"}) /\ last # "break"
  /\ blocks < MaxBlocks
  /\ blocks' = blocks + 1
  /\ StartTag(k, tight)
  /\ UNCHANGED <<width, texts, celled, html, finished>>

EndTag(k) ==
  /\ In({k}) /\ last # "break"
  /\ open' = Front(open)
  /\ last' = IF k = "link" THEN "inline" ELSE IF k \in {"code", "heading"} THEN k ELSE "end"
  /\ UNCHANGED <<width, blocks, texts, celled, html, finished>>

InnerTag(k, within) ==
  /\ In(within) /\ StartTag(k, FALSE)
  /\ UNCHANGED <<width, blocks, texts, celled, html, finished>>

StartHeading == StartBlock("heading", FALSE) /\ md' = md
EndHeading == EndTag("heading") /\ md' = EmitHeading(md)

StartPara == ~(Top.k = "item" /\ Top.tight) /\ StartBlock("para", FALSE) /\ md' = md
EndPara == last = "inline" /\ EndTag("para") /\ md' = EmitPara(md)

StartCode(lang) == /\ StartBlock("code", FALSE)
                   /\ md' = [md EXCEPT !.inCode = TRUE, !.lang = lang, !.code = <<>>]
EndCode == EndTag("code") /\ md' = [EmitCode(md) EXCEPT !.inCode = FALSE]

StartQuote == StartBlock("quote", FALSE) /\ md' = [md EXCEPT !.quote = @ + 1]
EndQuote == EndTag("quote") /\ md' = [md EXCEPT !.quote = @ - 1]

(* The text of the item around a nested list is flushed first. *)
StartList(n, tight) ==
  /\ StartBlock("list", tight)
  /\ LET m == IF md.lists # <<>> /\ md.runs # <<>> THEN EmitPara(md) ELSE md
     IN md' = [m EXCEPT !.lists = Append(@, n)]
EndList ==
  /\ last # "list" /\ EndTag("list")
  /\ LET m == [md EXCEPT !.lists = Front(@)]
     IN md' = IF m.lists = <<>> THEN BlankAfter(m) ELSE m

StartItem ==
  /\ In({"list"}) /\ (last = "list" \/ blocks < MaxBlocks)
  /\ StartTag("item", Top.tight)
  /\ blocks' = IF last = "list" THEN blocks ELSE blocks + 1
  /\ UNCHANGED <<width, texts, celled, html, finished>>
  /\ LET n == Last(md.lists)
     IN md' = [md EXCEPT !.marker = MarkerWidth(Len(md.lists) - 1, n),
                         !.lists[Len(md.lists)] = IF n = Bullet THEN n ELSE n + 1]

EndItem == EndTag("item") /\ md' = EmitPara(md)

(* One link in a document. *)
StartLink == last \in {"inline", "cell", "item"} /\ ~md.link /\ Inline /\ InnerTag("link", {Top.k}) /\ md' = [md EXCEPT !.link = TRUE]
EndLink == EndTag("link") /\ md' = [md EXCEPT !.runs = @ \o Url]

(* One table in a document, of at most three columns and one row. *)
StartTable == md.head = <<>> /\ StartBlock("table", FALSE) /\ md' = [md EXCEPT !.inTable = TRUE, !.head = <<>>, !.rows = <<>>]
EndTable == EndTag("table") /\ md.head # <<>> /\ md' = EmitTable(md)
StartHead == last = "table" /\ InnerTag("head", {"table"}) /\ md' = [md EXCEPT !.inHead = TRUE]
EndHead == /\ EndTag("head") /\ md.row # <<>>
           /\ md' = [md EXCEPT !.head = md.row, !.row = <<>>, !.inHead = FALSE]
StartRow == md.inTable /\ md.head # <<>> /\ Len(md.rows) < 1
            /\ InnerTag("row", {"table"}) /\ md' = [md EXCEPT !.row = <<>>]
EndRow == /\ Len(md.row) = Len(md.head) /\ EndTag("row")
          /\ md' = IF md.inHead THEN md ELSE [md EXCEPT !.rows = Append(@, md.row), !.row = <<>>]
StartCell == /\ Len(md.row) < (IF md.inHead THEN 3 ELSE Len(md.head))
             /\ InnerTag("cell", {"head", "row"}) /\ md' = [md EXCEPT !.cell = <<>>]
EndCell == EndTag("cell") /\ md' = [md EXCEPT !.row = Append(@, md.cell), !.cell = <<>>]

(* Text, or inline code. *)
Text ==
  /\ Inline \/ In({"code"})
  /\ texts < Len(Words)
  /\ LET w == Words[texts + 1]
     IN /\ md' = IF md.inCode THEN [md EXCEPT !.code = Append(@, w)]
                 ELSE IF md.inTable THEN [md EXCEPT !.cell = @ \o w]
                 ELSE [md EXCEPT !.runs = @ \o w]
        /\ celled' = IF md.inTable THEN celled \cup Range(w) ELSE celled
  /\ texts' = texts + 1
  /\ last' = "inline"
  /\ UNCHANGED <<width, open, blocks, html, finished>>

(* A tag within a text, or a block of HTML: event() has no use for either.   *)
DropsHtml ==
  /\ texts < Len(Words)
  /\ texts' = texts + 1 /\ html' = html \cup {texts + 1}
  /\ UNCHANGED <<width, md, open, celled, finished>>

InlineHtml == Inline /\ DropsHtml /\ last' = "inline" /\ UNCHANGED blocks
HtmlBlock ==
  /\ In({"doc", "quote", "item"}) /\ last # "break" /\ blocks < MaxBlocks
  /\ DropsHtml
  /\ blocks' = blocks + 1 /\ last' = "html"

SoftBreak ==
  /\ Inline /\ last = "inline" /\ Top.k \in {"para", "item"} /\ texts < Len(Words)
  /\ md' = [md EXCEPT !.runs = Append(@, " ")]
  /\ last' = "break"
  /\ UNCHANGED <<width, open, blocks, texts, celled, html, finished>>

Rule ==
  /\ In({"doc", "quote", "item"}) /\ last # "break" /\ blocks < MaxBlocks
  /\ LET n == IF width < 60 THEN width ELSE 60
         b == BlankAfter(md)
     IN md' = BlankAfter([b EXCEPT !.out = Append(@, Line("rule", n, FALSE, <<>>))])
  /\ blocks' = blocks + 1 /\ last' = "rule"
  /\ UNCHANGED <<width, open, texts, celled, html, finished>>

Finish ==
  /\ In({"doc"}) /\ finished' = TRUE
  /\ md' = [md EXCEPT !.out = Trimmed(@)]
  /\ UNCHANGED <<width, open, last, blocks, texts, celled, html>>

MdNext ==
  \/ StartHeading \/ EndHeading \/ StartPara \/ EndPara
  \/ \E lang \in {0, 4} : StartCode(lang)
  \/ EndCode \/ StartQuote \/ EndQuote
  \/ \E l \in ListKinds : StartList(l.n, l.tight)
  \/ EndList \/ StartItem \/ EndItem \/ StartLink \/ EndLink
  \/ StartTable \/ EndTable \/ StartHead \/ EndHead \/ StartRow \/ EndRow
  \/ StartCell \/ EndCell \/ Text \/ InlineHtml \/ HtmlBlock \/ SoftBreak \/ Rule \/ Finish

MdSpec == MdInit /\ [][MdNext]_mdVars

-----------------------------------------------------------------------------
(* Properties. *)

Occurrences(c) ==
  Over(LAMBDA n, l : n + Cardinality({i \in DOMAIN l.body : l.body[i] = c}), 0, md.out)

(* A character of the words but a space stands in them once, and nowhere     *)
(* else: where it is on the page tells what became of it.                    *)
Labelled ==
  \A k \in DOMAIN Words : \A i \in DOMAIN Words[k] :
    Words[k][i] # " " =>
      /\ \A l \in DOMAIN Words : \A j \in DOMAIN Words[l] : Words[l][j] = Words[k][i] => l = k /\ j = i
      /\ Words[k][i] # Dots /\ Words[k][i] \notin Range(Url)

(* What the document says is shown, once: text outside tables always, text  *)
(* of a cell unless its table says so by dots in a cell or at its edge.      *)
(* HTML is no text: it is left out whole, and nothing on the page says so.   *)
LossIsMarked ==
  finished =>
    \A k \in 1..texts : \A c \in Range(Words[k]) \ {" "} :
      IF k \in html THEN Occurrences(c) = 0
      ELSE \/ Occurrences(c) = 1
           \/ /\ c \in celled /\ Occurrences(c) = 0
              /\ \E i \in DOMAIN md.out : /\ md.out[i].kind = "table"
                                          /\ md.out[i].mark \/ Contains(md.out[i].body, Dots)

(* A line is as wide as the pager, or wider by the one column of a wide      *)
(* character, unless its prefix leaves room for a single character; a table  *)
(* fits if the pager has room for one column of text in each of its columns. *)
(* (wrap_runs, wrap_styled_code, render_table.  render's comment has lines   *)
(* of code "kept intact": emit_code cuts them, and its tests want them cut.) *)
LinesFit ==
  finished => \A i \in DOMAIN md.out :
    LET l == md.out[i]
        extra == IF Range(l.body) \cap Wide # {} THEN 1 ELSE 0
    IN CASE l.kind \in {"text", "code"} -> LineWidth(l) <= width + extra \/ Len(l.body) <= 1
         [] l.kind \in {"rule", "table"} -> LineWidth(l) <= width \/ width < 4 * Len(md.head) + 1
         [] OTHER -> TRUE
=============================================================================
