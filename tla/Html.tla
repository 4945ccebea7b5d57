-------------------------------- MODULE Html --------------------------------
(***************************************************************************)
(* The text extractor, kernel/html.c: one pass over a page that keeps a    *)
(* pending text, a stack of lists and a few flags, and turns the text into *)
(* lines.  A page is a sequence of tags, words and entities; words are     *)
(* numbered in the order of the page, and there is a space before each.    *)
(***************************************************************************)
EXTENDS Integers, Sequences, FiniteSets

CONSTANTS
    Fragments,    \* what pages are put together from
    MaxFragments,
    LineLen,      \* HTML_LINE_LEN, less one
    TextCap,      \* sizeof(st.text), less one
    MaxLines,     \* HTML_MAX_LINES
    ListDepth,    \* HTML_LIST_DEPTH
    QuoteDepth    \* 4

HtmlAssumption ==
    /\ {MaxFragments, LineLen, TextCap, MaxLines, ListDepth, QuoteDepth} \subseteq Nat \ {0}
    /\ Fragments \subseteq Seq(STRING)

VARIABLES
    rest,         \* what is left of the fragment being parsed
    fragments,    \* how many have begun
    ended,        \* whether html_parse has returned
    doc,          \* *out: lines, truncated; and the words cut off at the end of a line
                  \* or written over
    text,         \* the pending text: words, and the pieces below
    lists,        \* list_stack and list_count up to list_depth
    flags,        \* link, the anchor st.link is of; in_anchor, in_script, in_style,
                  \* header_level and blockquote_depth
    words,        \* history: how the words so far were written
    past          \* history: lists so far and the open ones, how deep, whether anchors nest

htmlVars == <<rest, fragments, ended, doc, text, lists, flags, words, past>>

Space == 0
CellBar == -1
Image == -2
Rule == -3
Sign == -4   \* the character of an entity, or an entity written out
Junk == -5   \* what an earlier line left in st.text
Nul == -6    \* where the reader of a line stops

HtmlInit ==
    /\ rest = << >> /\ fragments = 0 /\ ended = FALSE
    /\ doc = [lines |-> << >>, truncated |-> FALSE, cut |-> {}]
    /\ text = << >> /\ lists = << >>
    /\ flags = [link |-> 0, anchor |-> FALSE, script |-> FALSE, style |-> FALSE,
                header |-> 0, quotes |-> 0]
    /\ words = << >>
    /\ past = [lists |-> 0, open |-> << >>, deepest |-> 0, nested |-> FALSE]

-----------------------------------------------------------------------------
(* flush_line and flush_list_item *)

(* Without the spaces at its end *)
Trim(t) ==
    LET ends(n) == (n = 0 \/ t[n] # Space) /\ \A i \in n + 1 .. Len(t) : t[i] = Space
    IN  SubSeq(t, 1, CHOOSE n \in 0 .. Len(t) : ends(n))

Top == lists[Len(lists)]
Numbered == lists # << >> /\ Top.kind = "ol"

(* How a line begins *)
Indent == flags.quotes + Len(lists)
NoMark == [list |-> 0, number |-> 0]
AsLine == [indent |-> Indent, mark |-> NoMark]
AsItem ==
    [indent |-> Indent + (IF lists = << >> THEN 0 ELSE 1),
     mark |-> IF Numbered THEN [list |-> past.open[Len(past.open)], number |-> Top.count + 1]
              ELSE NoMark]

Line(shown, mark) ==
    [text |-> shown, mark |-> mark, header |-> flags.header,
     link |-> IF flags.anchor THEN flags.link ELSE 0]

(* Bug: what precedes a separator is dropped with the spaces. *)
FlushedShort(d, pending, how) ==
    LET t == IF pending # << >> /\ pending[Len(pending)] = CellBar THEN << >> ELSE Trim(pending)
    IN  IF t = << >> \/ Len(d.lines) >= MaxLines THEN d
        ELSE [d EXCEPT !.lines = Append(@, Line(t, how.mark))]

(* *out after a flush.  What a line has no room for is cut off. *)
Flushed(d, pending, how) ==
    LET t == Trim(pending)
        room == IF how.indent < LineLen THEN LineLen - how.indent ELSE 0
        n == IF Len(t) < room THEN Len(t) ELSE room
    IN  IF t = << >> THEN d
        ELSE IF Len(d.lines) >= MaxLines THEN [d EXCEPT !.truncated = TRUE]
        ELSE [d EXCEPT !.lines = Append(@, Line(SubSeq(t, 1, n), how.mark)),
                       !.cut = @ \cup {t[i] : i \in n + 1 .. Len(t)}]

FlushLine == doc' = Flushed(doc, text, AsLine) /\ text' = << >>

-----------------------------------------------------------------------------
(* The branches of html_parse.  Names match by their first letters, in the *)
(* order of the code: "pre" is taken for "p", so that in_pre is never set, *)
(* and "header" for "head". *)

Breaks == {"p", "pre", "br", "div", "section", "/p", "/pre", "/div", "/section", "/header"}
Headings == {"h1", "h2"}
Skipped == {"head", "header", "title", "meta", "/head", "/title", "/br", "comment", "doctype",
            "b", "/b"}

Break(t) ==
    /\ t \in Breaks \cup {"tr", "/tr"}
    /\ FlushLine
    /\ UNCHANGED <<lists, flags, words, past>>

(* Bug: the text before a heading is not put out first. *)
HeadingLate(t) ==
    /\ t \in Headings
    /\ flags' = [flags EXCEPT !.header = 1]
    /\ UNCHANGED <<doc, text, lists, words, past>>

Heading(t) ==
    /\ t \in Headings
    /\ FlushLine
    /\ flags' = [flags EXCEPT !.header = 1]
    /\ UNCHANGED <<lists, words, past>>

HeadingEnd(t) ==
    /\ t \in {"/h1", "/h2"}
    /\ FlushLine
    /\ flags' = [flags EXCEPT !.header = 0]
    /\ UNCHANGED <<lists, words, past>>

(* Bug: the counter of the list that was at this depth before goes on. *)
ListPushedKeeping(kind) ==
    LET last == IF doc.lines = << >> THEN NoMark ELSE doc.lines[Len(doc.lines)].mark
    IN  Append(lists, [kind |-> kind, count |-> last.number])

ListPushed(kind) ==
    IF Len(lists) < ListDepth THEN Append(lists, [kind |-> kind, count |-> 0]) ELSE lists

List(t) ==
    /\ t \in {"ul", "ol"}
    /\ FlushLine
    /\ lists' = ListPushed(t)
    /\ past' = [past EXCEPT !.lists = @ + 1, !.open = Append(@, past.lists + 1),
                            !.deepest = IF @ > Len(past.open) THEN @ ELSE Len(past.open) + 1]
    /\ UNCHANGED <<flags, words>>

Popped(s) == IF s = << >> THEN s ELSE SubSeq(s, 1, Len(s) - 1)

(* The end of any list ends the one on top. *)
ListEnd(t) ==
    /\ t \in {"/ul", "/ol"}
    /\ FlushLine
    /\ lists' = Popped(lists)
    /\ past' = [past EXCEPT !.open = Popped(@)]
    /\ UNCHANGED <<flags, words>>

ItemStart(t) ==
    /\ t = "li"
    /\ FlushLine
    /\ UNCHANGED <<lists, flags, words, past>>

(* Only an item that becomes a line counts. *)
ItemEnd(t) ==
    /\ t = "/li"
    /\ doc' = Flushed(doc, text, AsItem) /\ text' = << >>
    /\ lists' = IF Numbered /\ Len(doc'.lines) > Len(doc.lines)
                THEN [lists EXCEPT ![Len(lists)].count = @ + 1] ELSE lists
    /\ UNCHANGED <<flags, words, past>>

(* Without room for it a rule is left out, and that is no truncation. *)
HorizontalRule(t) ==
    /\ t = "hr"
    /\ text' = << >>
    /\ doc' = LET d == Flushed(doc, text, AsLine)
              IN  IF Len(d.lines) >= MaxLines THEN d
                  ELSE [d EXCEPT !.lines = Append(@, [text |-> <<Rule>>, mark |-> NoMark,
                                                      header |-> 0, link |-> 0])]
    /\ UNCHANGED <<lists, flags, words, past>>

Quote(t) ==
    /\ t \in {"blockquote", "/blockquote"}
    /\ FlushLine
    /\ flags' = [flags EXCEPT !.quotes = IF t = "blockquote"
                                         THEN IF @ < QuoteDepth THEN @ + 1 ELSE @
                                         ELSE IF @ > 0 THEN @ - 1 ELSE @]
    /\ UNCHANGED <<lists, words, past>>

(* push_char *)
With(t, piece) == IF Len(t) < TextCap THEN Append(t, piece) ELSE t

TableCell(t) ==
    /\ t \in {"td", "th", "/td", "/th"}
    /\ text' = IF text # << >> THEN With(text, CellBar) ELSE text
    /\ UNCHANGED <<doc, lists, flags, words, past>>

Img(t) ==
    /\ t = "img"
    /\ text' = With(text, Image)
    /\ UNCHANGED <<doc, lists, flags, words, past>>

(* An anchor with a href, which becomes st.link, or without *)
Anchor(t) ==
    /\ t \in {"a href", "a"}
    /\ flags' = [flags EXCEPT !.anchor = TRUE,
                              !.link = IF t = "a href" THEN Len(words) + 1 ELSE 0]
    /\ past' = [past EXCEPT !.nested = @ \/ flags.anchor]
    /\ UNCHANGED <<doc, text, lists, words>>

(* Bug: the text of the anchor waits for what follows it. *)
AnchorEndWaits(t) ==
    /\ t = "/a"
    /\ flags' = [flags EXCEPT !.anchor = FALSE, !.link = 0]
    /\ UNCHANGED <<doc, text, lists, words, past>>

AnchorEnd(t) ==
    /\ t = "/a"
    /\ FlushLine
    /\ flags' = [flags EXCEPT !.anchor = FALSE, !.link = 0]
    /\ UNCHANGED <<lists, words, past>>

Script(t) ==
    /\ t \in {"script", "/script", "style", "/style"}
    /\ flags' = IF t \in {"script", "/script"} THEN [flags EXCEPT !.script = t = "script"]
                ELSE [flags EXCEPT !.style = t = "style"]
    /\ UNCHANGED <<doc, text, lists, words, past>>

Skip(t) ==
    /\ \/ t \in Skipped
       \/ t \in {"word", "entity"} /\ (flags.script \/ flags.style)
    /\ UNCHANGED <<doc, text, lists, flags, words, past>>

(* A space, unless the text ends with one, and a word *)
Write(t) ==
    LET spaced == IF text # << >> /\ text[Len(text)] # Space THEN With(text, Space) ELSE text
        full == Len(spaced) >= TextCap
        before == IF full THEN << >> ELSE spaced
        n == Len(words) + 1
    IN  /\ t = "word" /\ ~flags.script /\ ~flags.style
        /\ doc' = IF full THEN Flushed(doc, spaced, AsLine) ELSE doc
        /\ text' = Append(before, n)
        /\ words' = Append(words, [header |-> flags.header,
                                   link |-> IF flags.anchor THEN flags.link ELSE 0,
                                   behind |-> \E k \in DOMAIN before : before[k] = Nul])
        /\ UNCHANGED <<lists, flags, past>>

(* decode_entity is handed &st.tlen as the length of its one byte dec.  In *)
(* a text that is empty it fills dec; otherwise dec stays 0, and the byte  *)
(* is written that far behind it on the stack, to a place of the pending   *)
(* text or to one nobody reads.  A place of the text is passed over, and   *)
(* dec goes behind it; without room for it there the '&' and what follows  *)
(* are plain text, after a flush.                                          *)
Entity(t) ==
    /\ t = "entity" /\ ~flags.script /\ ~flags.style
    /\ \E hit \in 0 .. Len(text), left \in {Nul, Junk} :
          LET struck == [k \in DOMAIN text |-> IF k = hit THEN Sign ELSE text[k]]
              passed == Append(struck, left)
              stored == Len(passed) < TextCap
              d == [doc EXCEPT !.cut = @ \cup {text[k] : k \in DOMAIN text \cap {hit}}]
          IN  /\ doc' = IF stored THEN d ELSE Flushed(d, passed, AsLine)
              /\ text' = IF stored THEN Append(passed, IF text = << >> THEN Sign ELSE Nul) ELSE <<Sign>>
    /\ UNCHANGED <<lists, flags, words, past>>

Token(t) ==
    \/ Break(t) \/ Heading(t) \/ HeadingEnd(t) \/ List(t) \/ ListEnd(t) \/ ItemStart(t)
    \/ ItemEnd(t) \/ HorizontalRule(t) \/ Quote(t) \/ TableCell(t) \/ Img(t) \/ Anchor(t)
    \/ AnchorEnd(t) \/ Script(t) \/ Skip(t) \/ Write(t) \/ Entity(t)

Parse ==
    /\ rest # << >>
    /\ Token(Head(rest))
    /\ rest' = Tail(rest)
    /\ UNCHANGED <<fragments, ended>>

(* The page goes on. *)
More ==
    /\ rest = << >> /\ ~ended /\ fragments < MaxFragments
    /\ \E f \in Fragments : rest' = f
    /\ fragments' = fragments + 1
    /\ UNCHANGED <<ended, doc, text, lists, flags, words, past>>

End ==
    /\ rest = << >> /\ ~ended
    /\ FlushLine
    /\ ended' = TRUE
    /\ UNCHANGED <<rest, fragments, lists, flags, words, past>>

HtmlNext == Parse \/ More \/ End

HtmlSpec == HtmlInit /\ [][HtmlNext]_htmlVars

-----------------------------------------------------------------------------
(* Properties *)

HtmlTypeOK ==
    /\ Len(doc.lines) <= MaxLines /\ Len(text) <= TextCap
    /\ Len(lists) <= ListDepth /\ flags.quotes <= QuoteDepth
    /\ \A i \in DOMAIN lists : lists[i] \in [kind : {"ul", "ol"}, count : 0 .. MaxLines]

(* The lines, and the pending text after them *)
Rows == 1 .. Len(doc.lines) + 1
Row(i) == IF i <= Len(doc.lines) THEN doc.lines[i].text ELSE text

(* Every word outside scripts is in one line, in the order of the page,    *)
(* but for what a line has no room for, what follows the last line, and a  *)
(* word the character of an entity was written over.  The word can be      *)
(* read, unless an entity stands before it in the pending text.            *)
TextKept ==
    /\ \A i, j \in Rows : \A k \in DOMAIN Row(i), m \in DOMAIN Row(j) :
          /\ i < j \/ (i = j /\ k < m)
          /\ Row(i)[k] > Space /\ Row(j)[m] > Space
          => Row(i)[k] < Row(j)[m]
    /\ doc.truncated \/ \A n \in DOMAIN words \ doc.cut :
                           \E i \in Rows : \E k \in DOMAIN Row(i) : Row(i)[k] = n
    /\ \A i \in Rows : \A k \in DOMAIN Row(i) :
          Row(i)[k] > Space /\ (\E j \in 1 .. k - 1 : Row(i)[j] = Nul) => words[Row(i)[k]].behind

(* A word is in a header line if the parser read it in a heading, and only *)
(* then; a word it read in an anchor can be clicked, and leads where that  *)
(* anchor does, unless a second one began within the first.                *)
MarkedAsWritten ==
    \A i \in DOMAIN doc.lines :
        LET l == doc.lines[i]
        IN  \A k \in DOMAIN l.text : l.text[k] > Space =>
              /\ words[l.text[k]].header = l.header
              /\ words[l.text[k]].link \in {0, l.link} \/ past.nested

(* The items of a numbered list that become lines are numbered 1, 2, and   *)
(* so on, also around lists within it, if lists do not nest too deep.      *)
ItemsCounted ==
    past.deepest <= ListDepth =>
        \A i \in DOMAIN doc.lines :
            LET m == doc.lines[i].mark
            IN  m.list # 0 =>
                  m.number = 1 + Cardinality({j \in 1 .. i - 1 : doc.lines[j].mark.list = m.list})

(* The text is in the lines, in the headings and links it was read in, and *)
(* lists count from one.                                                   *)
PageSound == TextKept /\ MarkedAsWritten /\ ItemsCounted
=============================================================================
