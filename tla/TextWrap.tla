------------------------------- MODULE TextWrap -------------------------------
(***************************************************************************)
(* The two wrapping algorithms: ui_wrap_hard of src/ui_wrap.h, which breaks *)
(* names anywhere, and about_wrap of src/view_about.c, which breaks at      *)
(* spaces; with the scrolling of the About view.  The width of a character  *)
(* is injected, as in the code; drawing is left out.                       *)
(***************************************************************************)
EXTENDS Integers, Sequences, SequencesExt

CONSTANTS
  Texts,      \* what there is to show: sequences of characters
  Width,      \* width of each character, at least 1
  MaxWidth,   \* ABOUT_TEXT_W, and the 124 pixels of ui_draw_wrapped_centered
  HardCap, HardLines,    \* UI_WRAP_LINE_CAP - 1, UI_WRAP_MAX_LINES
  AboutCap, AboutLines,  \* ABOUT_LINE_CHARS - 1, ABOUT_MAX_LINES
  Visible     \* ABOUT_VISIBLE

\* A line is full by its width before its buffer is: about_wrap measures a line after it
\* has cut it to the buffer, and what was cut off is not on the next line either.
ASSUME RoomForALine == \A c \in DOMAIN Width : MaxWidth < AboutCap * Width[c]

Space == " "
Break == "\n"

Chars == DOMAIN Width

ASSUME WrapAssumption ==
  /\ {MaxWidth, HardCap, HardLines, AboutCap, AboutLines, Visible} \subseteq Nat \ {0}
  /\ Width \in [Chars -> Nat \ {0}] /\ {Space, Break} \subseteq Chars
  /\ Texts \subseteq Seq(Chars)

StrWidth(s) ==
  LET w[n \in 0..Len(s)] == IF n = 0 THEN 0 ELSE w[n - 1] + Width[s[n]]
  IN  w[Len(s)]

(***************************************************************************)
(* ui_wrap_hard.                                                           *)
(***************************************************************************)

\* The first line of s: as many characters as fit, at least one.  Mutant: the character
\* that does not fit is taken off s, too.
FirstFits(s, cap) ==
  CHOOSE j \in 1..Len(s) :
    /\ j = 1 \/ (j <= cap /\ StrWidth(SubSeq(s, 1, j)) <= MaxWidth)
    /\ j = Len(s) \/ j = cap \/ StrWidth(SubSeq(s, 1, j + 1)) > MaxWidth
RestLoses(s, j) == SubSeq(s, j + 2, Len(s))
Rest(s, j) == SubSeq(s, j + 1, Len(s))

\* One line more, while something is left and there is room for it.
HardLine(w, cap, max) ==
  IF w.rest = <<>> \/ Len(w.lines) >= max THEN w
  ELSE LET j == FirstFits(w.rest, cap)
       IN  [rest |-> Rest(w.rest, j), lines |-> Append(w.lines, SubSeq(w.rest, 1, j))]

\* The loop: each round takes at least one character, so Len(s) of them are enough.
HardFrom(s, lines, cap, max) ==
  LET w[n \in 0..Len(s)] ==
        IF n = 0 THEN [rest |-> s, lines |-> lines] ELSE HardLine(w[n - 1], cap, max)
  IN  w[Len(s)].lines

ui_wrap_hard(s) == HardFrom(s, <<>>, HardCap, HardLines)

(***************************************************************************)
(* about_wrap.                                                             *)
(***************************************************************************)

Letters == DOMAIN Width \ {Space, Break}

\* How many characters of s from p on are among `chars`, in a row.
RunOf(s, p, chars) ==
  (CHOOSE q \in p..Len(s) + 1 :
     /\ \A k \in p..q - 1 : s[k] \in chars
     /\ q = Len(s) + 1 \/ s[q] \notin chars) - p

Least(a, b) == IF a < b THEN a ELSE b

\* The line so far with the word after it: a space in between, unless the line is empty
\* or an indent; what is over the capacity is cut off.
Candidate(cur, word) ==
  LET sep == IF cur # <<>> /\ Len(cur) < AboutCap /\ Last(cur) # Space THEN <<Space>> ELSE <<>>
      l   == cur \o sep \o word
  IN  SubSeq(l, 1, Least(Len(l), AboutCap))

At(p, lines, cur) == [p |-> p, lines |-> lines, cur |-> cur]

\* The spaces at the start of a line ...
Indent(s, w) ==
  LET k == Least(RunOf(s, w.p, {Space}), AboutCap)
  IN  At(w.p + k, w.lines, SubSeq(s, w.p, w.p + k - 1))

\* ... and a word, with the space after it.
Word(s, w) ==
  LET wl   == RunOf(s, w.p, Letters)
      word == SubSeq(s, w.p, w.p + wl - 1)
      next == w.p + wl + (IF w.p + wl <= Len(s) /\ s[w.p + wl] = Space THEN 1 ELSE 0)
      cand == Candidate(w.cur, word)
  IN  IF StrWidth(cand) <= MaxWidth THEN At(next, w.lines, cand)
      ELSE IF w.cur # <<>>
      THEN At(next, Append(w.lines, w.cur), SubSeq(word, 1, Least(wl, AboutCap)))
      ELSE At(next, HardFrom(word, w.lines, AboutCap, AboutLines), <<>>)

\* One round of the loop, and the loop: again each takes at least one character.
AboutRound(s, w) ==
  IF w.p > Len(s) \/ Len(w.lines) >= AboutLines THEN w
  ELSE IF s[w.p] = Break THEN At(w.p + 1, Append(w.lines, w.cur), <<>>)
  ELSE IF w.cur = <<>> /\ s[w.p] = Space THEN Indent(s, w)
  ELSE Word(s, w)

AboutLoop(s) ==
  LET w[n \in 0..Len(s)] == IF n = 0 THEN At(1, <<>>, <<>>) ELSE AboutRound(s, w[n - 1])
  IN  w[Len(s)]

about_wrap(s) ==
  LET w == AboutLoop(s)
  IN  IF w.cur # <<>> /\ Len(w.lines) < AboutLines THEN Append(w.lines, w.cur) ELSE w.lines

(***************************************************************************)
(* The screens: a wrapped message, and the About view with its scrolling.  *)
(***************************************************************************)

VARIABLES
  text,    \* what the screen has to show
  screen,  \* what was drawn last: "none", "message", "about"
  lines,   \* the lines it was drawn from
  scroll   \* AboutModel.scroll

vars == <<text, screen, lines, scroll>>

Init == text \in Texts /\ screen = "none" /\ lines = <<>> /\ scroll = 0

DrawMessage ==
  /\ screen = "none" /\ screen' = "message"
  /\ lines' = ui_wrap_hard(text)
  /\ UNCHANGED <<text, scroll>>

MaxScroll(n) == IF n > Visible THEN n - Visible ELSE 0

\* about_draw_cb: the lines are made again, the scroll position is brought in range.
DrawAbout ==
  /\ screen \in {"none", "about"} /\ screen' = "about"
  /\ lines' = about_wrap(text)
  /\ scroll' = Least(scroll, MaxScroll(Len(lines')))
  /\ UNCHANGED text

\* about_input_cb.  Before the first draw there are no lines to scroll over.
Scroll ==
  /\ screen \in {"none", "about"}
  /\ \/ scroll < MaxScroll(Len(lines)) /\ scroll' = scroll + 1
     \/ scroll > 0 /\ scroll' = scroll - 1
  /\ UNCHANGED <<text, screen, lines>>

Next == DrawMessage \/ DrawAbout \/ Scroll

Spec == Init /\ [][Next]_vars

(***************************************************************************)
(* Properties.                                                             *)
(***************************************************************************)

\* The comment of ui_wrap_hard: every character up to the budget appears once, in order;
\* no line is wider than the screen unless it is a single character; and no line could
\* have taken the next one.
HardWrapped ==
  screen = "message" =>
    LET shown == FlattenSeq(lines)
    IN  /\ IsPrefix(shown, text) /\ Len(lines) <= HardLines
        /\ shown = text \/ Len(lines) = HardLines
        /\ \A k \in DOMAIN lines :
             /\ Len(lines[k]) \in 1..HardCap
             /\ Len(lines[k]) = 1 \/ StrWidth(lines[k]) <= MaxWidth
             /\ k < Len(lines) =>
                  \/ Len(lines[k]) = HardCap
                  \/ StrWidth(Append(lines[k], lines[k + 1][1])) > MaxWidth

\* The words of a text, and those of lines put below each other.
Words(s) ==
  LET w[n \in 0..Len(s)] ==
        IF n = 0 THEN <<>>
        ELSE IF s[n] \notin Letters THEN w[n - 1]
        ELSE IF n > 1 /\ s[n - 1] \in Letters
        THEN [w[n - 1] EXCEPT ![Len(w[n - 1])] = Append(@, s[n])]
        ELSE Append(w[n - 1], <<s[n]>>)
  IN  w[Len(s)]
Below(ls) == FlattenSeq([k \in DOMAIN ls |-> Append(ls[k], Break)])

\* A text about_wrap is made for: its words and its indents fit a line.  (A longer word is
\* broken only where it opens a line; after other text it is cut to the buffer.)
Ordinary(s) ==
  /\ \A k \in DOMAIN Words(s) : StrWidth(Words(s)[k]) <= MaxWidth
  /\ \A p \in DOMAIN s : RunOf(s, p, {Space}) * Width[Space] <= MaxWidth

\* Such a text is wrapped without losing, splitting or joining a word, on lines that fit;
\* only when the lines run out is the rest left off.  Any text stays inside the array.
WordWrapped ==
  screen = "about" =>
    /\ Len(lines) <= AboutLines /\ \A k \in DOMAIN lines : Len(lines[k]) <= AboutCap
    /\ Ordinary(text) =>
         /\ \A k \in DOMAIN lines : StrWidth(lines[k]) <= MaxWidth
         /\ IsPrefix(Words(Below(lines)), Words(text))
         /\ Len(lines) < AboutLines => Words(Below(lines)) = Words(text)

\* What is scrolled to is on the text, however keys and redraws follow each other.
ScrollInRange == scroll = 0 \/ scroll + Visible <= Len(lines)

\* A screen shows its text.
ScreenShowsText == HardWrapped /\ WordWrapped /\ ScrollInRange
=============================================================================
