----------------------------- MODULE CmdParser -----------------------------
(***************************************************************************)
(* cmd_parser.c: the console's line editor, its history and the dispatch   *)
(* of a submitted line, byte by byte as console_service() feeds them, with *)
(* the terminal the echoed characters are printed on.                      *)
(***************************************************************************)
EXTENDS Integers, SequencesExt

CONSTANTS
  LINE_MAX_LEN, HISTORY_BYTES, HISTORY_DEPTH,
  Letters,       \* the printable characters typed, the space among them
  Finals,        \* the bytes that may end an escape sequence
  Commands,      \* names of registered commands, as sequences of letters
  MaxParam,      \* bound: the highest CSI parameter collected
  MaxSubmits     \* bound: lines submitted

ASSUME ParserAssumption ==
  /\ {LINE_MAX_LEN, HISTORY_BYTES, HISTORY_DEPTH} \subseteq Nat \ {0}
  /\ LINE_MAX_LEN <= HISTORY_BYTES
  /\ "BS" \notin Letters

VARIABLES
  lineBuf, cursorPos,       \* the line (lineLen is its length), insertion point
  history, historyPos,      \* the packed pool: the entries, oldest first
  escState, lastChar,       \* <<"idle">>, <<"esc">> or <<"csi", escParam>>
  commandFlags, ready,      \* of the last command; the status byte last sent
  screen,                   \* the terminal's line after the prompt, its column
  submitted                 \* ghost: every line submitted

editor     == <<lineBuf, cursorPos, screen>>
record     == <<history, historyPos, commandFlags, ready, submitted>>
parserVars == <<editor, escState, record, lastChar>>

----------------------------------------------------------------------------
(* The terminal: a backspace only moves, any other character is written    *)
(* over what stands there.                                                 *)
BS == "BS"
SP == "SP"
Shown(s, c) ==
  CASE c = BS -> <<s[1], s[2] - 1>>
    [] c # BS /\ s[2] = Len(s[1]) -> <<Append(s[1], c), s[2] + 1>>
    [] c # BS /\ s[2] \in 0..(Len(s[1]) - 1) -> <<ReplaceAt(s[1], s[2] + 1, c), s[2] + 1>>
    [] OTHER -> <<s[1], s[2] + 1>>
Write(out) == screen' = FoldLeft(Shown, screen, out)
Times(n, c) == [i \in 1..n |-> c]

(* What the editor writes.                                                 *)
moveLeft(n)     == Times(n, BS)
moveToEnd       == SubSeq(lineBuf, cursorPos + 1, Len(lineBuf))
\* From `from' the line `l', blanks over what the longer line left behind,
\* and back to the cursor.
refreshTail(l, from, stale, at) ==
  SubSeq(l, from + 1, Len(l)) \o Times(stale, SP) \o moveLeft(Len(l) + stale - at)
echoBackspace   == <<BS, SP, BS>>
redrawLine(len, text) == FlattenSeq(Times(len, echoBackspace)) \o text

lineLen == Len(lineBuf)
Cut(l, at, n) == SubSeq(l, 1, at) \o SubSeq(l, at + n + 1, Len(l))
\* `back' columns to the left, then n characters go at `at'.
deleteRange(back, at, n) ==
  /\ lineBuf' = Cut(lineBuf, at, n)
  /\ cursorPos' = IF n = 0 THEN cursorPos - back ELSE at
  /\ Write(moveLeft(back) \o (IF n = 0 THEN <<>> ELSE refreshTail(lineBuf', at, n, at)))
Move(to, out) == cursorPos' = to /\ Write(out) /\ UNCHANGED lineBuf
Home == Move(0, moveLeft(cursorPos))
End  == Move(lineLen, moveToEnd)

----------------------------------------------------------------------------
(* History: entries of a length byte and the characters, in one pool.      *)
Size(h) == FoldLeft(LAMBDA sum, l : sum + Len(l) + 1, 0, h)
\* MUTANT: the length byte of the new entry is forgotten.
Crowded(h, line) == Len(h) >= HISTORY_DEPTH \/ HISTORY_BYTES - Size(h) < Len(line)
Full(h, line)    == Len(h) >= HISTORY_DEPTH \/ HISTORY_BYTES - Size(h) < Len(line) + 1
historyDropOldest(h, n) == SubSeq(h, n + 1, Len(h))
historyAdd(h, line) ==
  CASE line = <<>> -> h
    [] h # <<>> /\ line = h[Len(h)] -> h
    [] line # <<>> /\ Len(line) + 1 > HISTORY_BYTES -> h
    [] OTHER ->
         LET drop == CHOOSE n \in 0..Len(h) :
                       /\ ~Full(historyDropOldest(h, n), line)
                       /\ \A k \in 0..(n - 1) : Full(historyDropOldest(h, k), line)
         IN  Append(historyDropOldest(h, drop), line)

historyRecall(pos) ==
  /\ historyPos' = pos
  /\ lineBuf' = IF pos = Len(history) THEN <<>> ELSE history[pos + 1]
  /\ cursorPos' = Len(lineBuf')
  /\ Write(moveToEnd \o redrawLine(lineLen, lineBuf'))

----------------------------------------------------------------------------
idle == <<"idle">>
ParserInit ==
  /\ lineBuf = <<>> /\ cursorPos = 0 /\ history = <<>> /\ historyPos = 0
  /\ escState = idle /\ lastChar = "other"
  /\ commandFlags = {} /\ ready = "ACK" /\ screen = <<<<>>, 0>> /\ submitted = <<>>

\* The '\n' of a "\r\n" is swallowed, before anything else is looked at.
Swallowed(c) == c = "LF" /\ lastChar = "CR"
Byte(c) == lastChar' = IF c = "CR" THEN c ELSE "other"
LineFeedOfPair == Swallowed("LF") /\ Byte("LF") /\ UNCHANGED <<editor, escState, record>>

Nothing == UNCHANGED <<editor, history, historyPos>>
Edits   == UNCHANGED <<history, historyPos>>
handleCsiFinal(c) ==
  LET pos  == historyPos
      home == c = "H" \/ (c = "~" /\ escState[2] = 1)
      end  == c = "F" \/ (c = "~" /\ escState[2] = 4)
      del  == c = "~" /\ escState[2] = 3 /\ cursorPos < lineLen
  IN  \/ c = "A" /\ pos > 0 /\ historyRecall(pos - 1) /\ UNCHANGED history
      \/ c = "B" /\ pos < Len(history) /\ historyRecall(pos + 1) /\ UNCHANGED history
      \/ c = "D" /\ cursorPos > 0 /\ Move(cursorPos - 1, moveLeft(1)) /\ Edits
      \/ c = "C" /\ cursorPos < lineLen /\ Move(cursorPos + 1, <<lineBuf[cursorPos + 1]>>) /\ Edits
      \/ home /\ Home /\ Edits
      \/ end /\ End /\ Edits
      \/ del /\ deleteRange(0, cursorPos, 1) /\ Edits
      \/ /\ ~home /\ ~end /\ ~del
         /\ c = "A" => pos = 0
         /\ c = "B" => pos = Len(history)
         /\ c = "C" => cursorPos = lineLen
         /\ c = "D" => cursorPos = 0
         /\ Nothing

Escape ==
  /\ escState = idle /\ Byte("ESC")
  /\ escState' = <<"esc">>
  /\ UNCHANGED <<editor, record>>
\* ESC [ and ESC O; any other byte after ESC is dropped.
Introducer ==
  /\ escState = <<"esc">>
  /\ \E c \in {"[", "O", "CR", "LF", "a"} :
       /\ ~Swallowed(c) /\ Byte(c)
       /\ escState' = IF c \in {"[", "O"} THEN <<"csi", 0>> ELSE idle
  /\ UNCHANGED <<editor, record>>
CsiParam ==                                          \* ';' or a digit
  /\ escState[1] = "csi" /\ Byte("digit")
  /\ \E n \in {0} \cup {(escState[2] * 10 + d) % 256 : d \in {1, 3, 4}} :
       n <= MaxParam /\ escState' = <<"csi", n>>
  /\ UNCHANGED <<editor, record>>
CsiFinal ==
  /\ escState[1] = "csi" /\ escState' = idle
  /\ \E c \in Finals : ~Swallowed(c) /\ Byte(c) /\ handleCsiFinal(c)
  /\ UNCHANGED <<commandFlags, ready, submitted>>

\* argv[0], and the command it names: one that runs may fail or be aborted.
FirstToken(line) ==
  LET at  == CHOOSE i \in 1..Len(line) : line[i] # SP /\ \A j \in 1..(i - 1) : line[j] = SP
      end == CHOOSE j \in at..Len(line) :
               (j = Len(line) \/ line[j + 1] = SP) /\ \A k \in at..j : line[k] # SP
  IN  SubSeq(line, at, end)
dispatchLine(line) ==
  IF \A i \in DOMAIN line : line[i] = SP THEN {{}}
  ELSE IF FirstToken(line) \in Commands THEN {{}, {"failed"}, {"aborted", "failed"}}
  ELSE {{"failed"}}
emitReady(flags) == ready' = IF "failed" \in flags THEN "NAK" ELSE "ACK"

Enter ==
  /\ escState = idle /\ Len(submitted) < MaxSubmits
  /\ \E c \in {"CR", "LF"} : ~Swallowed(c) /\ Byte(c)
  /\ history' = historyAdd(history, lineBuf)
  /\ historyPos' = Len(history')
  /\ submitted' = IF lineBuf = <<>> THEN submitted ELSE Append(submitted, lineBuf)
  /\ commandFlags' \in dispatchLine(lineBuf) /\ emitReady(commandFlags')
  /\ lineBuf' = <<>> /\ cursorPos' = 0 /\ screen' = <<<<>>, 0>>
  /\ UNCHANGED escState

Key(c) == escState = idle /\ Byte(c) /\ UNCHANGED <<escState, record>>
Backspace ==                                   \* BS and DEL
  Key("BS") /\ IF cursorPos > 0 THEN deleteRange(1, cursorPos - 1, 1) ELSE UNCHANGED editor
CtrlA == Key("^A") /\ Home
CtrlE == Key("^E") /\ End
CtrlU == Key("^U") /\ deleteRange(cursorPos, 0, lineLen)
CtrlK == Key("^K") /\ deleteRange(0, cursorPos, lineLen - cursorPos)
\* The blanks left of the cursor, then the word.
CtrlW ==
  LET blank(i) == i > 0 /\ lineBuf[i] = SP
      afterBlanks == CHOOSE i \in 0..cursorPos :
                       ~blank(i) /\ \A k \in (i + 1)..cursorPos : blank(k)
      start == CHOOSE i \in 0..afterBlanks :
                 (i = 0 \/ blank(i)) /\ \A k \in (i + 1)..afterBlanks : ~blank(k)
  IN  Key("^W") /\ IF start < cursorPos
                   THEN deleteRange(cursorPos - start, start, cursorPos - start)
                   ELSE UNCHANGED editor
\* MUTANT: the characters right of an inserted one are not printed again.
AppendOnly ==
  /\ Key("letter")
  /\ \E c \in Letters :
       IF lineLen + 1 < LINE_MAX_LEN
       THEN /\ lineBuf' = InsertAt(lineBuf, cursorPos + 1, c)
            /\ cursorPos' = cursorPos + 1
            /\ Write(<<c>>)
       ELSE UNCHANGED editor
Printable ==
  /\ Key("letter")
  /\ \E c \in Letters :
       IF lineLen + 1 < LINE_MAX_LEN
       THEN /\ lineBuf' = InsertAt(lineBuf, cursorPos + 1, c)
            /\ cursorPos' = cursorPos + 1
            /\ Write(refreshTail(lineBuf', cursorPos, 0, cursorPos + 1))
       ELSE UNCHANGED editor

cmd_parser_feed_char ==
  \/ LineFeedOfPair \/ Escape \/ Introducer \/ CsiParam \/ CsiFinal \/ Enter
  \/ Backspace \/ CtrlA \/ CtrlE \/ CtrlU \/ CtrlK \/ CtrlW \/ Printable
ParserSpec == ParserInit /\ [][cmd_parser_feed_char]_parserVars

----------------------------------------------------------------------------
\* After every byte the terminal shows the line that Enter would submit and
\* nothing else, and its cursor stands at the insertion point - whatever
\* was inserted, deleted, killed and recalled before (refreshTail(), the
\* single redraw; redrawLine() counts columns back).
Blank(s, n) == \A i \in (n + 1)..Len(s) : s[i] = SP
ScreenIsLine ==
  /\ screen[2] = cursorPos
  /\ Len(screen[1]) >= lineLen /\ SubSeq(screen[1], 1, lineLen) = lineBuf
  /\ Blank(screen[1], lineLen)

\* The history holds the newest submitted lines, without immediate
\* repetitions, and as many of them as the pool's bytes and the depth
\* allow: no eviction throws out more than it must, none too few.
Deduplicated ==
  LET keep == {i \in DOMAIN submitted : i = 1 \/ submitted[i] # submitted[i - 1]}
  IN  [i \in 1..Cardinality(keep) |->
         submitted[CHOOSE k \in keep : Cardinality({j \in keep : j <= k}) = i]]
HistoryLatest ==
  /\ IsSuffix(history, Deduplicated)
  /\ Len(history) <= HISTORY_DEPTH
  /\ Len(FlattenSeq(history)) + Len(history) <= HISTORY_BYTES
  /\ Len(history) < Len(Deduplicated) =>
       LET more == <<Deduplicated[Len(Deduplicated) - Len(history)]>> \o history
       IN  Len(more) > HISTORY_DEPTH \/ Len(FlattenSeq(more)) + Len(more) > HISTORY_BYTES
=============================================================================
