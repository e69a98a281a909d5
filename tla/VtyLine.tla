------------------------------ MODULE VtyLine ------------------------------
(***************************************************************************)
(* The line editor of a libvui terminal (vty.c): bytes read from a telnet  *)
(* connection or the console go through the telnet and escape-sequence     *)
(* states of vty_read to the editing keys, which change the line and the   *)
(* cursor and send echo; Enter runs the line and keeps it in a ring of     *)
(* recent lines.                                                           *)
(*                                                                         *)
(* The terminal at the other end is part of the model: scr and cur are     *)
(* what it shows after the prompt once it has received all echo. Lines are *)
(* short, and a letter is "x" or " " (a word character or a space).        *)
(***************************************************************************)
EXTENDS Integers, Sequences, SequencesExt, FiniteSets

CONSTANTS
  BufSize,   \* VTY_BUFSIZ
  MaxHist,   \* VTY_MAXHIST
  NawsLen,   \* TELNET_NAWS_SB_LEN, bytes of a window size option
  Runs,      \* bound: the lines that Enter is pressed on
  MaxLines,  \* bound: lines run
  NULL

ASSUME VtyLineAssumption ==
  /\ BufSize \in Nat \ {0, 1} /\ MaxHist \in Nat \ {0} /\ NawsLen \in Nat \ {0} /\ MaxLines \in Nat
  /\ \A l \in Runs : Len(l) < BufSize

Letter == {"x", " "}

VARIABLES
  v,      \* the fields of struct vty, and the screen
  lines   \* every line run outside a password prompt, consecutive repeats once

vars == <<v, lines>>

Init ==
  /\ v = [buf |-> <<>>, cp |-> 0, scr |-> <<>>, cur |-> 0,
          auth |-> TRUE,     \* node is AUTH_NODE or AUTH_ENABLE_NODE
          escape |-> "NORMAL", iac |-> FALSE, sb |-> NULL, width |-> 0,
          hist |-> [i \in 0..MaxHist - 1 |-> NULL], hp |-> 0, hindex |-> 0,
          hidden |-> FALSE]  \* ^Z left text in the line that the screen does not show
  /\ lines = <<>>

-----------------------------------------------------------------------------
(* Echo. A printed character replaces what is under the cursor.             *)

Emit(s, c) ==
  IF c = "BS" THEN [s EXCEPT !.cur = @ - 1]
  ELSE [s EXCEPT !.scr = IF s.cur < Len(@) THEN [@ EXCEPT ![s.cur + 1] = c] ELSE Append(@, c),
                 !.cur = @ + 1]

Times(c, n) == [i \in 1..n |-> c]

\* vty_write: no echo at a password prompt.
vty_write(s, cs) == IF s.auth THEN s ELSE FoldLeft(Emit, s, cs)

\* Output of a newline and the prompt: the editor starts on an empty row.
NewRow(s) == [s EXCEPT !.scr = <<>>, !.cur = 0]

Before(s) == SubSeq(s.buf, 1, s.cp)
After(s) == SubSeq(s.buf, s.cp + 1, Len(s.buf))

-----------------------------------------------------------------------------
(* Keys                                                                     *)

vty_self_insert(s, c) ==
  IF Len(s.buf) + 1 >= BufSize THEN s
  ELSE LET back == Len(After(s))
           out == vty_write(s, <<c>> \o After(s) \o Times("BS", back))
       IN [out EXCEPT !.buf = Before(s) \o <<c>> \o After(s), !.cp = @ + 1]

vty_self_insert_overwrite(s, c) ==
  IF s.cp = Len(s.buf) THEN vty_self_insert(s, c)
  ELSE [vty_write(s, <<c>>) EXCEPT !.buf[s.cp + 1] = c, !.cp = @ + 1]

vty_insert_word_overwrite(s, word) ==
  LET room == BufSize - s.cp - 1
      w == SubSeq(word, 1, IF Len(word) < room THEN Len(word) ELSE room)
      rest == SubSeq(s.buf, s.cp + Len(w) + 1, Len(s.buf))
  IN [vty_write(s, w) EXCEPT !.buf = Before(s) \o w \o rest, !.cp = @ + Len(w)]

vty_forward_char(s) ==
  IF s.cp < Len(s.buf) THEN [vty_write(s, <<s.buf[s.cp + 1]>>) EXCEPT !.cp = @ + 1] ELSE s

vty_backward_char(s) ==
  IF s.cp > 0 THEN [vty_write(s, <<"BS">>) EXCEPT !.cp = @ - 1] ELSE s

\* Repeat a key until the cursor is at position p.
ToPosition(s, p) ==
  LET Go[n \in Nat] == IF n = 0 THEN s
                       ELSE IF p < s.cp THEN vty_backward_char(Go[n - 1]) ELSE vty_forward_char(Go[n - 1])
  IN Go[IF p < s.cp THEN s.cp - p ELSE p - s.cp]

vty_beginning_of_line(s) == ToPosition(s, 0)
vty_end_of_line(s) == ToPosition(s, Len(s.buf))

\* The first position from p on, going forward, where the character after it is
\* (or is not) a space; and the same for the character before it, going back.
SkipForward(s, p, space) ==
  CHOOSE q \in p..Len(s.buf) :
    /\ q = Len(s.buf) \/ (s.buf[q + 1] = " ") # space
    /\ \A r \in p..(q - 1) : (s.buf[r + 1] = " ") = space
SkipBackward(s, p, space) ==
  CHOOSE q \in 0..p :
    /\ q = 0 \/ (s.buf[q] = " ") # space
    /\ \A r \in (q + 1)..p : (s.buf[r] = " ") = space

vty_forward_word(s) == ToPosition(s, SkipForward(s, SkipForward(s, s.cp, FALSE), TRUE))
vty_backward_pure_word(s) == ToPosition(s, SkipBackward(s, s.cp, FALSE))
vty_backward_word(s) == ToPosition(s, SkipBackward(s, SkipBackward(s, s.cp, TRUE), FALSE))

\* ^D on an empty line, and ^Z: the text of the line stays, unseen, after ^Z.
vty_down_level(s) == [NewRow(s) EXCEPT !.cp = 0]
vty_end_config(s) == [NewRow(s) EXCEPT !.cp = 0, !.hidden = s.buf # <<>>]

\* Variant: the last character of the old row is not wiped out.
DeleteCharNoSpace(s) ==
  IF s.buf = <<>> THEN vty_down_level(s)
  ELSE IF s.cp = Len(s.buf) THEN s
  ELSE LET size == Len(After(s))
           out == vty_write(s, Tail(After(s)) \o Times("BS", size - 1))
       IN [out EXCEPT !.buf = Before(s) \o Tail(After(s))]

vty_delete_char(s) ==
  IF s.buf = <<>> THEN vty_down_level(s)
  ELSE IF s.cp = Len(s.buf) THEN s
  ELSE LET size == Len(After(s))
           out == vty_write(s, Tail(After(s)) \o <<" ">> \o Times("BS", size))
       IN [out EXCEPT !.buf = Before(s) \o Tail(After(s))]

vty_delete_backward_char(s) == IF s.cp = 0 THEN s ELSE vty_delete_char(vty_backward_char(s))

vty_kill_line(s) ==
  LET size == Len(After(s))
  IN [vty_write(s, Times(" ", size) \o Times("BS", size)) EXCEPT !.buf = Before(s)]

vty_kill_line_from_beginning(s) == vty_kill_line(vty_beginning_of_line(s))

Repeat(op(_), s, n) == LET Go[i \in Nat] == IF i = 0 THEN s ELSE op(Go[i - 1]) IN Go[n]

vty_forward_kill_word(s) ==
  Repeat(vty_delete_char, s, SkipForward(s, SkipForward(s, s.cp, TRUE), FALSE) - s.cp)
vty_backward_kill_word(s) ==
  Repeat(vty_delete_backward_char, s, s.cp - SkipBackward(s, SkipBackward(s, s.cp, TRUE), FALSE))

vty_transpose_chars(s) ==
  IF Len(s.buf) < 2 \/ s.cp < 1 THEN s
  ELSE LET p == IF s.cp = Len(s.buf) THEN s.cp - 1 ELSE s.cp   \* the pair is p, p + 1
           back == ToPosition(s, p - 1)
       IN vty_self_insert_overwrite(vty_self_insert_overwrite(back, s.buf[p + 1]), s.buf[p])

vty_redraw_line(s) == [vty_write(s, s.buf) EXCEPT !.cp = Len(s.buf), !.hidden = FALSE]

\* A new row with the prompt and the whole line again: what every answer to TAB
\* and "?" ends with, whatever it printed before.
Again(s) == vty_redraw_line(NewRow(s))

\* TAB. What completion finds is a parameter: nothing to add, or a word that
\* extends the last one, alone (full) or as far as all candidates agree.
vty_complete_command(s, more, full) ==
  IF s.auth \/ \A i \in 1..Len(s.buf) : s.buf[i] = " " THEN s
  ELSE IF more = NULL THEN Again(s)
  ELSE LET at == vty_backward_pure_word(Again(s))
           word == vty_insert_word_overwrite(at, After(at) \o more)
       IN IF full THEN vty_self_insert(word, " ") ELSE word

vty_describe_command(s) == IF s.auth THEN vty_self_insert(s, "x") ELSE Again(s)

-----------------------------------------------------------------------------
(* The ring of recent lines                                                 *)

vty_history_print(s) ==
  LET k == vty_kill_line_from_beginning(s) IN
  [vty_write(k, s.hist[s.hp]) EXCEPT !.buf = s.hist[s.hp], !.cp = Len(s.hist[s.hp])]

vty_next_line(s) ==
  LET try == (s.hp + 1) % MaxHist IN
  IF s.hp = s.hindex \/ s.hist[try] = NULL THEN s
  ELSE vty_history_print([s EXCEPT !.hp = try])

vty_previous_line(s) ==
  LET try == IF s.hp = 0 THEN MaxHist - 1 ELSE s.hp - 1 IN
  IF s.hist[try] = NULL THEN s
  ELSE vty_history_print([s EXCEPT !.hp = try])

Newest(s) == s.hist[IF s.hindex = 0 THEN MaxHist - 1 ELSE s.hindex - 1]

\* Variant: a line equal to the newest one is stored again.
HistAddRepeats(s) ==
  IF s.buf = <<>> THEN s
  ELSE LET next == (s.hindex + 1) % MaxHist
       IN [s EXCEPT !.hist[s.hindex] = s.buf, !.hindex = next, !.hp = next]

vty_hist_add(s) ==
  IF s.buf = <<>> THEN s
  ELSE IF s.buf = Newest(s) THEN [s EXCEPT !.hp = s.hindex]
  ELSE LET next == (s.hindex + 1) % MaxHist
       IN [s EXCEPT !.hist[s.hindex] = s.buf, !.hindex = next, !.hp = next]

\* "show history": from the slot after hindex round to the one before it.
vty_show_history(s) ==
  LET at(k) == s.hist[(s.hindex + k) % MaxHist]
  IN SelectSeq([k \in 1..MaxHist - 1 |-> at(k)], LAMBDA l : l # NULL)

-----------------------------------------------------------------------------
(* Enter and ^C                                                             *)

Cleared(s) == [NewRow(s) EXCEPT !.buf = <<>>, !.cp = 0, !.hidden = FALSE]

\* auth: whether the node after the password check or the command asks for a
\* password.
vty_execute(s, auth) == [Cleared(IF s.auth THEN s ELSE vty_hist_add(s)) EXCEPT !.auth = auth]

vty_stop_input(s) == [Cleared(s) EXCEPT !.hp = s.hindex]

-----------------------------------------------------------------------------
(* vty_read: telnet commands, escape sequences, keys                        *)

Verb == {"WILL", "WONT", "DO", "DONT"}
Printable == {"x", " ", "[", "b", "f", "d", "A", "B", "C", "D"}
Control == {"^A", "^B", "^C", "^D", "^E", "^F", "^H", "^K", "^N", "^P", "^T", "^U", "^W", "^Z",
            "CR", "TAB", "?", "ESC"}
Byte == Printable \cup Control \cup Verb \cup {"IAC", "SB", "SE", "NAWS"}

\* A telnet command after IAC, and how many more bytes of the read it takes.
vty_telnet_option(s, b) ==
  LET complete == s.sb # NULL /\ s.sb.len = NawsLen /\ s.sb.opt = "NAWS"
  IN CASE b = "SB" -> [to |-> [s EXCEPT !.sb = [len |-> 0, opt |-> NULL]], skip |-> 0]
       [] b = "SE" -> [to |-> [s EXCEPT !.sb = NULL, !.width = IF complete THEN 1 ELSE @], skip |-> 0]
       [] OTHER    -> [to |-> s, skip |-> 1]

\* A byte of a suboption. More than NawsLen + 1 bytes need not be told apart.
SubOption(s, b) ==
  [s EXCEPT !.sb = [len |-> IF @.len > NawsLen THEN @.len ELSE @.len + 1,
                    opt |-> IF @.len > 0 THEN @.opt ELSE IF b = "NAWS" THEN b ELSE "other"]]

vty_escape_map(s, b) ==
  LET moved == CASE b = "A" -> vty_previous_line(s)
                 [] b = "B" -> vty_next_line(s)
                 [] b = "C" -> vty_forward_char(s)
                 [] b = "D" -> vty_backward_char(s)
                 [] OTHER   -> s
  IN [moved EXCEPT !.escape = "NORMAL"]

\* Variant: "[" is only taken as part of a sequence next to its ESC.
PreEscapeNoBracket(s, b) ==
  LET moved == CASE b = "b"  -> vty_backward_word(s)
                 [] b = "f"  -> vty_forward_word(s)
                 [] b = "d"  -> vty_forward_kill_word(s)
                 [] b = "^H" -> vty_backward_kill_word(s)
                 [] OTHER    -> s
  IN [moved EXCEPT !.escape = "NORMAL"]

PreEscape(s, b) ==
  LET moved == CASE b = "b"  -> vty_backward_word(s)
                 [] b = "f"  -> vty_forward_word(s)
                 [] b = "d"  -> vty_forward_kill_word(s)
                 [] b = "^H" -> vty_backward_kill_word(s)
                 [] OTHER    -> s
  IN [moved EXCEPT !.escape = IF b = "[" THEN "ESCAPE" ELSE "NORMAL"]

\* ch: what a command or a completion in this read leads to.
Key(s, b, ch) ==
  CASE b = "^A"  -> vty_beginning_of_line(s)
    [] b = "^B"  -> vty_backward_char(s)
    [] b = "^C"  -> vty_stop_input(s)
    [] b = "^D"  -> vty_delete_char(s)
    [] b = "^E"  -> vty_end_of_line(s)
    [] b = "^F"  -> vty_forward_char(s)
    [] b = "^H"  -> vty_delete_backward_char(s)
    [] b = "^K"  -> vty_kill_line(s)
    [] b = "^N"  -> vty_next_line(s)
    [] b = "^P"  -> vty_previous_line(s)
    [] b = "^T"  -> vty_transpose_chars(s)
    [] b = "^U"  -> vty_kill_line_from_beginning(s)
    [] b = "^W"  -> vty_backward_kill_word(s)
    [] b = "^Z"  -> vty_end_config(s)
    [] b = "CR"  -> vty_execute(s, ch.auth)
    [] b = "TAB" -> vty_complete_command(s, ch.more, ch.full)
    [] b = "?"   -> vty_describe_command(s)
    [] b = "ESC" -> [s EXCEPT !.escape = "PRE_ESCAPE"]
    [] b \in Printable -> vty_self_insert(s, IF b = " " THEN " " ELSE "x")
    [] OTHER     -> s

\* One byte with the one after it in the same read (NULL at the end of the
\* read), and how many further bytes are taken with it.
OneByte(s, b, after, ch) ==
  LET iac == s.iac /\ b # "IAC"                     \* IAC IAC stands for the byte itself
      o == vty_telnet_option(s, b)
      n == [s EXCEPT !.iac = FALSE]
      Is(to) == [to |-> to, skip |-> 0]
  IN CASE b = "IAC" /\ ~s.iac            -> Is([s EXCEPT !.iac = TRUE])
       [] s.sb # NULL /\ ~iac            -> Is(SubOption(n, b))
       [] iac                            -> [o EXCEPT !.to.iac = FALSE]
       [] n.escape = "ESCAPE"            -> Is(vty_escape_map(n, b))
       [] n.escape = "PRE_ESCAPE"        -> Is(PreEscape(n, b))
       [] b = "ESC" /\ after = "["       -> [to |-> [n EXCEPT !.escape = "ESCAPE"], skip |-> 1]
       [] OTHER                          -> Is(Key(n, b, ch))

\* A read of one or two bytes. A longer one is the composition of these: the
\* loop of vty_read looks at most one byte ahead.
vty_read(s, bytes, ch) ==
  LET one == OneByte(s, bytes[1], IF Len(bytes) = 2 THEN bytes[2] ELSE NULL, ch)
  IN IF Len(bytes) = 1 \/ one.skip = 1 THEN one.to
     ELSE OneByte(one.to, bytes[2], NULL, ch).to

\* ^D on an empty line leaves the node for its parent. The password nodes have
\* none (command.c, cmd_exit), so what follows there is left out of the inputs.
Defined(s, b) == ~(b = "^D" /\ s.auth /\ s.buf = <<>>)

\* The line that Enter runs in this read, as vty_execute keeps it.
Run(s, b) ==
  LET runs == /\ b = "CR" /\ ~s.auth /\ ~s.iac /\ s.sb = NULL /\ s.escape = "NORMAL"
              /\ s.buf # <<>> /\ (lines = <<>> \/ Last(lines) # s.buf)
  IN IF runs THEN Append(lines, s.buf) ELSE lines

\* Bounds on the inputs: Enter on the lines of Runs, telnet commands on an empty
\* line, and one window size.
Within(s, b) ==
  /\ b = "CR" => s.auth \/ s.buf \in Runs \cup {<<>>}
  /\ b = "IAC" => s.buf = <<>> /\ (s.width = 0 \/ s.sb # NULL)

SomeChoice == [auth |-> FALSE, more |-> NULL, full |-> FALSE]
Choice(b) ==
  CASE b = "CR"  -> [auth : BOOLEAN, more : {NULL}, full : {FALSE}]
    [] b = "TAB" -> [auth : {FALSE}, more : {NULL, <<>>, <<"x">>}, full : BOOLEAN]
    [] OTHER     -> {SomeChoice}

ReadByte(b) ==
  /\ Defined(v, b) /\ Within(v, b)
  /\ \E ch \in Choice(b) : v' = vty_read(v, <<b>>, ch)
  /\ lines' = Run(v, b)
  /\ Len(lines') <= MaxLines

\* A negotiation verb with its option byte in the same read. The option bytes
\* 1, 3 and 31 (echo, go ahead, window size) are those of ^A, ^C and NAWS.
ReadOption(b, opt) ==
  /\ v.iac
  /\ v' = vty_read(v, <<b, opt>>, SomeChoice)
  /\ UNCHANGED lines

Next ==
  \/ \E b \in Byte : ReadByte(b)
  \/ \E b \in Verb, opt \in {"^A", "^C", "NAWS"} : ReadOption(b, opt)

Spec == Init /\ [][Next]_vars

-----------------------------------------------------------------------------
(* Properties                                                               *)

\* The line with its terminator fits the buffer of VTY_BUFSIZ bytes, the cursor is
\* inside the line, and the ring positions are inside the ring (struct vty).
TypeOK ==
  /\ v.buf \in Seq(Letter) /\ Len(v.buf) < BufSize
  /\ v.cp \in 0..Len(v.buf)
  /\ v.hp \in 0..MaxHist - 1 /\ v.hindex \in 0..MaxHist - 1
  /\ v.escape \in {"NORMAL", "PRE_ESCAPE", "ESCAPE"}
  /\ v.width \in 0..1

Padded(l) == [i \in 1..BufSize |-> IF i <= Len(l) THEN l[i] ELSE " "]

\* What the user sees is the line that Enter would run, with the cursor where the
\* next key acts: after any keys, the echo of vty.c's editing functions adds up to
\* the line in vty->buf. Text that ^Z left in the line may be missing from the
\* screen until the row is drawn again, but the cursor is right even then.
ScreenShowsLine ==
  ~v.auth => /\ v.cur = v.cp
             /\ v.hidden \/ Padded(v.scr) = Padded(v.buf)

\* Nothing typed at a password prompt is echoed or kept in the ring: the ring holds
\* the most recent lines run elsewhere, newest before hindex, with consecutive
\* repeats once (vty_write, vty_execute, vty_hist_add).
RingIsRecent ==
  /\ v.auth => v.scr = <<>> /\ v.cur = 0
  /\ \A k \in 1..MaxHist :
       v.hist[(v.hindex + MaxHist - k) % MaxHist] =
         IF k <= Len(lines) THEN lines[Len(lines) - k + 1] ELSE NULL

\* Browsing never stands on an empty slot, whatever mix of ^P, ^N, arrows, Enter and ^C
\* led there: the position is either the end or a line (vty_next_line,
\* vty_previous_line).
BrowsesLines == v.hp = v.hindex \/ v.hist[v.hp] # NULL

\* "show history" lists the most recent lines, oldest first: all but at most one of
\* those the ring holds (the slot at hindex is skipped, and holds the oldest line once
\* the ring is full).
ShowsRecent ==
  vty_show_history(v) =
    LET n == IF Len(lines) < MaxHist - 1 THEN Len(lines) ELSE MaxHist - 1
    IN SubSeq(lines, Len(lines) - n + 1, Len(lines))

\* Where one read ends and the next begins does not matter to escape sequences,
\* suboptions and keys: two bytes have the same effect in one read and in two. The
\* option byte of a negotiation is the exception: it is skipped only in the read of its
\* verb, and is a key of its own at the start of the next (vty_read, "i += ret").
SplitReads ==
  \A b \in {"ESC", "IAC", "SB", "DO"}, c \in {"[", "A", "IAC", "SE"} :
    \/ v.iac /\ b \notin {"IAC", "SB", "SE"}
    \/ vty_read(v, <<b, c>>, SomeChoice) = vty_read(vty_read(v, <<b>>, SomeChoice), <<c>>, SomeChoice)

\* After any keys the terminal shows the line and its cursor (vty_read and the editing
\* functions it calls).
LineShown == TypeOK /\ ScreenShowsLine

\* The ring of lines is kept, browsed and listed as one history of the most recent ones
\* (vty_hist_add, vty_next_line, vty_previous_line, show history).
HistoryKept == RingIsRecent /\ BrowsesLines /\ ShowsRecent
=============================================================================
