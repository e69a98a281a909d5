----------------------------- MODULE VtySession -----------------------------
(***************************************************************************)
(* A terminal session of libvui from accept or vty_stdio to vty_close: the *)
(* handlers vty_accept, vty_read, vty_flush and vty_timeout, the tasks each*)
(* of them arms and cancels, paging, and the output that waits in obuf.    *)
(*                                                                         *)
(* One session at a time: the console (descriptors 0 and 1) or a telnet    *)
(* connection (one descriptor). The event loop (EventLoop) runs the handler*)
(* of an armed task when its descriptor is ready. An output line is one    *)
(* byte "n" of obuf; the descriptor holds up to Cap bytes until the        *)
(* terminal takes them.                                                    *)
(***************************************************************************)
EXTENDS Buffer, FiniteSets

CONSTANTS
  Cap,             \* bytes the descriptor takes before a write must wait
  Height,          \* lines of the terminal's window, once it has told them
  MaxQueue,        \* bound: bytes waiting in obuf
  StdoutReadable   \* the console's descriptor 1 is the terminal, not a file or a pipe

ASSUME VtySessionAssumption ==
  Cap \in Nat \ {0} /\ Height \in Nat \ {0} /\ MaxQueue \in Nat /\ StdoutReadable \in BOOLEAN

VARIABLES
  t,               \* struct vty of the session
  sock,            \* bytes in the descriptor
  gone,            \* the peer has closed its end
  vty_timeout_val, \* exec-timeout for new sessions: set or not
  stdio_vty,       \* "never", "open", "closed"
  flushes,         \* vty_flush has run, modulo 2
  keys             \* a key has been read, modulo 2

vars == <<t, sock, gone, vty_timeout_val, stdio_vty, flushes, keys>>

Closed == [open |-> FALSE, console |-> FALSE, status |-> "NORMAL", lines |-> -1, width |-> 0,
           v_timeout |-> FALSE, t_read |-> "none", t_write |-> FALSE, t_timeout |-> FALSE, obuf |-> <<>>,
           due |-> 0,         \* lines put out that the terminal has not got (not those dropped by q); 0 once short
           short |-> FALSE]   \* a write of a page was short

\* The configuration file may have set exec-timeout.
Init ==
  /\ t = Closed /\ sock = <<>> /\ gone = FALSE
  /\ vty_timeout_val \in BOOLEAN
  /\ stdio_vty = "never"
  /\ flushes = 0 /\ keys = 0

wfd(s) == IF s.console THEN "wfd" ELSE "fd"

\* What a write to the descriptor takes now. The console's writes block until all is
\* taken, so they are never short; a telnet socket is non-blocking.
Room == IF gone THEN NULL
        ELSE IF ~t.console THEN Cap - Len(sock)
        ELSE IF sock = <<>> THEN MaxQueue + 2 ELSE 0

vty_out(s, n) == [s EXCEPT !.obuf = buffer_put(@, [i \in 1..n |-> "n"]), !.due = IF s.short THEN 0 ELSE @ + n]

\* buffer_reset on the user's request: the dropped lines are no longer due.
Dropped(s) == [s EXCEPT !.obuf = buffer_reset(@), !.due = IF s.short THEN 0 ELSE @ - Len(buffer_getstr(s.obuf))]

-----------------------------------------------------------------------------
(* vty_event                                                                *)

VTY_READ(s, fd) == [s EXCEPT !.t_read = fd, !.t_timeout = @ \/ s.v_timeout]
VTY_WRITE(s) == [s EXCEPT !.t_write = TRUE]
VTY_TIMEOUT_RESET(s) == [s EXCEPT !.t_timeout = s.v_timeout]

\* A timer that is running when exec-timeout is switched off is cancelled.
exec_timeout(s, on) == VTY_TIMEOUT_RESET([s EXCEPT !.v_timeout = on])

\* The tasks are cancelled and what the descriptor takes of obuf is sent.
vty_close(s) == Closed

Closing(s) ==
  LET all == buffer_flush_all(s.obuf, Room) IN
  /\ t' = vty_close(s)
  /\ sock' = sock \o all.out
  /\ stdio_vty' = IF s.console THEN "closed" ELSE stdio_vty

-----------------------------------------------------------------------------
(* vty_read                                                                 *)

\* What a byte or a line in a read may be: a key, ^C or q, a command that prints two
\* lines, exit, terminal length, exec-timeout, and the telnet window size.
Input == {"key", "q", "show", "exit", "length 0", "length n", "timeout", "no timeout", "naws"}

\* At --More-- only ^C and q act: they drop the output and draw the prompt again.
\* Every command is followed by the prompt.
OneInput(s, i) ==
  CASE i = "naws" -> [s EXCEPT !.width = 1]
    [] s.status = "MORE" /\ i = "q" -> vty_out(Dropped(s), 1)
    [] s.status = "MORE" -> s
    [] i \in {"key", "q"} -> s
    [] i = "show" -> vty_out(s, 3)
    [] i = "exit" -> [s EXCEPT !.status = "CLOSE"]
    [] i = "length 0" -> vty_out([s EXCEPT !.lines = 0], 1)
    [] i = "length n" -> vty_out([s EXCEPT !.lines = Height], 1)
    [] i = "timeout" -> vty_out(exec_timeout(s, TRUE), 1)
    [] i = "no timeout" -> vty_out(exec_timeout(s, FALSE), 1)

\* The inputs of a read one after the other.
Inputs(s, is) ==
  LET Upto[n \in 0..Len(is)] == IF n = 0 THEN s ELSE OneInput(Upto[n - 1], is[n])
  IN Upto[Len(is)]

\* The task runs when its descriptor can be read.
Readable == t.t_read = "fd" \/ (t.t_read = "wfd" /\ StdoutReadable)

\* exec-timeout sets the default of later sessions too.
Default(in, i) == CASE i = "timeout" -> TRUE [] i = "no timeout" -> FALSE [] OTHER -> in

Defaults(in, is) ==
  LET Upto[n \in 0..Len(is)] == IF n = 0 THEN in ELSE Default(Upto[n - 1], is[n])
  IN Upto[Len(is)]

\* Variant: a key at --More-- does not start the next page.
ReadDoneNoPage(s, fd) == VTY_READ(IF s.status = "MORE" THEN s ELSE VTY_WRITE(s), fd)

ReadDone(s, fd) == VTY_READ(VTY_WRITE(s), fd)

\* A read of up to two inputs. t_read is cleared first; then the inputs, also those
\* after an exit in the same read; then the session is closed or its tasks armed.
vty_read(is) ==
  LET s0 == [t EXCEPT !.t_read = "none"]
      s == Inputs(s0, is)
      acted == IF t.status = "MORE" THEN <<>> ELSE is
  IN /\ t.open /\ Readable /\ ~gone
     /\ (\E i \in DOMAIN is : is[i] = "naws") => ~t.console
     /\ Len(buffer_getstr(s.obuf)) <= MaxQueue
     /\ vty_timeout_val' = Defaults(vty_timeout_val, acted)
     /\ IF s.status = "CLOSE" THEN Closing(s)
        ELSE /\ t' = ReadDone(s, t.t_read)
             /\ UNCHANGED <<sock, stdio_vty>>
     /\ keys' = 1 - keys
     /\ UNCHANGED <<gone, flushes>>

\* The peer is gone: end of file (obuf is flushed in vain) or an error.
ReadEnd ==
  /\ t.open /\ Readable /\ gone
  /\ Closing([t EXCEPT !.t_read = "none", !.status = "CLOSE"])
  /\ UNCHANGED <<gone, vty_timeout_val, flushes, keys>>

\* EAGAIN or EINTR. Restarts the timer as any VTY_READ.
ReadRetry ==
  /\ t.open /\ Readable
  /\ t' = VTY_READ([t EXCEPT !.t_read = "none"], t.t_read)
  /\ UNCHANGED <<sock, gone, vty_timeout_val, stdio_vty, flushes, keys>>

-----------------------------------------------------------------------------
(* vty_flush                                                                *)

\* Variant: reading is not resumed after the output of an endless page.
AfterFlushDeaf(s, st) ==
  CASE st = "EMPTY" -> [s EXCEPT !.status = "NORMAL"]
    [] st = "PENDING" -> IF s.lines = 0 THEN VTY_WRITE([s EXCEPT !.status = "MORE"])
                         ELSE [s EXCEPT !.status = "MORE"]

AfterFlush(s, st) ==
  CASE st = "EMPTY" -> IF s.lines = 0 THEN VTY_READ([s EXCEPT !.status = "NORMAL"], wfd(s))
                       ELSE [s EXCEPT !.status = "NORMAL"]
    [] st = "PENDING" -> IF s.lines = 0 THEN VTY_WRITE([s EXCEPT !.status = "MORE"])
                         ELSE [s EXCEPT !.status = "MORE"]

\* Without a page length or a known window all output goes at once.
Paged(s) == s.lines # 0 /\ s.width # 0

\* With lines = 0 the read task is cancelled until the output is out. The write task
\* runs when the descriptor takes a byte, or the peer is gone.
vty_flush ==
  LET s == [t EXCEPT !.t_write = FALSE, !.t_read = IF t.lines = 0 THEN "none" ELSE @]
      Page(room) == buffer_flush_window(s.obuf, 80, IF s.lines >= 0 THEN s.lines ELSE Height,
                                        s.status = "MORE", FALSE, room)
      f == IF Paged(s) THEN Page(Room) ELSE buffer_flush_available(s.obuf, Room)
      short == Paged(s) /\ Len(f.out) < Len(Page(MaxQueue + 2).out)
  IN /\ t.open /\ t.t_write
     /\ Room # 0
     /\ IF f.st = "ERROR" THEN Closing([s EXCEPT !.obuf = buffer_reset(@)])
        ELSE /\ t' = AfterFlush([s EXCEPT !.obuf = f.b, !.short = @ \/ short, !.due = IF s.short \/ short THEN 0 ELSE @], f.st)
             /\ sock' = sock \o f.out
             /\ UNCHANGED stdio_vty
     /\ flushes' = 1 - flushes
     /\ UNCHANGED <<gone, vty_timeout_val, keys>>

-----------------------------------------------------------------------------
(* Timeout, new sessions, the peer                                          *)

vty_timeout ==
  /\ t.open /\ t.t_timeout
  /\ Closing(vty_out(Dropped([t EXCEPT !.t_timeout = FALSE, !.v_timeout = FALSE]), 1))
  /\ UNCHANGED <<gone, vty_timeout_val, flushes, keys>>

NewSession(s) == VTY_READ(VTY_WRITE(vty_out([s EXCEPT !.open = TRUE], 1)), "fd")

\* A connection is accepted, with a password set (password) or not.
vty_accept(password) ==
  LET s == [Closed EXCEPT !.open = TRUE, !.v_timeout = vty_timeout_val] IN
  /\ ~t.open /\ sock' = <<>> /\ gone' = FALSE
  /\ IF password THEN t' = NewSession(s) ELSE t' = vty_close(s)
  /\ UNCHANGED <<vty_timeout_val, stdio_vty, flushes, keys>>

vty_stdio ==
  /\ ~t.open /\ stdio_vty = "never"
  /\ t' = NewSession([Closed EXCEPT !.console = TRUE])
  /\ sock' = <<>> /\ gone' = FALSE /\ stdio_vty' = "open"
  /\ UNCHANGED <<vty_timeout_val, flushes, keys>>

PeerTakes ==
  /\ sock # <<>>
  /\ sock' = Tail(sock)
  /\ t' = IF t.open /\ ~t.short /\ Head(sock) = "n" THEN [t EXCEPT !.due = @ - 1] ELSE t
  /\ UNCHANGED <<gone, vty_timeout_val, stdio_vty, flushes, keys>>

PeerGone ==
  /\ t.open /\ ~t.console /\ ~gone
  /\ gone' = TRUE
  /\ UNCHANGED <<t, sock, vty_timeout_val, stdio_vty, flushes, keys>>

Reads == {<<i>> : i \in Input} \cup {<<"q", "show">>, <<"exit", "show">>, <<"length 0", "show">>,
                                     <<"show", "timeout">>, <<"naws", "show">>}

Next ==
  \/ \E is \in Reads : vty_read(is)
  \/ ReadEnd \/ ReadRetry
  \/ vty_flush \/ vty_timeout
  \/ \E password \in BOOLEAN : vty_accept(password)
  \/ vty_stdio
  \/ PeerTakes \/ PeerGone

\* The event loop runs vty_flush and vty_read when their descriptors stay ready, and the
\* terminal takes what it is sent. Only vty_flush changes flushes, so the first conjunct
\* is its weak fairness; the others are those of ReadEnd and PeerTakes.
Fairness ==
  /\ WF_flushes(t.open /\ t.t_write /\ Room # 0 /\ flushes' = 1 - flushes)
  /\ WF_t(t.open /\ Readable /\ gone /\ t' = Closed)
  /\ WF_sock(sock # <<>> /\ sock' = Tail(sock))

Spec == Init /\ [][Next]_vars /\ Fairness

-----------------------------------------------------------------------------
(* Properties                                                               *)

\* Between two handlers no session is left in VTY_CLOSE, and a closed one has no task,
\* no buffer and no timer left (vty_close).
TypeOK ==
  /\ t.status \in {"NORMAL", "MORE"} /\ t.lines \in {-1, 0, Height} /\ t.width \in {0, 1}
  /\ t.t_read \in {"none", "fd", "wfd"}
  /\ ~t.open => t = Closed
  /\ \A i \in 1..Len(t.obuf) : 0 <= t.obuf[i].sp /\ t.obuf[i].sp < Len(t.obuf[i].data)

Newlines(s) == Cardinality({i \in DOMAIN s : s[i] = "n"})

\* No line is lost or sent twice on the way from vty_out through obuf to the terminal,
\* however the output is split into flushes, pages and short writes: what is due is
\* what is still in obuf or in the descriptor. The exception is a page whose write is
\* short: buffer_flush_window has already moved sp past it.
NothingLost ==
  t.open /\ ~t.short =>
    t.due = Len(buffer_getstr(t.obuf)) + Newlines(sock)

\* An open session always has a task that will run: input is read, or output is on its
\* way out and reading resumes after it (vty_flush, "Tempolary disable read thread").
Hears == t.open => t.t_read # "none" \/ (t.t_write /\ t.lines = 0)

\* Whoever waits at --More-- waits for something: there is output left to page, or a flush
\* that will end the wait. Otherwise every later key would be swallowed for nothing.
MoreHasOutput == t.open /\ t.status = "MORE" => t.obuf # <<>> \/ t.t_write

\* The idle timer runs exactly while exec-timeout is set for the session, across reads,
\* changes of the setting and pages (vty_event).
TimerMatches == t.open => t.t_timeout = t.v_timeout

\* One flush shows at most one window: a line less than its height, so that --More-- fits
\* (vty_flush, buffer_flush_window).
PageFits ==
  [][t.open /\ t'.open /\ Paged(t) /\ Len(sock') > Len(sock)
       => Newlines(sock') - Newlines(sock) <= IF Height >= 2 THEN Height - 1 ELSE 1]_vars

\* With "terminal length 0" all output goes out without a key being pressed, and input is
\* read again after it.
EndlessDrains ==
  t.open /\ t.lines = 0 /\ t.obuf # <<>>
    ~> (t.open /\ t.lines = 0 => t.obuf = <<>> /\ t.t_read # "none")

\* Keys bring --More-- to its end: a user who keeps pressing keys gets back to the prompt.
MoreEnds ==
  []<><<keys' # keys>>_keys
    => (t.open /\ t.status = "MORE" ~> t.status = "NORMAL")

\* A session whose peer has gone is closed, also while its reads are suspended for output.
GoneEnds == t.open /\ gone ~> ~t.open

\* The session's output arrives once and in full (vty_out, vty_flush, buffer.c).
OutputKept == TypeOK /\ NothingLost

\* An open session is never left without a task or a timer it needs, nor at a --More--
\* that nothing follows (vty_event, vty_flush, vty_read).
Attentive == Hears /\ MoreHasOutput /\ TimerMatches

\* What a session waits for comes to an end: its output, its pages and its peer.
OutputEnds == EndlessDrains /\ MoreEnds /\ GoneEnds
=============================================================================
