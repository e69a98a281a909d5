---------------------------- MODULE Shell ----------------------------
(* The command shell of libvui (libvui/src/vui/lib/command.c,            *)
(* command_node.c and the parts of vty.c that change a session's mode):  *)
(* the nodes of the command tree, the passwords in front of them, how a  *)
(* command is looked for in the parent nodes, the "do" shortcut, the     *)
(* commands that move between nodes, and the configuration file that is  *)
(* read before the first session, from its backup when it is missing.    *)
(*                                                                       *)
(* Several sessions share one "struct host".  A command is a record      *)
(* [name, arg]; which node knows which name is what install_element and  *)
(* install_default register.  Matching a line against the command graph  *)
(* is the subject of CmdGraph.                                           *)
EXTENDS Naturals

CONSTANTS Sessions,  \* the slots of vtyvec
          Words,     \* the passwords people type
          AppNodes,  \* the nodes the daemon allocates (tap, netlink, vpp)
          Chunks,    \* the backup file is this many 512-byte reads long
          MaxLines,  \* bound: lines of the configuration file
          NULL

\* The application's nodes, and the commands named like them, are its own.
ASSUME ShellAssumption ==
  /\ Chunks \in Nat \ {0} /\ MaxLines \in Nat /\ NULL \notin Words
  /\ AppNodes \intersect {"AUTH", "AUTH_ENABLE", "VIEW", "ENABLE", "CONFIG", "VTY"} = {}
  /\ AppNodes \intersect {"exit", "end", "enable", "disable", "configure", "debug", "no debug",
                           "show", "line vty", "login", "no login"} = {}

VARIABLES host, \* struct host, no_password_check and debug_bitmap
          tty,  \* the sessions' struct vty
          file, \* the struct vty of vty_read_file, and its error list
          boot  \* how far vty_read_config is, and the files on disk

vars == <<host, tty, file, boot>>

-----------------------------------------------------------------------------
(* Nodes and commands. *)

\* command_node.c: the nodes above CONFIG_NODE in the numbering are the
\* ones whose parent is searched.
Below == {"VTY"} \union AppNodes
InConfig == {"CONFIG"} \union Below
Asking == {"AUTH", "AUTH_ENABLE"}
Nodes == Asking \union {"VIEW", "ENABLE"} \union InConfig

\* command_node.c node_parent: -1 for the first five nodes.
node_parent(n) == IF n \in Below THEN "CONFIG" ELSE NULL

\* command.c install_default.
install_default == {"exit", "end"}

\* command.c cmd_init, vty.c vty_init, tap.c setup_tap_node, debug.cc
\* setup_debug_node.  "show" stands for the commands that only print.
Installed ==
  LET view == {"exit", "enable", "show"} IN
  [n \in Nodes |->
    CASE n = "VIEW" -> view
      [] n = "ENABLE" -> view \union {"end", "disable", "configure", "debug", "no debug"}
      [] n = "CONFIG" -> install_default \union AppNodes \union
           {"hostname", "no hostname", "password", "password 8", "no password",
            "enable password", "enable password 8", "no enable password",
            "service password-encryption", "no service password-encryption",
            "service advanced-vty", "no service advanced-vty", "line vty", "debug", "no debug"}
      [] n = "VTY" -> install_default \union {"login", "no login"}
      [] n \in AppNodes -> install_default
      [] OTHER -> {}]

\* A word that does not start with a letter or a digit.
BadWord == "*"

\* The texts a command may carry.
Args(name) ==
  CASE name \in {"password", "enable password"} -> Words \union {BadWord}
    [] name \in {"password 8", "enable password 8"} -> Words
    [] name = "hostname" -> {"name", BadWord}
    [] name \in {"debug", "no debug"} -> {"full", "abbreviated"}
    [] OTHER -> {NULL}

Commands == UNION {{[name |-> n, arg |-> a] : a \in Args(n)} :
                   n \in (UNION {Installed[m] : m \in Nodes}) \union {"unknown"}}

-----------------------------------------------------------------------------
(* The commands' functions: what they make of the host and the session.  *)

\* command.c config_password: a word given with 8 is taken as encrypted, a
\* plain word is kept as it is typed, or only encrypted when encryption is on.
config_password(h, eight, w) ==
  IF eight \/ h.encrypt THEN [h EXCEPT !.password = NULL, !.password_encrypt = w]
  ELSE [h EXCEPT !.password = w]

\* command.c config_enable_password.
config_enable_password(h, eight, w) ==
  IF eight \/ h.encrypt THEN [h EXCEPT !.enable = NULL, !.enable_encrypt = w]
  ELSE [h EXCEPT !.enable = w]

\* command.c no_config_password and no_config_enable_password.
no_config_password(h) == [h EXCEPT !.password = NULL, !.password_encrypt = NULL]
no_config_enable_password(h) == [h EXCEPT !.enable = NULL, !.enable_encrypt = NULL]

\* vty.c service_advanced_vty, vty_login and their opposites.
service_advanced_vty(h, on) == [h EXCEPT !.advanced = on]
vty_login(h, on) == [h EXCEPT !.no_password_check = ~on]

\* command.c config_no_hostname: cmd_hostname_set(NULL) duplicates no string.
config_no_hostname(h) == [h EXCEPT !.up = FALSE]

\* debug.cc set_debug: one bit of debug_bitmap.
set_debug(h, on) == [h EXCEPT !.debug = on]

\* Variant: an encrypted copy that exists is not replaced.
EncryptKeepsOld(h) ==
  IF h.encrypt THEN h
  ELSE [h EXCEPT !.encrypt = TRUE,
                 !.password_encrypt = IF @ = NULL THEN h.password ELSE @,
                 !.enable_encrypt = IF @ = NULL THEN h.enable ELSE @]

\* command.c service_password_encrypt.
service_password_encrypt(h) ==
  IF h.encrypt THEN h
  ELSE [h EXCEPT !.encrypt = TRUE,
                 !.password_encrypt = IF h.password # NULL THEN h.password ELSE @,
                 !.enable_encrypt = IF h.enable # NULL THEN h.enable ELSE @]

\* command.c no_service_password_encrypt.
no_service_password_encrypt(h) ==
  IF ~h.encrypt THEN h
  ELSE [h EXCEPT !.encrypt = FALSE, !.password_encrypt = NULL,
                 !.enable_encrypt = NULL]

HostAfter(h, c) ==
  CASE c.name = "password" -> config_password(h, FALSE, c.arg)
    [] c.name = "password 8" -> config_password(h, TRUE, c.arg)
    [] c.name = "no password" -> no_config_password(h)
    [] c.name = "enable password" -> config_enable_password(h, FALSE, c.arg)
    [] c.name = "enable password 8" -> config_enable_password(h, TRUE, c.arg)
    [] c.name = "no enable password" -> no_config_enable_password(h)
    [] c.name = "service password-encryption" -> service_password_encrypt(h)
    [] c.name = "no service password-encryption" -> no_service_password_encrypt(h)
    [] c.name = "service advanced-vty" -> service_advanced_vty(h, TRUE)
    [] c.name = "no service advanced-vty" -> service_advanced_vty(h, FALSE)
    [] c.name = "login" -> vty_login(h, TRUE)
    [] c.name = "no login" -> vty_login(h, FALSE)
    [] c.name = "debug" -> set_debug(h, TRUE)
    [] c.name = "no debug" -> set_debug(h, FALSE)
    [] c.name = "no hostname" -> config_no_hostname(h)
    [] OTHER -> h

\* Variant: the session stays in configuration mode.
ExitKeepsConfig(v) ==
  CASE v.node \in {"VIEW", "ENABLE"} -> [v EXCEPT !.status = "CLOSE"]
    [] v.node = "CONFIG" -> [v EXCEPT !.node = "ENABLE"]
    [] OTHER -> [v EXCEPT !.node = node_parent(v.node)]

\* command.c cmd_exit.
cmd_exit(v) ==
  CASE v.node \in {"VIEW", "ENABLE"} -> [v EXCEPT !.status = "CLOSE"]
    [] v.node = "CONFIG" -> [v EXCEPT !.node = "ENABLE", !.config = FALSE]
    [] OTHER -> [v EXCEPT !.node = node_parent(v.node)]

\* command.c config_end, vty.c vty_end_config (^Z) and vty_stop_input (^C).
config_end(v) == IF v.config THEN [v EXCEPT !.config = FALSE, !.node = "ENABLE"] ELSE v

\* command.c enable.  Without an enable password the level is free.
enable(h, v) ==
  IF h.enable = NULL /\ h.enable_encrypt = NULL
    THEN [v EXCEPT !.node = "ENABLE", !.earned = TRUE]
    ELSE [v EXCEPT !.node = "AUTH_ENABLE"]

\* command.c config_terminal with vty.c vty_config_enter, and disable.
config_terminal(v) == [v EXCEPT !.node = "CONFIG", !.config = TRUE]
disable(v) == IF v.node = "ENABLE" THEN [v EXCEPT !.node = "VIEW", !.earned = FALSE] ELSE v

\* vty.c line_vty; tap.c, the command that enters the application's node.
line_vty(v) == [v EXCEPT !.node = "VTY"]
EnterNode(v, n) == [v EXCEPT !.node = n, !.config = TRUE]

VtyAfter(h, v, c) ==
  CASE c.name = "exit" -> cmd_exit(v)
    [] c.name = "end" -> config_end(v)
    [] c.name = "configure" -> config_terminal(v)
    [] c.name = "enable" -> enable(h, v)
    [] c.name = "disable" -> disable(v)
    [] c.name = "line vty" -> line_vty(v)
    [] c.name \in AppNodes -> EnterNode(v, c.name)
    [] OTHER -> v

\* What the function returns.  debug compares the typed text with the full
\* name, so an abbreviation that the matcher accepts is refused here.
Answer(c) == IF c.arg \in {BadWord, "abbreviated"} THEN "WARNING_CONFIG_FAILED" ELSE "SUCCESS"

\* command.c cmd_execute_command_real.
cmd_execute_command_real(h, v, c) ==
  IF c.name \notin Installed[v.node] THEN [h |-> h, v |-> v, ret |-> "NO_MATCH"]
  ELSE IF Answer(c) # "SUCCESS" THEN [h |-> h, v |-> v, ret |-> Answer(c)]
  ELSE [h |-> HostAfter(h, c), v |-> VtyAfter(h, v, c), ret |-> "SUCCESS"]

\* The rounds of the climbing loop: the parent is tried while the node is
\* above CONFIG_NODE.
TryParent(h, v, c) ==
  IF v.node \in Below
    THEN cmd_execute_command_real(h, [v EXCEPT !.node = node_parent(@)], c)
    ELSE [h |-> h, v |-> v, ret |-> "NO_MATCH"]

Found(r) == r.ret # "NO_MATCH"

\* Variant: the session is left where the search ended.
ExecuteForgetsNode(h, v, c) ==
  LET here == cmd_execute_command_real(h, v, c)
  IN IF Found(here) \/ v.node \notin Below THEN here ELSE TryParent(h, v, c)

\* command.c cmd_execute_command without "do": a failure in a parent other
\* than "no such command" leaves the session in the parent.
cmd_execute_command(h, v, c) ==
  LET here == cmd_execute_command_real(h, v, c)
      above == TryParent(h, v, c)
  IN IF Found(here) THEN here
     ELSE IF Found(above) THEN above
     ELSE [here EXCEPT !.v.node = v.node]

\* command.c cmd_try_do_shortcut and the branch it guards: the command runs
\* in ENABLE_NODE and the node, but not vty->config, is put back.
DoShortcut(h, v, c) ==
  LET r == cmd_execute_command_real(h, [v EXCEPT !.node = "ENABLE"], c)
  IN [r EXCEPT !.v = [r.v EXCEPT !.node = v.node, !.earned = v.earned,
                                 !.astray = v.astray \/ (r.v.config # v.config)]]

\* command.c command_config_read_one_line: here a parent that fails puts the
\* node back, too.
command_config_read_one_line(h, v, c) ==
  LET here == cmd_execute_command_real(h, v, c)
      above == TryParent(h, v, c)
  IN IF Found(here) \/ v.node = "CONFIG" THEN here
     ELSE IF above.ret = "SUCCESS" THEN above
     ELSE [above EXCEPT !.v.node = v.node]

-----------------------------------------------------------------------------
(* The password prompts. *)

\* vty.c vty_auth: the copy that is compared.
Kept(h, n) ==
  IF n = "AUTH" THEN IF h.encrypt THEN h.password_encrypt ELSE h.password
  ELSE IF h.encrypt THEN h.enable_encrypt ELSE h.enable

\* vty.c vty_auth: where the right word leads.
NextNode(h, n) ==
  IF n = "AUTH" /\ ~(h.advanced /\ h.enable = NULL) THEN "VIEW" ELSE "ENABLE"

vty_auth(h, v, w) ==
  IF Kept(h, v.node) = w
    THEN [v EXCEPT !.fail = 0, !.node = NextNode(h, v.node),
                   !.earned = (NextNode(h, v.node) = "ENABLE")]
  ELSE IF v.fail + 1 < 3 THEN [v EXCEPT !.fail = @ + 1]
  ELSE [v EXCEPT !.fail = IF v.node = "AUTH" THEN 3 ELSE 0, !.status = "CLOSE"]

-----------------------------------------------------------------------------
(* States. *)

\* vty.c vty_new and vty_new_init.  "earned" and "astray" are history: the
\* enable level was granted; a "do" changed vty->config.
Vty(n, c) == [node |-> n, config |-> c, status |-> "NORMAL", fail |-> 0,
              earned |-> n \in {"ENABLE", "CONFIG"}, astray |-> FALSE]

Closed == NULL

\* main.cc vui_manager: the daemon's own password is set before the file is
\* read.  "said" is history: the passwords asked for last.
Host == {[password |-> w, password_encrypt |-> NULL, enable |-> NULL,
          enable_encrypt |-> NULL, encrypt |-> FALSE, advanced |-> FALSE,
          no_password_check |-> FALSE, debug |-> FALSE, up |-> TRUE,
          said |-> [password |-> w, enable |-> NULL]] : w \in Words}

\* Nobody is connected, or only the console (vty.c vty_stdio).
Consoles == {[s \in Sessions |-> IF s \in on THEN Vty("ENABLE", FALSE) ELSE Closed] :
              on \in {{}} \union {{s} : s \in Sessions}}

\* vty.c vty_read_file: the session that runs the lines of the file.
NewFile == [v |-> Vty("CONFIG", TRUE), n |-> 0]

Init == /\ host \in Host /\ tty \in Consoles /\ file = NewFile
        /\ boot \in [pc : {"open"}, conf : {NULL, Chunks}, sav : {NULL, Chunks},
                     tmp : {NULL}, read : {0}, ioerror : {FALSE}]

-----------------------------------------------------------------------------
(* Reading the configuration at the start.  fclose and host_config_set    *)
(* end it; the files do not change afterwards and are forgotten.          *)

Done == [pc |-> "run", conf |-> NULL, sav |-> NULL, tmp |-> NULL, read |-> 0, ioerror |-> FALSE]
Reading == /\ boot.pc # "run"
           /\ UNCHANGED <<host, tty, file>>

\* vty.c vty_read_config; vty_use_backup_config up to fchmod.
vty_read_config ==
  /\ boot.pc = "open" /\ Reading
  /\ \/ boot.conf # NULL /\ boot' = [boot EXCEPT !.pc = "lines"]
     \/ boot.conf = NULL /\ boot' = Done
     \/ /\ boot.conf = NULL /\ boot.sav # NULL
        /\ boot' = [boot EXCEPT !.pc = "copy", !.tmp = 0, !.read = 0]

\* Variant: the backup is copied straight onto the configuration file.
CopyInPlace ==
  /\ boot.pc = "copy" /\ Reading
  /\ \/ boot.read < boot.sav /\ boot' = [boot EXCEPT !.read = @ + 1, !.tmp = @ + 1, !.conf = boot.tmp + 1]
     \/ boot.read = boot.sav /\ boot' = [boot EXCEPT !.pc = "rename"]

\* vty.c vty_use_backup_config, the copying loop: a failed read ends it like
\* the end of the file, and a short write is not noticed.
CopyChunk ==
  /\ boot.pc = "copy" /\ Reading
  /\ \/ /\ boot.read < boot.sav
        /\ \/ boot' = [boot EXCEPT !.read = @ + 1, !.tmp = @ + 1]
           \/ boot' = [boot EXCEPT !.read = @ + 1, !.ioerror = TRUE]
           \/ boot' = [boot EXCEPT !.pc = "rename", !.ioerror = TRUE]
           \/ boot' = Done
     \/ boot.read = boot.sav /\ boot' = [boot EXCEPT !.pc = "rename"]

\* vty.c vty_use_backup_config: rename, then fopen; or unlink.
Rename ==
  /\ boot.pc = "rename" /\ Reading
  /\ \/ boot' = [boot EXCEPT !.pc = "lines", !.conf = boot.tmp, !.tmp = NULL]
     \/ boot' = Done

\* The passwords the person asked for, by command or by file.
Said(h, c) ==
  CASE c.name \in {"password", "password 8"} -> [h.said EXCEPT !.password = c.arg]
    [] c.name = "no password" -> [h.said EXCEPT !.password = NULL]
    [] c.name \in {"enable password", "enable password 8"} -> [h.said EXCEPT !.enable = c.arg]
    [] c.name = "no enable password" -> [h.said EXCEPT !.enable = NULL]
    [] OTHER -> h.said

Noted(r, c) == IF r.ret = "SUCCESS" THEN [r.h EXCEPT !.said = Said(r.h, c)] ELSE r.h

\* command.c config_from_file: one turn of the loop.
ReadLine(c) ==
  LET r == command_config_read_one_line(host, file.v, c) IN
  /\ boot.pc = "lines" /\ host.up /\ file.n < MaxLines
  /\ host' = Noted(r, c)
  /\ file' = [v |-> r.v, n |-> file.n + 1]
  /\ UNCHANGED <<tty, boot>>

\* vty.c vty_read_file: the end of the file.
EndOfFile ==
  /\ boot.pc = "lines" /\ host.up
  /\ boot' = Done
  /\ file' = NewFile
  /\ UNCHANGED <<host, tty>>

\* The process dies while it starts, and is started again.
Crash == /\ boot.pc # "run"
         /\ host' \in Host /\ tty' \in Consoles /\ file' = NewFile
         /\ boot' = [boot EXCEPT !.pc = "open", !.tmp = NULL, !.read = 0]

-----------------------------------------------------------------------------
(* Sessions. *)

Running(s) == boot.pc = "run" /\ host.up /\ UNCHANGED <<file, boot>>
Open(s) == Running(s) /\ tty[s] # Closed

\* vty.c vty_create: refused when a password is asked for and none is set.
vty_create(s) ==
  /\ Running(s) /\ tty[s] = Closed
  /\ tty' = [tty EXCEPT ![s] =
       IF host.no_password_check THEN Vty(IF host.advanced THEN "ENABLE" ELSE "VIEW", FALSE)
       ELSE IF host.password = NULL /\ host.password_encrypt = NULL THEN Closed
       ELSE Vty("AUTH", FALSE)]
  /\ UNCHANGED host

\* vty.c vty_execute and vty_command, command.c cmd_execute.
vty_command(s, c) ==
  LET r == cmd_execute_command(host, tty[s], c) IN
  /\ Open(s) /\ tty[s].node \notin Asking
  /\ tty' = [tty EXCEPT ![s] = r.v]
  /\ host' = Noted(r, c)

\* The same with "do" in front, in the nodes that know it.
DoCommand(s, c) ==
  LET r == DoShortcut(host, tty[s], c) IN
  /\ Open(s) /\ tty[s].node \notin Asking \union {"VIEW"}
  /\ tty' = [tty EXCEPT ![s] = r.v]
  /\ host' = Noted(r, c)

\* A session that is not among Sessions runs a command of CONFIG_NODE or
\* VTY_NODE: of such a session only what it does to the host matters.
Elsewhere(c) ==
  /\ boot.pc = "run" /\ host.up /\ c.name \in Installed["CONFIG"] \union Installed["VTY"]
  /\ Answer(c) = "SUCCESS"
  /\ host' = [HostAfter(host, c) EXCEPT !.said = Said(host, c)]
  /\ UNCHANGED <<tty, file, boot>>

\* vty.c vty_execute at a password prompt.
Login(s, w) ==
  /\ Open(s) /\ tty[s].node \in Asking /\ tty[s].status = "NORMAL"
  /\ tty' = [tty EXCEPT ![s] = vty_auth(host, tty[s], w)]
  /\ UNCHANGED host

\* vty.c vty_end_config (^Z) and vty_stop_input (^C).
ControlZ(s) ==
  /\ Open(s) /\ tty[s].config
  /\ tty' = [tty EXCEPT ![s] = config_end(@)]
  /\ UNCHANGED host

\* vty.c vty_down_level: ^D on an empty line.  A prompt node has no parent,
\* and cmd_prompt then reads outside cmdvec.
vty_down_level(s) ==
  /\ Open(s)
  /\ IF tty[s].node \in Asking THEN host' = [host EXCEPT !.up = FALSE] /\ UNCHANGED tty
     ELSE tty' = [tty EXCEPT ![s] = cmd_exit(@)] /\ UNCHANGED host

\* vty.c vty_read and vty_close: after the bytes that were read together.
vty_close(s) ==
  /\ Open(s) /\ tty[s].status = "CLOSE"
  /\ tty' = [tty EXCEPT ![s] = Closed]
  /\ UNCHANGED host

\* The process is started again after it died.
Restart == /\ ~host.up /\ boot' = Done
           /\ host' \in Host /\ tty' \in Consoles /\ file' = NewFile

Next ==
  \/ vty_read_config \/ CopyChunk \/ Rename \/ EndOfFile \/ Crash \/ Restart
  \/ \E c \in Commands : ReadLine(c) \/ Elsewhere(c)
  \/ \E s \in Sessions :
       \/ vty_create(s) \/ ControlZ(s) \/ vty_down_level(s) \/ vty_close(s)
       \/ \E c \in Commands : vty_command(s, c) \/ DoCommand(s, c)
       \/ \E w \in Words : Login(s, w)

Spec == Init /\ [][Next]_vars

-----------------------------------------------------------------------------
(* Properties. *)

Live == {s \in Sessions : tty[s] # Closed}

TypeOK ==
  /\ \A f \in {"password", "password_encrypt", "enable", "enable_encrypt"} :
       host[f] \in Words \union {NULL}
  /\ \A f \in {"encrypt", "advanced", "no_password_check", "debug", "up"} : host[f] \in BOOLEAN
  /\ \A s \in Live : /\ tty[s].node \in Nodes /\ tty[s].fail \in 0..3
                     /\ tty[s].fail = 3 => tty[s].status = "CLOSE"
  /\ file.v.node \in Nodes /\ file.n \in 0..MaxLines
  /\ boot.pc \in {"open", "copy", "rename", "lines", "run"}

\* A prompt accepts no word but the one set last: however setting, removing
\* and encrypting follow each other, vty_auth (vty.c) never compares with an
\* older copy that another command left in the host structure.
NoOldPassword ==
  /\ Kept(host, "AUTH") \in {NULL, host.said.password}
  /\ Kept(host, "AUTH_ENABLE") \in {NULL, host.said.enable}

\* vty->config tells whether the session is in configuration mode, which is
\* what "end", ^Z and ^C decide by; only a "do" that runs "configure" or
\* "end" in ENABLE_NODE sets the two apart.
ConfigFlag == \A s \in Live : ~tty[s].astray => (tty[s].config <=> tty[s].node \in InConfig)

\* A session is at the enable level, or below it in the configuration, only
\* after "enable" or the prompt granted it and no "disable" followed; with
\* the same exception.
EnableEarned ==
  \A s \in Live : tty[s].node \in {"ENABLE"} \union InConfig => tty[s].earned \/ tty[s].astray

\* The mode of a session is the one its commands and passwords led to: its flag follows
\* its node, and the enable level was granted (cmd_exit, config_end, enable, vty_auth).
ModesRight == ConfigFlag /\ EnableEarned

\* A command typed in a configuration node is found when that node or
\* CONFIG_NODE has it, and a line nothing knows leaves the session where it
\* was (command.c cmd_execute_command).
SearchesParents ==
  \A s \in Live : \A c \in Commands :
    LET r == cmd_execute_command(host, tty[s], c)
    IN /\ tty[s].node \in InConfig =>
            (Found(r) <=> c.name \in Installed[tty[s].node] \union Installed["CONFIG"])
       /\ ~Found(r) => r.v = tty[s] /\ r.h = host

\* The same for a line of the file, where every failure leaves the node as
\* it was (command.c command_config_read_one_line).
FileSearchesParents ==
  \A c \in Commands :
    LET r == command_config_read_one_line(host, file.v, c)
    IN /\ file.v.node \in InConfig =>
            (Found(r) <=> c.name \in Installed[file.v.node] \union Installed["CONFIG"])
       /\ r.ret # "SUCCESS" => r.v = file.v /\ r.h = host

\* "exit" always leads out: from every node but a prompt, at most three of
\* them close the session (command.c cmd_exit, command_node.c node_parent).
ExitLeadsOut ==
  \A s \in Live : tty[s].node \notin Asking =>
    \E last \in {cmd_exit(tty[s]), cmd_exit(cmd_exit(tty[s])),
                 cmd_exit(cmd_exit(cmd_exit(tty[s])))} : last.status = "CLOSE"

\* Whatever step of the recovery the process dies at, the configuration file
\* is missing or whole, unless the disk failed while the backup was copied
\* (vty.c vty_use_backup_config).
ConfWhole == ~boot.ioerror => boot.conf \in {NULL, Chunks}

\* Lines typed or read from the file find their commands in the tree of nodes, and the
\* tree can be left again.
CommandsFound == TypeOK /\ SearchesParents /\ FileSearchesParents /\ ExitLeadsOut
=============================================================================
