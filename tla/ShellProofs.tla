----------------------------- MODULE ShellProofs -----------------------------
(***************************************************************************)
(* Proofs about Shell, for every number of sessions, every set of          *)
(* passwords and application nodes, and every length of the configuration  *)
(* and of its backup.                                                      *)
(***************************************************************************)
EXTENDS Shell, TLAPS

Kept0 == Words \union {NULL}

HostType ==
  [password : Kept0, password_encrypt : Kept0, enable : Kept0, enable_encrypt : Kept0,
   encrypt : BOOLEAN, advanced : BOOLEAN, no_password_check : BOOLEAN, debug : BOOLEAN,
   up : BOOLEAN, said : [password : Kept0, enable : Kept0]]

\* A plain copy is the word set last.  The encrypted one is, too, whenever it is
\* the one that counts, or would be the one to stay when encryption is turned on.
HostOK(h) ==
  /\ h \in HostType
  /\ h.password \in {NULL, h.said.password}
  /\ h.enable \in {NULL, h.said.enable}
  /\ h.encrypt \/ h.password = NULL => h.password_encrypt \in {NULL, h.said.password}
  /\ h.encrypt \/ h.enable = NULL => h.enable_encrypt \in {NULL, h.said.enable}

VtyType == [node : Nodes, config : BOOLEAN, status : {"NORMAL", "CLOSE"}, fail : Nat,
            earned : BOOLEAN, astray : BOOLEAN]

VtyOK(v) ==
  /\ v \in VtyType
  /\ ~v.astray => (v.config <=> v.node \in InConfig)
  /\ v.node \in {"ENABLE"} \union InConfig => v.earned \/ v.astray

TtyOK(t) == /\ t = [s \in Sessions |-> t[s]]
            /\ \A s \in Sessions : t[s] # Closed => VtyOK(t[s])

BootType ==
  [pc : {"open", "copy", "rename", "lines", "run"}, conf : Nat \union {NULL},
   sav : {NULL, Chunks}, tmp : Nat \union {NULL}, read : Nat, ioerror : BOOLEAN]

\* The copy of the backup is as long as what was read of it.
BootOK ==
  /\ boot \in BootType
  /\ boot.pc = "copy" => boot.sav = Chunks /\ boot.tmp \in Nat /\ boot.read <= Chunks
  /\ ~boot.ioerror => /\ boot.conf \in {NULL, Chunks}
                      /\ boot.pc = "copy" => boot.tmp = boot.read
                      /\ boot.pc = "rename" => boot.tmp = Chunks

IInv == HostOK(host) /\ TtyOK(tty) /\ BootOK

-----------------------------------------------------------------------------
(* The host structure.                                                     *)

\* No password is NULL.
LEMMA WordFacts == NULL \notin Words
BY ShellAssumption, ZenonT(60)

\* The nodes of the application are none of the library's nodes or commands.
LEMMA AppFacts ==
  ASSUME NEW a \in AppNodes
  PROVE  a \notin {"AUTH", "AUTH_ENABLE", "VIEW", "ENABLE", "CONFIG", "VTY", "exit", "end", "enable",
                   "disable", "configure", "debug", "no debug", "show", "line vty", "login", "no login"}
BY ShellAssumption, ZenonT(60)

\* A password command that succeeds has a password as its argument.
LEMMA CommandArgs ==
  ASSUME NEW c \in Commands, Answer(c) = "SUCCESS",
         c.name \in {"password", "password 8", "enable password", "enable password 8"}
  PROVE  c.arg \in Words
<1>1. PICK n \in (UNION {Installed[m] : m \in Nodes}) \union {"unknown"} :
        c \in {[name |-> n, arg |-> a] : a \in Args(n)}
  BY ZenonT(60) DEF Commands
<1>a. PICK a \in Args(n) : c = [name |-> n, arg |-> a]
  BY <1>1, ZenonT(60)
<1>2. c.name = n /\ c.arg \in Args(n)
  BY <1>a, ZenonT(60)
<1>3. c.arg # BadWord
  BY ZenonT(60) DEF Answer
<1>4. QED
  BY <1>2, <1>3, ZenonT(60) DEF Args

\* Whatever command runs, the host structure stays in order.
LEMMA HostStep ==
  ASSUME NEW h, HostOK(h), NEW c \in Commands, Answer(c) = "SUCCESS"
  PROVE  HostOK([HostAfter(h, c) EXCEPT !.said = Said(h, c)]) /\ HostAfter(h, c).said = h.said
<1> DEFINE g == HostAfter(h, c)
<1>0. h \in HostType
  BY DEF HostOK
<1>1. CASE c.name \in {"password", "password 8"}
  <2>1. c.arg \in Words
    BY <1>1, CommandArgs, ZenonT(60)
  <2>2. Said(h, c) = [h.said EXCEPT !.password = c.arg]
    BY <1>1, ZenonT(60) DEF Said
  <2>3. g = IF c.name = "password 8" \/ h.encrypt THEN [h EXCEPT !.password = NULL, !.password_encrypt = c.arg]
            ELSE [h EXCEPT !.password = c.arg]
    BY <1>1, ZenonT(60) DEF HostAfter, config_password
  <2>4. CASE c.name = "password 8" \/ h.encrypt
    BY <1>0, <2>1, <2>2, <2>3, <2>4, ZenonT(60) DEF HostOK, HostType, Kept0
  <2>5. CASE ~(c.name = "password 8" \/ h.encrypt)
    BY <1>0, <2>1, <2>2, <2>3, <2>5, WordFacts, ZenonT(60) DEF HostOK, HostType, Kept0
  <2>6. QED
    BY <2>4, <2>5, ZenonT(60)
<1>2. CASE c.name \in {"enable password", "enable password 8"}
  <2>1. c.arg \in Words
    BY <1>2, CommandArgs, ZenonT(60)
  <2>2. Said(h, c) = [h.said EXCEPT !.enable = c.arg]
    BY <1>2, ZenonT(60) DEF Said
  <2>3. g = IF c.name = "enable password 8" \/ h.encrypt THEN [h EXCEPT !.enable = NULL, !.enable_encrypt = c.arg]
            ELSE [h EXCEPT !.enable = c.arg]
    BY <1>2, ZenonT(60) DEF HostAfter, config_enable_password
  <2>4. CASE c.name = "enable password 8" \/ h.encrypt
    BY <1>0, <2>1, <2>2, <2>3, <2>4, ZenonT(60) DEF HostOK, HostType, Kept0
  <2>5. CASE ~(c.name = "enable password 8" \/ h.encrypt)
    BY <1>0, <2>1, <2>2, <2>3, <2>5, WordFacts, ZenonT(60) DEF HostOK, HostType, Kept0
  <2>6. QED
    BY <2>4, <2>5, ZenonT(60)
<1>3. CASE c.name = "no password"
  BY <1>0, <1>3, ZenonT(60) DEF HostAfter, no_config_password, Said, HostOK, HostType, Kept0
<1>4. CASE c.name = "no enable password"
  BY <1>0, <1>4, ZenonT(60) DEF HostAfter, no_config_enable_password, Said, HostOK, HostType, Kept0
<1>5. CASE c.name \notin {"password", "password 8", "enable password", "enable password 8",
                          "no password", "no enable password"}
  <2>1. Said(h, c) = h.said
    BY <1>5, ZenonT(60) DEF Said
  <2>2. CASE c.name = "service password-encryption"
    <3>1. g = service_password_encrypt(h)
      BY <2>2, ZenonT(60) DEF HostAfter
    <3>2. CASE h.encrypt
      BY <1>0, <2>1, <3>1, <3>2 DEF service_password_encrypt, HostOK, HostType
    <3>3. CASE ~h.encrypt
      BY <1>0, <2>1, <3>1, <3>3, ZenonT(60) DEF service_password_encrypt, HostOK, HostType, Kept0
    <3>4. QED
      BY <3>2, <3>3
  <2>3. CASE c.name = "no service password-encryption"
    BY <1>0, <2>1, <2>3, ZenonT(60) DEF HostAfter, no_service_password_encrypt, HostOK, HostType, Kept0
  <2>4. CASE c.name \notin {"service password-encryption", "no service password-encryption"}
    <3>1. \E b \in BOOLEAN : g \in {h, [h EXCEPT !.advanced = b], [h EXCEPT !.no_password_check = b],
                                    [h EXCEPT !.debug = b], [h EXCEPT !.up = b]}
      <4>1. CASE c.name \in {"service advanced-vty", "no service advanced-vty"}
        BY <4>1, ZenonT(60) DEF HostAfter, service_advanced_vty
      <4>2. CASE c.name \in {"login", "no login"}
        BY <4>2, ZenonT(60) DEF HostAfter, vty_login
      <4>3. CASE c.name \in {"debug", "no debug"}
        BY <4>3, ZenonT(60) DEF HostAfter, set_debug
      <4>4. CASE c.name = "no hostname"
        BY <4>4, ZenonT(60) DEF HostAfter, config_no_hostname
      <4>5. CASE c.name \notin {"service advanced-vty", "no service advanced-vty", "login", "no login",
                                "debug", "no debug", "no hostname"}
        BY <1>5, <2>4, <4>5, ZenonT(60) DEF HostAfter
      <4>6. QED
        BY <4>1, <4>2, <4>3, <4>4, <4>5, ZenonT(60)
    <3> HIDE DEF g
    <3>2. HostOK([g EXCEPT !.said = h.said]) /\ g.said = h.said
      BY <1>0, <3>1 DEF HostOK, HostType
    <3>3. QED
      BY <2>1, <3>2 DEF g
  <2>5. QED
    BY <2>2, <2>3, <2>4, ZenonT(60)
<1>6. QED
  BY <1>1, <1>2, <1>3, <1>4, <1>5, ZenonT(60)

-----------------------------------------------------------------------------
(* The sessions.                                                           *)

\* How the nodes of the shell are nested.
LEMMA NodeFacts ==
  /\ Below \subseteq InConfig /\ InConfig \subseteq Nodes
  /\ {"VIEW", "ENABLE", "AUTH", "AUTH_ENABLE", "CONFIG", "VTY"} \subseteq Nodes
  /\ "CONFIG" \in InConfig /\ "VTY" \in InConfig /\ AppNodes \subseteq InConfig
  /\ {"VIEW", "ENABLE", "AUTH", "AUTH_ENABLE"} \intersect InConfig = {}
  /\ "CONFIG" \notin Below
  /\ Nodes = {"VIEW", "ENABLE", "AUTH", "AUTH_ENABLE", "CONFIG"} \union Below
BY ShellAssumption, ZenonT(60) DEF Below, InConfig, Nodes, Asking

\* Which nodes know the commands that change a session.
LEMMA KnownIn ==
  ASSUME NEW n \in Nodes, NEW name \in Installed[n]
  PROVE  /\ n \notin Asking
         /\ name \in {"configure", "disable"} => n = "ENABLE"
         /\ name = "enable" => n \in {"VIEW", "ENABLE"}
         /\ name \in {"line vty"} \union AppNodes => n = "CONFIG"
<1>1. CASE n = "VIEW"
  <2>1. name \in {"exit", "enable", "show"}
    BY <1>1, AppFacts, ZenonT(60) DEF Installed
  <2>2. QED
    BY <1>1, <2>1, AppFacts, ZenonT(60) DEF Asking
<1>2. CASE n = "ENABLE"
  <2>1. name \in {"exit", "enable", "show", "end", "disable", "configure", "debug", "no debug"}
    BY <1>2, AppFacts, ZenonT(60) DEF Installed
  <2>2. QED
    BY <1>2, <2>1, AppFacts, ZenonT(60) DEF Asking
<1>3. CASE n = "CONFIG"
  <2>1. name \notin {"configure", "disable", "enable"}
    BY <1>3, AppFacts, ZenonT(60) DEF Installed, install_default
  <2>2. QED
    BY <1>3, <2>1 DEF Asking
<1>4. CASE n = "VTY"
  <2>1. name \in {"exit", "end", "login", "no login"}
    BY <1>4, AppFacts, ZenonT(60) DEF Installed, install_default
  <2>2. QED
    BY <1>4, <2>1, AppFacts, ZenonT(60) DEF Asking
<1>5. CASE n \in AppNodes
  <2>1. name \in {"exit", "end"}
    BY <1>5, AppFacts, ZenonT(60) DEF Installed, install_default
  <2>2. QED
    BY <1>5, <2>1, AppFacts, ZenonT(60) DEF Asking
<1>6. CASE n \in Asking
  BY <1>6, AppFacts, ZenonT(60) DEF Installed, Asking
<1>7. QED
  BY <1>1, <1>2, <1>3, <1>4, <1>5, <1>6, NodeFacts, ZenonT(60) DEF Below, Asking

\* cmd_exit keeps a session in order.
LEMMA ExitStep ==
  ASSUME NEW v, VtyOK(v), v.node \notin Asking
  PROVE  VtyOK(cmd_exit(v))
<1>1. CASE v.node \in {"VIEW", "ENABLE"}
  BY <1>1 DEF cmd_exit, VtyOK, VtyType
<1>2. CASE v.node = "CONFIG"
  BY <1>2, NodeFacts, ZenonT(60) DEF cmd_exit, VtyOK, VtyType
<1>3. CASE v.node \in Below
  BY <1>3, NodeFacts DEF cmd_exit, VtyOK, VtyType, node_parent
<1>4. QED
  BY <1>1, <1>2, <1>3, NodeFacts DEF VtyOK, VtyType, Asking

\* config_end keeps a session in order.
LEMMA EndStep ==
  ASSUME NEW v, VtyOK(v)
  PROVE  VtyOK(config_end(v))
BY NodeFacts, ZenonT(60) DEF config_end, VtyOK, VtyType

\* A command that runs where it is installed keeps a session in order.
LEMMA RealStep ==
  ASSUME NEW h, NEW v, VtyOK(v), NEW c
  PROVE  VtyOK(cmd_execute_command_real(h, v, c).v)
<1> DEFINE r == cmd_execute_command_real(h, v, c)
<1>1. r.v = v \/ (c.name \in Installed[v.node] /\ r.v = VtyAfter(h, v, c))
  BY DEF cmd_execute_command_real
<1>2. SUFFICES ASSUME c.name \in Installed[v.node] PROVE VtyOK(VtyAfter(h, v, c))
  BY <1>1
<1>3. v \in VtyType /\ v.node \in Nodes /\ v.node \notin Asking
  BY <1>2, KnownIn, ZenonT(60) DEF VtyOK, VtyType
<1>4. CASE c.name = "exit"
  BY <1>4, <1>3, AppFacts, ExitStep, ZenonT(60) DEF VtyAfter
<1>5. CASE c.name = "end"
  BY <1>5, AppFacts, EndStep, ZenonT(60) DEF VtyAfter
<1>6. CASE c.name = "configure"
  <2>1. v.node = "ENABLE"
    BY <1>2, <1>3, <1>6, KnownIn, ZenonT(60)
  <2>2. VtyAfter(h, v, c) = config_terminal(v)
    BY <1>6, AppFacts, ZenonT(60) DEF VtyAfter
  <2>3. QED
    BY <1>3, <2>1, <2>2, NodeFacts, ZenonT(60) DEF config_terminal, VtyOK, VtyType
<1>7. CASE c.name = "enable"
  <2>1. v.node \in {"VIEW", "ENABLE"}
    BY <1>2, <1>3, <1>7, KnownIn, ZenonT(60)
  <2>2. VtyOK(enable(h, v))
    <3>1. CASE h.enable = NULL /\ h.enable_encrypt = NULL
      BY <1>3, <2>1, <3>1, NodeFacts, ZenonT(60) DEF enable, VtyOK, VtyType
    <3>2. CASE ~(h.enable = NULL /\ h.enable_encrypt = NULL)
      BY <1>3, <2>1, <3>2, NodeFacts DEF enable, VtyOK, VtyType
    <3>3. QED
      BY <3>1, <3>2
  <2>3. QED
    BY <1>7, <2>2, AppFacts, ZenonT(60) DEF VtyAfter
<1>8. CASE c.name = "disable"
  <2>1. v.node = "ENABLE"
    BY <1>2, <1>3, <1>8, KnownIn, ZenonT(60)
  <2>2. VtyAfter(h, v, c) = disable(v)
    BY <1>8, AppFacts, ZenonT(60) DEF VtyAfter
  <2>3. QED
    BY <1>3, <2>1, <2>2, NodeFacts, ZenonT(60) DEF disable, VtyOK, VtyType
<1>9. CASE c.name = "line vty"
  <2>1. v.node = "CONFIG"
    BY <1>2, <1>3, <1>9, KnownIn, ZenonT(60)
  <2>2. VtyAfter(h, v, c) = line_vty(v)
    BY <1>9, AppFacts, ZenonT(60) DEF VtyAfter
  <2>3. QED
    BY <1>3, <2>1, <2>2, NodeFacts DEF line_vty, VtyOK, VtyType
<1>10. CASE c.name \in AppNodes
  <2>1. v.node = "CONFIG"
    BY <1>2, <1>3, <1>10, KnownIn, ZenonT(60)
  <2>2. VtyAfter(h, v, c) = EnterNode(v, c.name)
    BY <1>10, AppFacts, ZenonT(60) DEF VtyAfter
  <2>3. QED
    BY <1>3, <1>10, <2>1, <2>2, NodeFacts, ZenonT(60) DEF EnterNode, VtyOK, VtyType
<1>11. CASE c.name \notin {"exit", "end", "configure", "enable", "disable", "line vty"} \union AppNodes
  BY <1>11, ZenonT(60) DEF VtyAfter
<1>12. QED
  BY <1>4, <1>5, <1>6, <1>7, <1>8, <1>9, <1>10, <1>11, ZenonT(60)

\* cmd_execute_command_real changes the host only when the command succeeds.
LEMMA RealShape ==
  ASSUME NEW h, NEW v, NEW c
  PROVE  LET r == cmd_execute_command_real(h, v, c)
         IN /\ r = [h |-> r.h, v |-> r.v, ret |-> r.ret]
            /\ \/ r.ret # "SUCCESS" /\ r.h = h
               \/ r.ret = "SUCCESS" /\ r.h = HostAfter(h, c) /\ Answer(c) = "SUCCESS"
BY DEF cmd_execute_command_real, Answer

\* The climb to the parent node, with its answer in the parent or back here.
LEMMA ParentStep ==
  ASSUME NEW h, NEW v, VtyOK(v), NEW c
  PROVE  LET r == TryParent(h, v, c)
         IN /\ VtyOK(r.v)
            /\ r = [h |-> r.h, v |-> r.v, ret |-> r.ret]
            /\ \/ r.ret # "SUCCESS" /\ r.h = h
               \/ r.ret = "SUCCESS" /\ r.h = HostAfter(h, c) /\ Answer(c) = "SUCCESS"
<1>1. CASE v.node \in Below
  <2>1. VtyOK([v EXCEPT !.node = node_parent(@)])
    BY <1>1, NodeFacts DEF VtyOK, VtyType, node_parent
  <2>2. QED
    BY <1>1, <2>1, RealStep, RealShape DEF TryParent
<1>2. CASE v.node \notin Below
  BY <1>2 DEF TryParent
<1>3. QED
  BY <1>1, <1>2

\* cmd_execute_command keeps the session in order, and changes the host only on
\* success.
LEMMA ExecuteStep ==
  ASSUME NEW h, NEW v, VtyOK(v), NEW c
  PROVE  LET r == cmd_execute_command(h, v, c)
         IN /\ VtyOK(r.v)
            /\ \/ r.ret # "SUCCESS" /\ r.h = h
               \/ r.ret = "SUCCESS" /\ r.h = HostAfter(h, c) /\ Answer(c) = "SUCCESS"
<1> DEFINE here == cmd_execute_command_real(h, v, c)
           above == TryParent(h, v, c)
           r == cmd_execute_command(h, v, c)
<1>1. CASE r = here \/ r = above
  BY <1>1, RealStep, RealShape, ParentStep
<1>2. CASE ~Found(here) /\ r = [here EXCEPT !.v.node = v.node]
  <2>1. here = [h |-> h, v |-> v, ret |-> "NO_MATCH"]
    BY <1>2 DEF cmd_execute_command_real, Found, Answer
  <2>2. r = [h |-> h, v |-> [v EXCEPT !.node = v.node], ret |-> "NO_MATCH"]
    BY <1>2, <2>1
  <2>3. [v EXCEPT !.node = v.node] = v
    BY DEF VtyOK, VtyType
  <2>4. QED
    BY <2>2, <2>3
<1>3. QED
  BY <1>1, <1>2 DEF cmd_execute_command

\* "do" puts the node back; what it does to vty->config is remembered as astray.
LEMMA DoStep ==
  ASSUME NEW h, NEW v, VtyOK(v), NEW c, v.node \notin Asking \union {"VIEW"}
  PROVE  LET r == DoShortcut(h, v, c)
         IN /\ VtyOK(r.v)
            /\ \/ r.ret # "SUCCESS" /\ r.h = h
               \/ r.ret = "SUCCESS" /\ r.h = HostAfter(h, c) /\ Answer(c) = "SUCCESS"
<1> DEFINE w == [v EXCEPT !.node = "ENABLE"]
           q == cmd_execute_command_real(h, w, c)
           r == DoShortcut(h, v, c)
<1>1. v.earned \/ v.astray
  BY NodeFacts, ZenonT(60) DEF VtyOK, VtyType, Asking
<1>2. w \in VtyType /\ w.node = "ENABLE"
  BY NodeFacts DEF VtyOK, VtyType
<1>3. q.v \in VtyType
  <2>1. q.v = w \/ (c.name \in Installed["ENABLE"] /\ q.v = VtyAfter(h, w, c))
    BY <1>2 DEF cmd_execute_command_real
  <2>2. SUFFICES ASSUME c.name \in Installed["ENABLE"] PROVE VtyAfter(h, w, c) \in VtyType
    BY <1>2, <2>1
  <2>3. "ENABLE" \in Nodes /\ "CONFIG" \in Nodes /\ "VIEW" \in Nodes /\ "AUTH_ENABLE" \in Nodes
    BY NodeFacts
  <2>4. c.name \notin {"line vty"} \union AppNodes
    BY <2>2, <2>3, KnownIn, ZenonT(60)
  <2> HIDE DEF w
  <2>5. cmd_exit(w) \in VtyType
    BY <1>2 DEF cmd_exit, VtyType
  <2>6. config_end(w) \in VtyType /\ config_terminal(w) \in VtyType /\ disable(w) \in VtyType
    BY <1>2, <2>3, ZenonT(60) DEF config_end, config_terminal, disable, VtyType
  <2>7. enable(h, w) \in VtyType
    BY <1>2, <2>3, ZenonT(60) DEF enable, VtyType
  <2>8. VtyAfter(h, w, c) \in {w, cmd_exit(w), config_end(w), config_terminal(w), disable(w), enable(h, w)}
    BY <2>4, ZenonT(60) DEF VtyAfter
  <2>9. QED
    BY <1>2, <2>5, <2>6, <2>7, <2>8
<1>4. q = [h |-> q.h, v |-> q.v, ret |-> q.ret]
  BY RealShape
<1>5. r = [h |-> q.h, ret |-> q.ret,
           v |-> [q.v EXCEPT !.node = v.node, !.earned = v.earned,
                             !.astray = v.astray \/ (q.v.config # v.config)]]
  <2> DEFINE d == [q.v EXCEPT !.node = v.node, !.earned = v.earned,
                              !.astray = v.astray \/ (q.v.config # v.config)]
  <2>1. r = [q EXCEPT !.v = d]
    BY DEF DoShortcut
  <2> HIDE DEF q, d, r
  <2>2. r = [h |-> q.h, ret |-> q.ret, v |-> d]
    BY <1>4, <2>1
  <2>3. QED
    BY <2>2 DEF d
<1>6. VtyOK(r.v)
  <2> HIDE DEF q
  <2> DEFINE b == v.astray \/ (q.v.config # v.config)
  <2>1. b \in BOOLEAN
    OBVIOUS
  <2>2. ~b => ~v.astray /\ q.v.config = v.config
    OBVIOUS
  <2>a. v.astray => b
    OBVIOUS
  <2>b. r.v = [q.v EXCEPT !.node = v.node, !.earned = v.earned, !.astray = b]
    BY <1>5
  <2> HIDE DEF b, r
  <2>3. r.v = [node |-> v.node, config |-> q.v.config, status |-> q.v.status, fail |-> q.v.fail,
               earned |-> v.earned, astray |-> b]
    BY <1>3, <2>b, ZenonT(60) DEF VtyType
  <2>4. v \in VtyType
    BY DEF VtyOK
  <2>5. r.v \in VtyType
    BY <1>3, <2>1, <2>3, <2>4 DEF VtyType
  <2>6. ~r.v.astray => (r.v.config <=> r.v.node \in InConfig)
    BY <2>2, <2>3 DEF VtyOK
  <2>7. r.v.earned \/ r.v.astray
    BY <1>1, <2>a, <2>3
  <2>8. QED
    BY <2>5, <2>6, <2>7 DEF VtyOK
<1>7. QED
  BY <1>5, <1>6, RealShape

\* A line of the configuration file does the same to the host structure.
LEMMA FileStep ==
  ASSUME NEW h, NEW v, NEW c
  PROVE  LET r == command_config_read_one_line(h, v, c)
         IN \/ r.ret # "SUCCESS" /\ r.h = h
            \/ r.ret = "SUCCESS" /\ r.h = HostAfter(h, c) /\ Answer(c) = "SUCCESS"
<1> DEFINE here == cmd_execute_command_real(h, v, c)
           above == TryParent(h, v, c)
           r == command_config_read_one_line(h, v, c)
<1>1. /\ above = [h |-> above.h, v |-> above.v, ret |-> above.ret]
      /\ \/ above.ret # "SUCCESS" /\ above.h = h
         \/ above.ret = "SUCCESS" /\ above.h = HostAfter(h, c) /\ Answer(c) = "SUCCESS"
  <2>1. CASE v.node \in Below
    BY <2>1, RealShape DEF TryParent
  <2>2. CASE v.node \notin Below
    BY <2>2 DEF TryParent
  <2>3. QED
    BY <2>1, <2>2
<1>2. r \in {here, above, [above EXCEPT !.v.node = v.node]}
  BY DEF command_config_read_one_line
<1> HIDE DEF above, r
<1>3. [above EXCEPT !.v.node = v.node].h = above.h /\ [above EXCEPT !.v.node = v.node].ret = above.ret
  BY <1>1
<1>4. CASE r = here
  BY <1>4, RealShape DEF r
<1>5. CASE r = above \/ r = [above EXCEPT !.v.node = v.node]
  BY <1>1, <1>3, <1>5 DEF r
<1>6. QED
  BY <1>2, <1>4, <1>5

\* The host stays in order after a command, whatever it answered.
LEMMA NotedStep ==
  ASSUME NEW h, HostOK(h), NEW c \in Commands, NEW r,
         \/ r.ret # "SUCCESS" /\ r.h = h
         \/ r.ret = "SUCCESS" /\ r.h = HostAfter(h, c) /\ Answer(c) = "SUCCESS"
  PROVE  HostOK(Noted(r, c))
<1>1. CASE r.ret # "SUCCESS"
  BY <1>1 DEF Noted
<1>2. CASE r.ret = "SUCCESS"
  <2>1. r.h = HostAfter(h, c) /\ Answer(c) = "SUCCESS"
    BY <1>2
  <2>2. HostOK([HostAfter(h, c) EXCEPT !.said = Said(h, c)]) /\ HostAfter(h, c).said = h.said
    BY <2>1, HostStep
  <2>3. Said(HostAfter(h, c), c) = Said(h, c)
    BY <2>2, ZenonT(60) DEF Said
  <2>4. QED
    BY <1>2, <2>1, <2>2, <2>3 DEF Noted
<1>3. QED
  BY <1>1, <1>2

\* An answer at a prompt.
LEMMA AuthStep ==
  ASSUME NEW h, NEW v, VtyOK(v), v.node \in Asking, NEW w
  PROVE  VtyOK(vty_auth(h, v, w))
<1>1. v \in VtyType /\ v.node \notin InConfig
  BY NodeFacts DEF VtyOK, Asking
<1>2. CASE Kept(h, v.node) = w
  <2>1. NextNode(h, v.node) \in {"VIEW", "ENABLE"}
    BY DEF NextNode
  <2>2. QED
    BY <1>1, <1>2, <2>1, NodeFacts, ZenonT(60) DEF vty_auth, VtyOK, VtyType
<1>3. CASE Kept(h, v.node) # w
  <2>1. CASE v.fail + 1 < 3
    <3>1. vty_auth(h, v, w) = [v EXCEPT !.fail = v.fail + 1]
      BY <1>3, <2>1 DEF vty_auth
    <3>2. QED
      BY <1>1, <3>1 DEF VtyOK, VtyType
  <2>2. CASE ~(v.fail + 1 < 3)
    <3>1. PICK n \in {3, 0} : vty_auth(h, v, w) = [v EXCEPT !.fail = n, !.status = "CLOSE"]
      BY <1>3, <2>2, ZenonT(60) DEF vty_auth
    <3>2. n \in Nat
      OBVIOUS
    <3>3. PICK m \in Nat : vty_auth(h, v, w) = [v EXCEPT !.fail = m, !.status = "CLOSE"]
      BY <3>1, <3>2, ZenonT(60)
    <3>4. QED
      BY ONLY <1>1, <3>3, VtyOK(v), ZenonT(60) DEF VtyOK, VtyType
  <2>3. QED
    BY <2>1, <2>2
<1>4. QED
  BY <1>2, <1>3

-----------------------------------------------------------------------------
(* Finding commands.                                                       *)

\* Whether a node knows a command is all that "no such command" depends on.
LEMMA RealFound ==
  ASSUME NEW h, NEW v, NEW c
  PROVE  LET r == cmd_execute_command_real(h, v, c)
         IN /\ Found(r) <=> c.name \in Installed[v.node]
            /\ r.ret # "SUCCESS" => r.v = v /\ r.h = h
BY DEF cmd_execute_command_real, Found, Answer

\* Trying the parent node finds exactly the commands of CONFIG_NODE.
LEMMA ParentFound ==
  ASSUME NEW h, NEW v, VtyOK(v), NEW c
  PROVE  LET r == TryParent(h, v, c)
         IN /\ Found(r) <=> v.node \in Below /\ c.name \in Installed["CONFIG"]
            /\ r.ret # "SUCCESS" => r.h = h /\ r.v \in {v, [v EXCEPT !.node = "CONFIG"]}
<1>1. CASE v.node \in Below
  <2>1. [v EXCEPT !.node = node_parent(@)] = [v EXCEPT !.node = "CONFIG"]
    BY <1>1 DEF node_parent, VtyOK, VtyType
  <2>2. [v EXCEPT !.node = "CONFIG"].node = "CONFIG"
    BY DEF VtyOK, VtyType
  <2> DEFINE w == [v EXCEPT !.node = "CONFIG"]
             r == cmd_execute_command_real(h, w, c)
  <2>3. TryParent(h, v, c) = r
    BY <1>1, <2>1 DEF TryParent
  <2>4. (Found(r) <=> c.name \in Installed[w.node]) /\ (r.ret # "SUCCESS" => r.v = w /\ r.h = h)
    BY RealFound, ZenonT(60)
  <2> HIDE DEF r
  <2> QED
    BY <1>1, <2>2, <2>3, <2>4
<1>2. CASE v.node \notin Below
  BY <1>2 DEF TryParent, Found
<1> QED
  BY <1>1, <1>2

\* cmd_execute_command finds the commands of the node and of CONFIG_NODE, and
\* leaves everything as it was when it finds none.
LEMMA ExecuteFound ==
  ASSUME NEW h, NEW v, VtyOK(v), NEW c
  PROVE  LET r == cmd_execute_command(h, v, c)
         IN /\ v.node \in InConfig =>
                 (Found(r) <=> c.name \in Installed[v.node] \union Installed["CONFIG"])
            /\ ~Found(r) => r.v = v /\ r.h = h
<1> DEFINE here == cmd_execute_command_real(h, v, c)
           above == TryParent(h, v, c)
           r == cmd_execute_command(h, v, c)
<1>1. (Found(here) <=> c.name \in Installed[v.node])
      /\ (Found(above) <=> v.node \in Below /\ c.name \in Installed["CONFIG"])
  BY RealFound, ParentFound
<1>2. CASE Found(here) \/ Found(above)
  <2>1. Found(r)
    BY <1>2 DEF cmd_execute_command
  <2>2. v.node \in InConfig => c.name \in Installed[v.node] \union Installed["CONFIG"]
    BY <1>1, <1>2
  <2> QED
    BY <2>1, <2>2
<1>3. CASE ~Found(here) /\ ~Found(above)
  <2>1. here = [h |-> h, v |-> v, ret |-> "NO_MATCH"]
    BY <1>3 DEF cmd_execute_command_real, Found, Answer
  <2>2. r = [here EXCEPT !.v.node = v.node]
    BY <1>3 DEF cmd_execute_command
  <2>3. [v EXCEPT !.node = v.node] = v
    BY DEF VtyOK, VtyType
  <2> HIDE DEF here, r
  <2>4. r = [h |-> h, v |-> v, ret |-> "NO_MATCH"]
    BY <2>1, <2>2, <2>3
  <2>5. ~Found(r) /\ r.v = v /\ r.h = h
    BY <2>4 DEF Found
  <2>6. v.node \in InConfig => c.name \notin Installed[v.node] \union Installed["CONFIG"]
    BY <1>1, <1>3 DEF InConfig
  <2> QED
    BY <2>5, <2>6 DEF r
<1> QED
  BY <1>2, <1>3

\* command_config_read_one_line finds the same commands in a file.
LEMMA FileFound ==
  ASSUME NEW h, NEW v, VtyOK(v), NEW c
  PROVE  LET r == command_config_read_one_line(h, v, c)
         IN /\ VtyOK(r.v)
            /\ v.node \in InConfig =>
                 (Found(r) <=> c.name \in Installed[v.node] \union Installed["CONFIG"])
            /\ r.ret # "SUCCESS" => r.v = v /\ r.h = h
<1> DEFINE here == cmd_execute_command_real(h, v, c)
           above == TryParent(h, v, c)
           r == command_config_read_one_line(h, v, c)
<1>1. /\ Found(here) <=> c.name \in Installed[v.node]
      /\ here.ret # "SUCCESS" => here.v = v /\ here.h = h
      /\ VtyOK(here.v)
  BY RealFound, RealStep
<1>2. /\ Found(above) <=> v.node \in Below /\ c.name \in Installed["CONFIG"]
      /\ above.ret # "SUCCESS" => above.h = h /\ above.v \in {v, [v EXCEPT !.node = "CONFIG"]}
      /\ VtyOK(above.v) /\ above = [h |-> above.h, v |-> above.v, ret |-> above.ret]
  BY ParentFound, ParentStep
<1>3. CASE Found(here) \/ v.node = "CONFIG"
  <2>1. r = here
    BY <1>3 DEF command_config_read_one_line
  <2> QED
    BY <1>1, <1>3, <2>1
<1>4. CASE ~Found(here) /\ v.node # "CONFIG" /\ above.ret = "SUCCESS"
  <2>1. r = above /\ Found(above)
    BY <1>4 DEF command_config_read_one_line, Found
  <2> QED
    BY <1>2, <1>4, <2>1
<1>5. CASE ~Found(here) /\ v.node # "CONFIG" /\ above.ret # "SUCCESS"
  <2>1. r = [above EXCEPT !.v.node = v.node]
    BY <1>5 DEF command_config_read_one_line
  <2>2. [v EXCEPT !.node = v.node] = v /\ [[v EXCEPT !.node = "CONFIG"] EXCEPT !.node = v.node] = v
    BY ZenonT(60) DEF VtyOK, VtyType
  <2> HIDE DEF above, r, here
  <2>3. above = [h |-> h, v |-> above.v, ret |-> above.ret]
    BY <1>2, <1>5
  <2>4. r = [h |-> h, v |-> [above.v EXCEPT !.node = v.node], ret |-> above.ret]
    BY <2>1, <2>3
  <2>5. [above.v EXCEPT !.node = v.node] = v
    BY <1>2, <1>5, <2>2
  <2>6. r.v = v /\ r.h = h /\ (Found(r) <=> Found(above))
    BY <2>4, <2>5 DEF Found
  <2>7. v.node \in InConfig => (Found(r) <=> c.name \in Installed[v.node] \union Installed["CONFIG"])
    BY <1>1, <1>2, <1>5, <2>6 DEF InConfig
  <2> QED
    BY <2>6, <2>7 DEF r
<1> QED
  BY <1>3, <1>4, <1>5

\* From the deepest node: to CONFIG_NODE, to ENABLE_NODE, and out.
LEMMA ExitsClose ==
  ASSUME NEW v, VtyOK(v), v.node \notin Asking
  PROVE  \E last \in {cmd_exit(v), cmd_exit(cmd_exit(v)), cmd_exit(cmd_exit(cmd_exit(v)))} :
           last.status = "CLOSE"
<1>1. ASSUME NEW w, VtyOK(w), w.node \in {"VIEW", "ENABLE"} PROVE cmd_exit(w).status = "CLOSE"
  BY <1>1 DEF cmd_exit, VtyOK, VtyType
<1>2. ASSUME NEW w, VtyOK(w), w.node = "CONFIG" PROVE cmd_exit(w).node = "ENABLE" /\ VtyOK(cmd_exit(w))
  <2>1. cmd_exit(w).node = "ENABLE"
    BY <1>2, ZenonT(60) DEF cmd_exit, VtyOK, VtyType
  <2>2. w.node \notin Asking
    BY <1>2 DEF Asking
  <2> QED
    BY <1>2, <2>1, <2>2, ExitStep
<1>3. ASSUME NEW w, VtyOK(w), w.node \in Below PROVE cmd_exit(w).node = "CONFIG" /\ VtyOK(cmd_exit(w))
  <2>1. w.node \notin {"VIEW", "ENABLE", "CONFIG"} /\ w.node \notin Asking
    BY <1>3, AppFacts, ZenonT(60) DEF Below, Asking
  <2>2. cmd_exit(w) = [w EXCEPT !.node = "CONFIG"]
    BY <1>3, <2>1 DEF cmd_exit, node_parent
  <2>3. cmd_exit(w).node = "CONFIG"
    BY <1>3, <2>2 DEF VtyOK, VtyType
  <2> QED
    BY <1>3, <2>1, <2>3, ExitStep
<1>4. CASE v.node \in {"VIEW", "ENABLE"}
  BY <1>1, <1>4
<1>5. CASE v.node = "CONFIG"
  BY <1>1, <1>2, <1>5
<1>6. CASE v.node \in Below
  BY <1>1, <1>2, <1>3, <1>6
<1> QED
  BY <1>4, <1>5, <1>6, NodeFacts DEF VtyOK, VtyType, Asking

-----------------------------------------------------------------------------
(* The steps.                                                              *)

\* A step that changes one session only.
LEMMA OneSession ==
  ASSUME TtyOK(tty), NEW s \in Sessions, NEW v, v = Closed \/ VtyOK(v),
         tty' = [tty EXCEPT ![s] = v]
  PROVE  TtyOK(tty)'
BY DEF TtyOK

\* A process that starts.
LEMMA Fresh ==
  ASSUME NEW h \in Host, NEW t \in Consoles
  PROVE  HostOK(h) /\ TtyOK(t)
<1>1. HostOK(h)
  <2>1. PICK w \in Words :
          h = [password |-> w, password_encrypt |-> NULL, enable |-> NULL,
               enable_encrypt |-> NULL, encrypt |-> FALSE, advanced |-> FALSE,
               no_password_check |-> FALSE, debug |-> FALSE, up |-> TRUE,
               said |-> [password |-> w, enable |-> NULL]]
    BY DEF Host
  <2>2. h \in HostType
    BY <2>1 DEF HostType, Kept0
  <2>3. QED
    BY <2>1, <2>2, WordFacts DEF HostOK
<1>2. VtyOK(Vty("ENABLE", FALSE))
  BY NodeFacts, ZenonT(60) DEF Vty, VtyOK, VtyType
<1>3. PICK on \in SUBSET Sessions : t = [s \in Sessions |-> IF s \in on THEN Vty("ENABLE", FALSE) ELSE Closed]
  BY ZenonT(60) DEF Consoles
<1>4. TtyOK(t)
  BY <1>2, <1>3, ZenonT(60) DEF TtyOK
<1>5. QED
  BY <1>1, <1>4

\* The daemon starts in the invariant.
LEMMA InitStep == Init => IInv
<1> SUFFICES ASSUME Init PROVE IInv
  OBVIOUS
<1>1. HostOK(host) /\ TtyOK(tty)
  BY Fresh DEF Init
<1>2. BootOK
  <2>1. Chunks \in Nat
    BY ShellAssumption, ZenonT(60)
  <2>2. /\ boot \in BootType
        /\ boot.pc = "open" /\ boot.conf \in {NULL, Chunks}
    <3>1. PICK cf \in {NULL, Chunks}, sv \in {NULL, Chunks} :
            boot = [pc |-> "open", conf |-> cf, sav |-> sv, tmp |-> NULL, read |-> 0, ioerror |-> FALSE]
      BY ZenonT(60) DEF Init
    <3>2. QED
      BY <2>1, <3>1 DEF BootType
  <2>3. QED
    BY <2>2 DEF BootOK
<1>3. QED
  BY <1>1, <1>2 DEF IInv

\* The files.
LEMMA BootStep ==
  ASSUME IInv, vty_read_config \/ CopyChunk \/ Rename \/ EndOfFile
  PROVE  IInv'
<1>0. Chunks \in Nat /\ Chunks # 0
  BY ShellAssumption, ZenonT(60)
<1>1. HostOK(host)' /\ TtyOK(tty)'
  BY DEF IInv, vty_read_config, CopyChunk, Rename, EndOfFile, Reading, HostOK, HostType, TtyOK, VtyOK, VtyType
<1>2. BootOK'
  <2>0. boot \in BootType
    BY DEF IInv, BootOK
  <2>a. CASE boot' = Done
    <3>1. boot' \in BootType
      BY <1>0, <2>a DEF Done, BootType
    <3>2. QED
      BY <2>a, <3>1 DEF Done, BootOK
  <2>b. CASE boot' = [boot EXCEPT !.pc = "lines"] /\ boot.pc = "open"
    <3>1. boot' \in BootType /\ boot'.pc = "lines" /\ boot'.conf = boot.conf /\ boot'.ioerror = boot.ioerror
      BY <2>0, <2>b DEF BootType
    <3>2. QED
      BY <3>1 DEF IInv, BootOK
  <2>1. CASE vty_read_config
    <3>1. CASE boot.conf = NULL /\ boot.sav # NULL /\ boot' = [boot EXCEPT !.pc = "copy", !.tmp = 0, !.read = 0]
      <4>1. /\ boot' \in BootType /\ boot'.pc = "copy" /\ boot'.tmp = 0 /\ boot'.read = 0
            /\ boot'.conf = NULL /\ boot'.sav = Chunks
        BY <2>0, <3>1, ZenonT(60) DEF BootType
      <4>2. QED
        BY <1>0, <4>1 DEF BootOK
    <3>2. QED
      BY <2>1, <2>a, <2>b, <3>1 DEF vty_read_config
  <2>2. CASE CopyChunk
    <3>1. /\ boot.pc = "copy" /\ boot.sav = Chunks /\ boot.tmp \in Nat /\ boot.read \in Nat /\ boot.read <= Chunks
          /\ ~boot.ioerror => boot.conf \in {NULL, Chunks} /\ boot.tmp = boot.read
      BY <2>0, <2>2 DEF IInv, BootOK, CopyChunk, BootType
    <3>2. CASE boot.read < boot.sav /\ boot' = [boot EXCEPT !.read = @ + 1, !.tmp = @ + 1]
      <4>1. /\ boot' \in BootType /\ boot'.pc = "copy" /\ boot'.sav = Chunks /\ boot'.conf = boot.conf
            /\ boot'.read = boot.read + 1 /\ boot'.tmp = boot.tmp + 1 /\ boot'.ioerror = boot.ioerror
        <5>1. PICK a \in Nat, b \in Nat : a = boot.read + 1 /\ b = boot.tmp + 1
          BY <3>1
        <5>2. boot' = [boot EXCEPT !.read = a, !.tmp = b]
          BY <3>2, <5>1
        <5>3. QED
          BY <2>0, <3>1, <5>1, <5>2, ZenonT(60) DEF BootType
      <4>2. QED
        BY <1>0, <3>1, <3>2, <4>1 DEF BootOK
    <3>3. CASE boot.read < boot.sav /\ boot' = [boot EXCEPT !.read = @ + 1, !.ioerror = TRUE]
      <4>1. /\ boot' \in BootType /\ boot'.pc = "copy" /\ boot'.sav = Chunks /\ boot'.tmp = boot.tmp
            /\ boot'.read = boot.read + 1 /\ boot'.ioerror
        <5>1. PICK a \in Nat : a = boot.read + 1
          BY <3>1
        <5>2. boot' = [boot EXCEPT !.read = a, !.ioerror = TRUE]
          BY <3>3, <5>1
        <5>3. QED
          BY <2>0, <3>1, <5>1, <5>2, ZenonT(60) DEF BootType
      <4>2. QED
        BY <1>0, <3>1, <3>3, <4>1 DEF BootOK
    <3>4. CASE boot' = [boot EXCEPT !.pc = "rename", !.ioerror = TRUE]
      <4>1. boot' \in BootType /\ boot'.pc = "rename" /\ boot'.ioerror
        BY <2>0, <3>4, ZenonT(60) DEF BootType
      <4>2. QED
        BY <4>1 DEF BootOK
    <3>5. CASE boot.read = boot.sav /\ boot' = [boot EXCEPT !.pc = "rename"]
      <4>1. /\ boot' \in BootType /\ boot'.pc = "rename" /\ boot'.ioerror = boot.ioerror
            /\ boot'.tmp = boot.tmp /\ boot'.conf = boot.conf
        BY <2>0, <3>5 DEF BootType
      <4>2. QED
        BY <3>1, <3>5, <4>1 DEF BootOK
    <3>6. QED
      BY <2>2, <2>a, <3>2, <3>3, <3>4, <3>5 DEF CopyChunk
  <2>3. CASE Rename
    <3>1. CASE boot' = [boot EXCEPT !.pc = "lines", !.conf = boot.tmp, !.tmp = NULL]
      <4>1. /\ boot' \in BootType /\ boot'.pc = "lines" /\ boot'.ioerror = boot.ioerror /\ boot'.conf = boot.tmp
        BY <2>0, <3>1, ZenonT(60) DEF BootType
      <4>2. QED
        BY <2>3, <4>1 DEF IInv, BootOK, Rename
    <3>2. QED
      BY <2>3, <2>a, <3>1 DEF Rename
  <2>4. QED
    BY <2>1, <2>2, <2>3, <2>a DEF EndOfFile
<1>3. QED
  BY <1>1, <1>2 DEF IInv

\* A crash and a restart keep the invariant.
LEMMA RestartStep ==
  ASSUME IInv, Crash \/ Restart
  PROVE  IInv'
<1>1. HostOK(host)' /\ TtyOK(tty)'
  BY Fresh DEF Crash, Restart
<1>2. BootOK'
  <2>1. CASE boot' = Done
    <3>1. boot' \in BootType
      BY <2>1, ShellAssumption, ZenonT(60) DEF Done, BootType
    <3>2. QED
      BY <2>1, <3>1 DEF Done, BootOK
  <2>2. CASE boot' = [boot EXCEPT !.pc = "open", !.tmp = NULL, !.read = 0]
    <3>1. boot' \in BootType /\ boot'.pc = "open" /\ boot'.conf = boot.conf /\ boot'.ioerror = boot.ioerror
      BY <2>2, ZenonT(60) DEF IInv, BootOK, BootType
    <3>2. QED
      BY <3>1 DEF IInv, BootOK
  <2>3. QED
    BY <2>1, <2>2 DEF Crash, Restart
<1>3. QED
  BY <1>1, <1>2 DEF IInv

\* The configuration file's lines, and other sessions.
LEMMA LineStep ==
  ASSUME IInv, NEW c \in Commands, ReadLine(c) \/ Elsewhere(c)
  PROVE  IInv'
<1>1. TtyOK(tty)' /\ BootOK'
  BY DEF IInv, ReadLine, Elsewhere, TtyOK, VtyOK, VtyType, BootOK
<1>2. CASE ReadLine(c)
  BY <1>1, <1>2, FileStep, NotedStep DEF IInv, ReadLine
<1>3. CASE Elsewhere(c)
  BY <1>1, <1>3, HostStep DEF IInv, Elsewhere
<1>4. QED
  BY <1>2, <1>3

\* Every step of a session keeps the invariant.
LEMMA SessionStep ==
  ASSUME IInv, NEW s \in Sessions,
         \/ vty_create(s) \/ ControlZ(s) \/ vty_down_level(s) \/ vty_close(s)
         \/ \E c \in Commands : vty_command(s, c) \/ DoCommand(s, c)
         \/ \E w \in Words : Login(s, w)
  PROVE  IInv'
<1>0. BootOK'
  BY ZenonT(60) DEF IInv, BootOK, vty_create, ControlZ, vty_down_level, vty_close, vty_command, DoCommand, Login,
         Open, Running
<1>1. CASE vty_create(s)
  <2>1. VtyOK(Vty("ENABLE", FALSE)) /\ VtyOK(Vty("VIEW", FALSE)) /\ VtyOK(Vty("AUTH", FALSE))
    <3>1. VtyOK(Vty("ENABLE", FALSE))
      BY NodeFacts, ZenonT(60) DEF Vty, VtyOK, VtyType
    <3>2. VtyOK(Vty("VIEW", FALSE))
      BY NodeFacts DEF Vty, VtyOK, VtyType
    <3>3. VtyOK(Vty("AUTH", FALSE))
      BY NodeFacts DEF Vty, VtyOK, VtyType
    <3>4. QED
      BY <3>1, <3>2, <3>3, ZenonT(60)
  <2>2. PICK v : tty' = [tty EXCEPT ![s] = v] /\ (v = Closed \/ VtyOK(v))
    BY <1>1, <2>1, ZenonT(60) DEF vty_create
  <2>3. QED
    BY <1>0, <1>1, <2>2, OneSession, ZenonT(60) DEF IInv, vty_create
<1>2. CASE ControlZ(s)
  BY <1>0, <1>2, EndStep, OneSession DEF IInv, TtyOK, ControlZ, Open
<1>3. CASE vty_down_level(s)
  <2>1. CASE tty[s].node \in Asking
    BY <1>0, <1>3, <2>1, ZenonT(60) DEF IInv, vty_down_level, HostOK, HostType, TtyOK
  <2>2. CASE tty[s].node \notin Asking
    BY <1>0, <1>3, <2>2, ExitStep, OneSession DEF IInv, TtyOK, vty_down_level, Open
  <2>3. QED
    BY <2>1, <2>2
<1>4. CASE vty_close(s)
  BY <1>0, <1>4, OneSession, ZenonT(60) DEF IInv, vty_close
<1>5. ASSUME NEW c \in Commands, vty_command(s, c) PROVE IInv'
  <2> DEFINE r == cmd_execute_command(host, tty[s], c)
  <2>1. VtyOK(tty[s]) /\ tty' = [tty EXCEPT ![s] = r.v] /\ host' = Noted(r, c)
    BY <1>5 DEF IInv, TtyOK, vty_command, Open
  <2>2. /\ VtyOK(r.v)
        /\ \/ r.ret # "SUCCESS" /\ r.h = host
           \/ r.ret = "SUCCESS" /\ r.h = HostAfter(host, c) /\ Answer(c) = "SUCCESS"
    BY <2>1, ExecuteStep
  <2> HIDE DEF r
  <2>3. QED
    BY <1>0, <2>1, <2>2, OneSession, NotedStep, ZenonT(60) DEF IInv
<1>6. ASSUME NEW c \in Commands, DoCommand(s, c) PROVE IInv'
  <2> DEFINE r == DoShortcut(host, tty[s], c)
  <2>1. /\ VtyOK(tty[s]) /\ tty' = [tty EXCEPT ![s] = r.v] /\ host' = Noted(r, c)
        /\ tty[s].node \notin Asking \union {"VIEW"}
    BY <1>6 DEF IInv, TtyOK, DoCommand, Open
  <2>2. /\ VtyOK(r.v)
        /\ \/ r.ret # "SUCCESS" /\ r.h = host
           \/ r.ret = "SUCCESS" /\ r.h = HostAfter(host, c) /\ Answer(c) = "SUCCESS"
    BY <2>1, DoStep
  <2> HIDE DEF r
  <2>3. QED
    BY <1>0, <2>1, <2>2, OneSession, NotedStep, ZenonT(60) DEF IInv
<1>7. ASSUME NEW w \in Words, Login(s, w) PROVE IInv'
  <2>1. VtyOK(vty_auth(host, tty[s], w))
    BY <1>7, AuthStep DEF IInv, TtyOK, Login, Open
  <2>2. QED
    BY <1>0, <1>7, <2>1, OneSession, ZenonT(60) DEF IInv, Login
<1>8. QED
  BY <1>1, <1>2, <1>3, <1>4, <1>5, <1>6, <1>7

-----------------------------------------------------------------------------
(* Wrong passwords, and the session that reads the file.                   *)

\* A third wrong password at the first prompt closes the session.
Tries(v) == v.fail \in 0..3 /\ (v.fail = 3 => v.status = "CLOSE")

TypeInv ==
  /\ \A s \in Sessions : tty[s] # Closed => Tries(tty[s])
  /\ VtyOK(file.v) /\ file.n \in 0..MaxLines

\* No command counts wrong passwords or reopens a session.
LEMMA AfterTries ==
  ASSUME NEW h, NEW v, v \in VtyType, Tries(v), NEW c
  PROVE  Tries(VtyAfter(h, v, c))
<1>1. Tries(cmd_exit(v))
  BY DEF Tries, VtyType, cmd_exit
<1>2. Tries(config_end(v)) /\ Tries(config_terminal(v)) /\ Tries(disable(v)) /\ Tries(line_vty(v))
  BY DEF Tries, VtyType, config_end, config_terminal, disable, line_vty
<1>3. Tries(enable(h, v)) /\ Tries(EnterNode(v, c.name))
  BY DEF Tries, VtyType, enable, EnterNode
<1>4. VtyAfter(h, v, c) \in {v, cmd_exit(v), config_end(v), config_terminal(v), disable(v), line_vty(v),
                              enable(h, v), EnterNode(v, c.name)}
  BY DEF VtyAfter
<1> QED
  BY <1>1, <1>2, <1>3, <1>4

\* A command keeps the count of password tries in range:
\* cmd_execute_command_real,
LEMMA RealTries ==
  ASSUME NEW h, NEW v, v \in VtyType, Tries(v), NEW c
  PROVE  Tries(cmd_execute_command_real(h, v, c).v)
BY AfterTries DEF cmd_execute_command_real

\* a change of node,
LEMMA NodeTries ==
  ASSUME NEW v, v \in VtyType, Tries(v), NEW n \in Nodes
  PROVE  [v EXCEPT !.node = n] \in VtyType /\ Tries([v EXCEPT !.node = n])
BY DEF Tries, VtyType

\* cmd_execute_command,
LEMMA ExecuteTries ==
  ASSUME NEW h, NEW v, VtyOK(v), Tries(v), NEW c
  PROVE  Tries(cmd_execute_command(h, v, c).v)
<1> DEFINE here == cmd_execute_command_real(h, v, c)
           above == TryParent(h, v, c)
           r == cmd_execute_command(h, v, c)
<1>1. Tries(here.v)
  BY RealTries DEF VtyOK
<1>2. Tries(above.v)
  <2>1. CASE v.node \in Below
    <3>1. [v EXCEPT !.node = node_parent(@)] = [v EXCEPT !.node = "CONFIG"] /\ "CONFIG" \in Nodes
      BY <2>1, NodeFacts DEF node_parent, VtyOK, VtyType
    <3>2. [v EXCEPT !.node = "CONFIG"] \in VtyType /\ Tries([v EXCEPT !.node = "CONFIG"])
      BY <3>1, NodeTries DEF VtyOK
    <3> QED
      BY <2>1, <3>1, <3>2, RealTries DEF TryParent
  <2>2. CASE v.node \notin Below
    BY <2>2 DEF TryParent
  <2> QED
    BY <2>1, <2>2
<1>3. CASE Found(r)
  BY <1>1, <1>2, <1>3 DEF cmd_execute_command, Found
<1>4. CASE ~Found(r)
  BY <1>4, ExecuteFound
<1> QED
  BY <1>3, <1>4

\* the do shortcut,
LEMMA DoTries ==
  ASSUME NEW h, NEW v, VtyOK(v), Tries(v), NEW c
  PROVE  Tries(DoShortcut(h, v, c).v)
<1> DEFINE w == [v EXCEPT !.node = "ENABLE"]
           q == cmd_execute_command_real(h, w, c)
<1>1. w \in VtyType /\ Tries(w)
  BY NodeTries, NodeFacts DEF VtyOK
<1>2. Tries(q.v)
  BY <1>1, RealTries
<1>3. q = [h |-> q.h, v |-> q.v, ret |-> q.ret]
  BY RealShape
<1>4. PICK b : DoShortcut(h, v, c) = [q EXCEPT !.v = [q.v EXCEPT !.node = v.node, !.earned = v.earned, !.astray = b]]
  BY ZenonT(60) DEF DoShortcut
<1> HIDE DEF q
<1>5. DoShortcut(h, v, c).v = [q.v EXCEPT !.node = v.node, !.earned = v.earned, !.astray = b]
  BY <1>3, <1>4
<1>6. /\ [q.v EXCEPT !.node = v.node, !.earned = v.earned, !.astray = b].fail = q.v.fail
      /\ [q.v EXCEPT !.node = v.node, !.earned = v.earned, !.astray = b].status = q.v.status
  OBVIOUS
<1> QED
  BY <1>2, <1>5, <1>6 DEF Tries

\* vty_auth,
LEMMA AuthTries ==
  ASSUME NEW h, NEW v, v \in VtyType, Tries(v), NEW w
  PROVE  Tries(vty_auth(h, v, w))
<1>1. v.fail \in Nat
  BY DEF VtyType
<1>2. CASE Kept(h, v.node) = w
  <2>1. vty_auth(h, v, w).fail = 0
    BY <1>2 DEF vty_auth, VtyType
  <2> QED
    BY <2>1 DEF Tries
<1>3. CASE Kept(h, v.node) # w /\ v.fail + 1 < 3
  <2>1. vty_auth(h, v, w).fail = v.fail + 1
    BY <1>3 DEF vty_auth, VtyType
  <2> QED
    BY <1>1, <1>3, <2>1 DEF Tries
<1>4. CASE Kept(h, v.node) # w /\ ~(v.fail + 1 < 3)
  <2>1. vty_auth(h, v, w).fail \in {0, 3} /\ vty_auth(h, v, w).status = "CLOSE"
    BY <1>4 DEF vty_auth, VtyType
  <2> QED
    BY <2>1 DEF Tries
<1> QED
  BY <1>2, <1>3, <1>4

\* a new session,
LEMMA NewTries ==
  ASSUME NEW n, NEW b PROVE Tries(Vty(n, b))
BY DEF Tries, Vty

\* and the consoles a restart begins with.
LEMMA FreshTries ==
  ASSUME NEW t \in Consoles, NEW s \in Sessions, t[s] # Closed
  PROVE  Tries(t[s])
<1>1. PICK on \in SUBSET Sessions : t = [r \in Sessions |-> IF r \in on THEN Vty("ENABLE", FALSE) ELSE Closed]
  BY ZenonT(60) DEF Consoles
<1>2. t[s] = Vty("ENABLE", FALSE)
  BY <1>1, ZenonT(60)
<1> QED
  BY <1>2, NewTries, ZenonT(60)

\* The length of a configuration file is a number.
LEMMA LinesNat == MaxLines \in Nat
BY ShellAssumption, ZenonT(60)

\* A file is read from its first line by a session in order.
LEMMA NewFileOK == VtyOK(NewFile.v) /\ NewFile.n \in 0..MaxLines
<1>1. VtyOK(Vty("CONFIG", TRUE))
  BY NodeFacts, ZenonT(60) DEF Vty, VtyOK, VtyType
<1>2. NewFile.v = Vty("CONFIG", TRUE) /\ NewFile.n = 0
  BY DEF NewFile
<1>3. 0 \in 0..MaxLines
  BY LinesNat
<1> QED
  BY <1>1, <1>2, <1>3, ZenonT(60)

\* The count of wrong passwords, step by step.
LEMMA TypeStep == IInv /\ TypeInv /\ [Next]_vars => TypeInv'
<1> SUFFICES ASSUME IInv, TypeInv, [Next]_vars PROVE TypeInv'
  OBVIOUS
<1> DEFINE Count == \A s \in Sessions : tty[s] # Closed => Tries(tty[s])
           Lines == VtyOK(file.v) /\ file.n \in 0..MaxLines
<1>0. Count /\ Lines
  BY DEF TypeInv
<1>1. CASE UNCHANGED <<tty, file>>
  BY <1>0, <1>1 DEF TypeInv, Tries, VtyOK, VtyType
<1>2. CASE EndOfFile
  BY <1>0, <1>2, NewFileOK DEF TypeInv, EndOfFile, Tries
<1>3. CASE Crash \/ Restart
  BY <1>3, NewFileOK, FreshTries DEF TypeInv, Crash, Restart
<1>4. ASSUME NEW c \in Commands, ReadLine(c) PROVE TypeInv'
  <2> DEFINE r == command_config_read_one_line(host, file.v, c)
  <2>1. file' = [v |-> r.v, n |-> file.n + 1] /\ file.n < MaxLines /\ tty' = tty
    BY <1>4 DEF ReadLine
  <2>2. VtyOK(r.v)
    BY <1>0, FileFound
  <2> HIDE DEF r
  <2>3. file'.v = r.v /\ file'.n = file.n + 1
    BY <2>1
  <2>4. file'.n \in 0..MaxLines
    BY <1>0, <2>1, <2>3, LinesNat
  <2> QED
    BY <1>0, <2>1, <2>2, <2>3, <2>4 DEF TypeInv, Tries
<1>5. ASSUME NEW s \in Sessions, NEW v, tty' = [tty EXCEPT ![s] = v], file' = file, v # Closed => Tries(v)
      PROVE  TypeInv'
  BY <1>0, <1>5 DEF TypeInv, IInv, TtyOK, Tries
<1>6. ASSUME NEW s \in Sessions, vty_create(s) PROVE TypeInv'
  <2>1. PICK v : tty' = [tty EXCEPT ![s] = v] /\ (v = Closed \/ \E n, b : v = Vty(n, b))
    BY <1>6, ZenonT(60) DEF vty_create
  <2> QED
    BY <1>5, <1>6, <2>1, NewTries, ZenonT(60) DEF vty_create, Running
<1>7. ASSUME NEW s \in Sessions, tty[s] # Closed PROVE VtyOK(tty[s]) /\ tty[s] \in VtyType /\ Tries(tty[s])
  BY <1>0, <1>7 DEF IInv, TtyOK, VtyOK
<1>8. ASSUME NEW s \in Sessions, ControlZ(s) PROVE TypeInv'
  <2>1. Tries(config_end(tty[s]))
    BY <1>7, <1>8 DEF ControlZ, Open, config_end, Tries, VtyType
  <2> QED
    BY <1>5, <1>8, <2>1, ZenonT(60) DEF ControlZ, Open, Running
<1>9. ASSUME NEW s \in Sessions, vty_down_level(s) PROVE TypeInv'
  <2>1. Tries(cmd_exit(tty[s]))
    BY <1>7, <1>9 DEF vty_down_level, Open, cmd_exit, Tries, VtyType
  <2> QED
    BY <1>1, <1>5, <1>9, <2>1 DEF vty_down_level, Open, Running
<1>10. ASSUME NEW s \in Sessions, vty_close(s) PROVE TypeInv'
  BY <1>5, <1>10, ZenonT(60) DEF vty_close, Open, Running
<1>11. ASSUME NEW s \in Sessions, NEW c \in Commands, vty_command(s, c) PROVE TypeInv'
  <2>1. Tries(cmd_execute_command(host, tty[s], c).v)
    BY <1>7, <1>11, ExecuteTries DEF vty_command, Open
  <2> QED
    BY <1>5, <1>11, <2>1, ZenonT(60) DEF vty_command, Open, Running
<1>12. ASSUME NEW s \in Sessions, NEW c \in Commands, DoCommand(s, c) PROVE TypeInv'
  <2>1. Tries(DoShortcut(host, tty[s], c).v)
    BY <1>7, <1>12, DoTries DEF DoCommand, Open
  <2> QED
    BY <1>5, <1>12, <2>1, ZenonT(60) DEF DoCommand, Open, Running
<1>13. ASSUME NEW s \in Sessions, NEW w \in Words, Login(s, w) PROVE TypeInv'
  <2>1. Tries(vty_auth(host, tty[s], w))
    BY <1>7, <1>13, AuthTries DEF Login, Open
  <2> QED
    BY <1>5, <1>13, <2>1, ZenonT(60) DEF Login, Open, Running
<1>14. CASE vty_read_config \/ CopyChunk \/ Rename \/ (\E c \in Commands : Elsewhere(c)) \/ UNCHANGED vars
  BY <1>1, <1>14 DEF vty_read_config, CopyChunk, Rename, Elsewhere, Reading, vars
<1> QED
  BY <1>2, <1>3, <1>4, <1>6, <1>8, <1>9, <1>10, <1>11, <1>12, <1>13, <1>14 DEF Next

-----------------------------------------------------------------------------
(* Theorems.                                                               *)

\* The passwords, the sessions' modes and the files on disk stay in order over
\* every command, login, line of the file and crash.
THEOREM Invariance == Spec => []IInv
<1>1. IInv /\ [Next]_vars => IInv'
  <2> SUFFICES ASSUME IInv, [Next]_vars PROVE IInv'
    OBVIOUS
  <2>1. CASE UNCHANGED vars
    BY <2>1 DEF vars, IInv, HostOK, HostType, TtyOK, VtyOK, VtyType, BootOK, BootType
  <2>2. CASE Next
    BY <2>2, BootStep, RestartStep, LineStep, SessionStep DEF Next
  <2>3. QED
    BY <2>1, <2>2
<1>2. QED
  BY InitStep, <1>1, PTL DEF Spec

\* No prompt ever accepts a password that was replaced or removed (vty_auth
\* against config_password, service_password_encrypt and their opposites).
THEOREM OldPasswordsGone == Spec => []NoOldPassword
<1>1. IInv => NoOldPassword
  BY DEF IInv, HostOK, HostType, NoOldPassword, Kept
<1>2. QED
  BY Invariance, <1>1, PTL

\* vty->config follows the node, but for "do configure" and "do end" (cmd_exit,
\* config_end, config_terminal and the commands that enter nodes).
THEOREM ConfigFollowsNode == Spec => []ConfigFlag
<1>1. IInv => ConfigFlag
  BY DEF IInv, TtyOK, VtyOK, ConfigFlag, Live
<1>2. QED
  BY Invariance, <1>1, PTL

\* The enable level is only reached by being granted, with the same exception
\* (enable, vty_auth, disable).
THEOREM EnableOnlyEarned == Spec => []EnableEarned
<1>1. IInv => EnableEarned
  BY DEF IInv, TtyOK, VtyOK, EnableEarned, Live
<1>2. QED
  BY Invariance, <1>1, PTL

\* A crash at any step of the recovery leaves the configuration file missing or
\* whole, for a backup of any length (vty_use_backup_config).
THEOREM ConfNeverHalf == Spec => []ConfWhole
<1>1. IInv => ConfWhole
  BY DEF IInv, BootOK, ConfWhole
<1>2. QED
  BY Invariance, <1>1, PTL

\* Both facts about a session's mode together, as they are model-checked (cmd_exit,
\* config_end, enable, vty_auth).
THEOREM ModesFollow == Spec => []ModesRight
BY ConfigFollowsNode, EnableOnlyEarned, PTL DEF ModesRight

\* For any sessions and any lines: a command is found where its node or
\* CONFIG_NODE knows it, a line nobody knows changes nothing, and three "exit"
\* leave any node (cmd_execute_command, command_config_read_one_line, cmd_exit).
THEOREM LinesFindCommands == Spec => []CommandsFound
<1>1. Init => TypeInv
  BY NewFileOK, FreshTries DEF Init, TypeInv
<1>2. IInv /\ TypeInv => CommandsFound
  <2> SUFFICES ASSUME IInv, TypeInv PROVE CommandsFound
    OBVIOUS
  <2>1. \A s \in Live : VtyOK(tty[s]) /\ Tries(tty[s])
    BY ZenonT(60) DEF IInv, TtyOK, TypeInv, Live
  <2>2. TypeOK
    <3>1. \A s \in Live : /\ tty[s].node \in Nodes /\ tty[s].fail \in 0..3
                          /\ tty[s].fail = 3 => tty[s].status = "CLOSE"
      BY <2>1 DEF VtyOK, VtyType, Tries
    <3>2. host \in HostType
      BY DEF IInv, HostOK
    <3>3. \A f \in {"password", "password_encrypt", "enable", "enable_encrypt"} :
            host[f] \in Words \union {NULL}
      BY <3>2 DEF HostType, Kept0
    <3>4. \A f \in {"encrypt", "advanced", "no_password_check", "debug", "up"} : host[f] \in BOOLEAN
      BY <3>2 DEF HostType
    <3>5. file.v.node \in Nodes /\ file.n \in 0..MaxLines
      BY DEF TypeInv, VtyOK, VtyType
    <3>6. boot.pc \in {"open", "copy", "rename", "lines", "run"}
      BY DEF IInv, BootOK, BootType
    <3> QED
      BY <3>1, <3>3, <3>4, <3>5, <3>6 DEF TypeOK
  <2>3. SearchesParents
    BY <2>1, ExecuteFound DEF SearchesParents
  <2>4. FileSearchesParents
    BY FileFound DEF FileSearchesParents, TypeInv
  <2>5. ExitLeadsOut
    BY <2>1, ExitsClose DEF ExitLeadsOut
  <2> QED
    BY <2>2, <2>3, <2>4, <2>5 DEF CommandsFound
<1> QED
  BY <1>1, <1>2, TypeStep, Invariance, PTL DEF Spec
=============================================================================
