------------------------------ MODULE CmdLine ------------------------------
(***************************************************************************)
(* What lies between the terminal and the command graph (command.c and     *)
(* frrstr.c of libvui): a line is cut into words, and the tokens that      *)
(* could come next are made into the sorted lists that "?" shows and TAB   *)
(* completes from.  Vectors are those of vector.c; white space is one      *)
(* character, "!" stands for both comment signs.                           *)
(***************************************************************************)
EXTENDS CmdGraph, Containers

VARIABLE others  \* the graphs of the nodes other than ENABLE_NODE

\* cmd_node_graph: "graph" is that of ENABLE_NODE.
Graphs == [node \in DOMAIN others \union {"ENABLE"} |-> IF node = "ENABLE" THEN graph ELSE others[node]]

Blank == " "
Comment == "!"
Doing == <<"d", "o">>

\* array_to_vector.
array_to_vector(seq) ==
  LET Set[n \in 0..Len(seq)] == IF n = 0 THEN vector_init(1) ELSE vector_set_index(Set[n - 1], n - 1, seq[n])
  IN Set[Len(seq)]

vector_to_array(v) == [k \in 1..v.active |-> v.index[k - 1]]

\* frrstr_split: strsep until nothing is left, so that two delimiters in a row
\* enclose an empty word.
RECURSIVE frrstr_split(_, _)
frrstr_split(string, delimiter) ==
  LET ends == {i \in 1..Len(string) : string[i] = delimiter}
      end == CHOOSE i \in ends : \A j \in ends : i <= j
  IN IF ends = {} THEN <<string>>
     ELSE <<SubSeq(string, 1, end - 1)>> \o frrstr_split(SubSeq(string, end + 1, Len(string)), delimiter)

\* The loop of cmd_make_strvec that takes the empty words out, from slot i on.
RECURSIVE UnsetEmpty(_, _)
UnsetEmpty(v, i) ==
  IF i >= v.active THEN v
  ELSE UnsetEmpty(IF v.index[i] = <<>> THEN vector_unset(v, i) ELSE v, i + 1)

\* cmd_make_strvec.
cmd_make_strvec(string) ==
  LET seen == {i \in 1..Len(string) : string[i] # Blank}
      copy == SubSeq(string, CHOOSE i \in seen : \A j \in seen : i <= j, Len(string))
  IN IF seen = {} THEN NULL
     ELSE IF copy[1] = Comment THEN NULL
     ELSE vector_to_array(vector_compact(UnsetEmpty(array_to_vector(frrstr_split(copy, Blank)), 0)))

-----------------------------------------------------------------------------
\* strcmp on the letters of the commands.
Letters == DigitSeq \o <<"(", ")", "X", "a", "b", "c", "d", "e", "n", "o">>
Rank(c) == CHOOSE n \in 1..Len(Letters) : Letters[n] = c
strcmp_less(s, t) ==
  \/ Len(s) < Len(t) /\ SubSeq(t, 1, Len(s)) = s
  \/ \E i \in 1..(IF Len(s) < Len(t) THEN Len(s) ELSE Len(t)) :
       Rank(s[i]) < Rank(t[i]) /\ \A k \in 1..i - 1 : s[k] = t[k]

\* The tokens of a set in some order: the order in which the graph lists them,
\* which the sort makes irrelevant.
RECURSIVE Listing(_)
Listing(S) == IF S = {} THEN <<>> ELSE LET t == CHOOSE x0 \in S : TRUE IN <<t>> \o Listing(S \ {t})

\* The linear search of completions_to_vec: only a new text is added.
WithNew(v, token) ==
  IF \E i \in 0..v.active - 1 : v.index[i].text = token.text THEN v ELSE vector_set(v, token)

\* The steps of completions_to_vec: no text twice, sorted, the end of the line first.
Distinct(list0) ==
  LET Add[n \in 0..Len(list0)] == IF n = 0 THEN vector_init(1) ELSE WithNew(Add[n - 1], list0[n])
  IN vector_to_array(Add[Len(list0)])

SortedVector(comps) == array_to_vector(SortSeq(comps, LAMBDA s, t : strcmp_less(s.text, t.text)))

WithEnd(sorted, crs) ==
  LET longer == vector_set_index(sorted, sorted.active, Nil)
      moved == [longer EXCEPT !.index = [k \in DOMAIN @ |-> IF k = 0 THEN @[0] ELSE @[k - 1]]]
  IN IF crs = {} THEN sorted ELSE vector_set_index(moved, 0, CHOOSE t \in crs : TRUE)

completions_to_vec(completions) ==
  WithEnd(SortedVector(Distinct(Listing({t \in completions : t.type # "END"}))),
          {t \in completions : t.type = "END"})

Completions(comps) ==
  [comps |-> comps,
   status |-> CASE Len(comps) = 0 -> "NO_MATCH" [] Len(comps) = 1 -> "FULL" [] OTHER -> "LIST"]
Vectored(offers) == IF offers = {} THEN <<>> ELSE vector_to_array(completions_to_vec(offers))

\* cmd_complete_command_real.
cmd_complete_command_real(g, vline) == Completions(Vectored(command_complete(g, vline)))

\* cmd_try_do_shortcut: "do" is a word like any other where nobody is logged in
\* or privileged.
cmd_try_do_shortcut(node, vline) == node \notin {"AUTH", "VIEW", "AUTH_ENABLE"} /\ vline[1] = Doing

\* The node in which a line is looked up, and what is left of the line: after
\* "do" ENABLE_NODE and the rest.
LookedUp(node, vline) ==
  IF cmd_try_do_shortcut(node, vline) THEN [node |-> "ENABLE", line |-> Tail(vline)]
  ELSE [node |-> node, line |-> vline]

\* cmd_describe_command: what "?" shows; graphs has the graph of every node.
cmd_describe_command(graphs, node, vline) ==
  LET s == LookedUp(node, vline) IN cmd_complete_command_real(graphs[s.node], s.line)

\* cmd_complete_command: what TAB may write.  No handler of variables is
\* registered, so only words are left.
OnlyWords(initial) ==
  LET words == SelectSeq(initial.comps, LAMBDA t : t.type = "WORD") IN
  IF initial.status = "NO_MATCH" THEN [comps |-> NULL, status |-> "NO_MATCH"]
  ELSE Completions([i \in 1..Len(words) |-> words[i].text])
cmd_complete_command(graphs, node, vline) ==
  LET s == LookedUp(node, vline) IN OnlyWords(cmd_complete_command_real(graphs[s.node], s.line))

\* What cmd_execute_command tries first: the answer of command_match for the line,
\* in the node "do" leads to.
FirstTried(graphs, node, vline) ==
  LET s == LookedUp(node, vline) IN command_match(graphs[s.node], s.line)

-----------------------------------------------------------------------------
\* A line is cut into the runs of characters between blanks, whatever blanks
\* lead, trail or repeat, and is nothing when it is blank or a comment
\* (cmd_make_strvec: empty words are unset in place, then the gaps closed).
LineSplits(line) ==
  LET starts == {i \in 1..Len(line) : line[i] # Blank /\ (i = 1 \/ line[i - 1] = Blank)}
      Nth(k) == CHOOSE i \in starts : Cardinality({j \in starts : j < i}) = k - 1
      Run(i) == SubSeq(line, i, CHOOSE e \in i..Len(line) :
                                  /\ e = Len(line) \/ line[e + 1] = Blank
                                  /\ \A j \in i..e : line[j] # Blank)
  IN cmd_make_strvec(line) =
       IF starts = {} THEN NULL
       ELSE IF line[Nth(1)] = Comment THEN NULL
       ELSE [k \in 1..Cardinality(starts) |-> Run(Nth(k))]

\* What TAB and "?" make of the tokens that the graph offers.
Renders(offers, tab, shown) ==
  LET words == {t.text : t \in {o \in offers : o.type = "WORD"}} IN
  /\ IF offers = {} THEN tab.comps = NULL
     ELSE /\ {tab.comps[i] : i \in 1..Len(tab.comps)} = words
          /\ \A i \in 1..Len(tab.comps) - 1 : strcmp_less(tab.comps[i], tab.comps[i + 1])
  /\ (tab.status = "FULL") = (Cardinality(words) = 1)
  /\ (\E t \in offers : t.type = "END") = (shown # <<>> /\ Len(shown) > 0 /\ shown[1].type = "END")

\* TAB completes with exactly the words the graph offers, each once and in
\* order, and writes one only when there is just one; "?" shows the end of the
\* line first if the line may end here.  After "do" both look in ENABLE_NODE, for
\* the rest of the line, except in VIEW_NODE, where "do" is looked up like any
\* word (completions_to_vec behind cmd_complete_command and cmd_describe_command).
TabCompletes ==
  \A node \in DOMAIN Graphs, lead \in {<<>>, <<Doing>>}, line \in Lines \union {<<>>} :
    lead \o line # <<>> =>
      Renders(IF node = "VIEW" \/ lead = <<>> THEN command_complete(Graphs[node], lead \o line)
                                             ELSE command_complete(graph, line),
              cmd_complete_command(Graphs, node, lead \o line),
              cmd_describe_command(Graphs, node, lead \o line).comps)

\* Every word TAB offers is one that execution takes there: in no node, with or
\* without "do" in front, does a line completed with it lead to no command at all
\* (command_complete against command_match, and cmd_complete_command against
\* cmd_execute_command, each with a shortcut of its own).
OffersTaken ==
  \A node \in DOMAIN Graphs, lead \in {<<>>, <<Doing>>}, line \in Lines :
    LET tab == cmd_complete_command(Graphs, node, lead \o Append(line, Nothing)).comps IN
    tab # NULL =>
      \A i \in 1..Len(tab) :
        FirstTried(Graphs, node, lead \o Append(line, tab[i])).status # NO_MATCH

\* What ? and TAB offer can be typed and leads to a command (command_complete,
\* cmd_complete_command).
CompletionRight == Usable => OffersTaken /\ TabCompletes
=============================================================================
