--------------------------- MODULE CmdGraph ---------------------------
(* The command graph of a node of the shell: how a command's definition  *)
(* becomes a graph (command_parse.y), how the graphs of several commands *)
(* are merged and taken apart again (command_graph.c, graph.c), how a    *)
(* line is matched against the result and completed (command_match.c),   *)
(* and install_element and uninstall_element of command.c around them.   *)
(*                                                                       *)
(* A graph is a record of functions over the live nodes: the token, the  *)
(* successors and the predecessors in the order of their vectors.        *)
(* "bad" is raised by a step that would use a node after it was freed.   *)
EXTENDS TokenMatch

CONSTANTS Commands,     \* the command elements
          Definition,   \* Commands -> what the definition string says
          CMD_ARGC_MAX, \* most tokens in a line
          Lines,        \* the lines tried, sequences of words
          MaxTokens,    \* longer than every line and every fixed definition
          NULL

SPECIAL == {"FORK", "JOIN", "START", "END"}

-----------------------------------------------------------------------------
(* graph.c *)

Token(type, text, attr) ==
  [type |-> type, text |-> text, attr |-> attr, min |-> 0, max |-> 0, varname |-> NULL,
   allowrepeat |-> FALSE, refcnt |-> 1, forkjoin |-> NULL, el |-> NULL]

Live(g) == DOMAIN g.tok
Put(f, k, v) == [x \in DOMAIN f \union {k} |-> IF x = k THEN v ELSE f[x]]
Drop(f, k) == [x \in DOMAIN f \ {k} |-> f[x]]

\* graph_new_node; node numbers are reused like addresses.
NewId(g) == CHOOSE n \in 0..Cardinality(Live(g)) : n \notin Live(g)
graph_new_node(g, token) ==
  LET n == NewId(g) IN
  [g EXCEPT !.tok = Put(@, n, token), !.to = Put(@, n, <<>>), !.from = Put(@, n, <<>>)]

graph_add_edge(g, a, b) ==
  [g EXCEPT !.to[a] = Append(@, b), !.from[b] = Append(@, a)]

\* graph_vector_remove: the last entry takes the place of the removed one.
graph_vector_remove(v, i) ==
  LET short == SubSeq(v, 1, Len(v) - 1) IN
  IF i = Len(v) THEN short ELSE [short EXCEPT ![i] = v[Len(v)]]

Without(v, x) ==
  IF \E i \in 1..Len(v) : v[i] = x
    THEN graph_vector_remove(v, CHOOSE i \in 1..Len(v) :
                                  v[i] = x /\ \A k \in i + 1..Len(v) : v[k] # x)
    ELSE v

graph_remove_edge(g, a, b) ==
  [g EXCEPT !.to[a] = Without(@, b), !.from[b] = Without(@, a)]

\* graph_delete_node: the edges to and from the node go with it.
RECURSIVE WithoutAll(_, _, _, _)
WithoutAll(g, n, in, out) ==
  IF in # <<>> THEN WithoutAll(graph_remove_edge(g, in[Len(in)], n), n, SubSeq(in, 1, Len(in) - 1), out)
  ELSE IF out # <<>> THEN WithoutAll(graph_remove_edge(g, n, out[Len(out)]), n, in, SubSeq(out, 1, Len(out) - 1))
  ELSE [g EXCEPT !.tok = Drop(@, n), !.to = Drop(@, n), !.from = Drop(@, n)]

graph_delete_node(g, n) ==
  IF n \notin Live(g) THEN [g EXCEPT !.bad = TRUE]
  ELSE WithoutAll(g, n, g.from[n], SelectSeq(g.to[n], LAMBDA x : x # n))

RECURSIVE DeleteAll(_, _)
DeleteAll(g, ns) ==
  IF ns = {} THEN g
  ELSE LET n == CHOOSE x \in ns : TRUE IN DeleteAll(graph_delete_node(g, n), ns \ {n})

\* A node's graph before any command is installed (install_node).
Start == 0
EmptyGraph == graph_new_node([tok |-> <<>>, to |-> <<>>, from |-> <<>>, bad |-> FALSE],
                             Token("START", NULL, 0))

-----------------------------------------------------------------------------
(* command_parse.y.  A definition is a sequence of items: a token, or a   *)
(* selector [open, alts, varname] over sequences of items, with "<", "{"  *)
(* or "[" as open.  A part of the graph has a start and an end.           *)

Part(g, a, b) == [g |-> g, start |-> a, end |-> b]

\* new_token_node.
TokenNode(g, token, attr) ==
  Part(graph_new_node(g, [token EXCEPT !.attr = attr]), NewId(g), NewId(g))

RECURSIVE ParseItem(_, _, _)
RECURSIVE ParseSeq(_, _, _)
RECURSIVE ParseAlts(_, _, _, _)

\* Two parts after one another; a part hung into a selector; a token after a part.
InARow(front, back) == Part(graph_add_edge(back.g, front.end, back.start), front.start, back.end)
Hung(sel, p) ==
  Part(graph_add_edge(graph_add_edge(p.g, sel.start, p.start), p.end, sel.end), sel.start, sel.end)
Followed(p, token) ==
  Part(graph_add_edge(graph_new_node(p.g, token), p.end, NewId(p.g)), p.start, NewId(p.g))

\* A fork and a join, with the part between them.
Forked(p, attr, varname) ==
  LET fork == NewId(p.g)
      forked == graph_new_node(p.g, Token("FORK", NULL, attr))
      join == NewId(forked)
      made == graph_new_node(forked, [Token("JOIN", NULL, attr) EXCEPT
                                        !.forkjoin = fork, !.varname = varname])
  IN Hung(Part(made, fork, join), [p EXCEPT !.g = [made EXCEPT !.tok[fork].forkjoin = join]])

\* The edge back from the join of "{" and past the alternatives of "[".
Shaped(p, open) ==
  CASE open = "{" -> [p EXCEPT !.g = graph_add_edge(@, p.end, p.start)]
    [] open = "[" -> [p EXCEPT !.g = graph_add_edge(@, p.start, p.end)]
    [] OTHER -> p

\* selector_token_seq: each item follows the one before.
ParseSeq(g, items, attr) ==
  LET last == items[Len(items)]
      front == ParseSeq(g, SubSeq(items, 1, Len(items) - 1), attr)
  IN IF Len(items) = 1 THEN ParseItem(g, last, attr)
     ELSE InARow(front, ParseItem(front.g, last, attr))

\* selector_seq_seq: the fork and the join are made after the first
\* alternative, and every alternative is hung between them.
ParseAlts(g, alts, attr, varname) ==
  LET more[k \in 1..Len(alts)] ==
        IF k = 1 THEN Forked(ParseSeq(g, Head(alts), attr), attr, varname)
        ELSE Hung(more[k - 1], ParseSeq(more[k - 1].g, alts[k], attr))
  IN more[Len(alts)]

ParseItem(g, item, attr) ==
  IF "open" \notin DOMAIN item THEN TokenNode(g, item, attr)
  ELSE Shaped(ParseAlts(g, item.alts, attr, item.varname), item.open)

\* A part after the start node of the temporary graph; its last token repeated.
Rooted(p, root) == [p EXCEPT !.g = graph_add_edge(@, root, p.start)]
Variadic(p) == [p EXCEPT !.g = graph_add_edge([@ EXCEPT !.tok[p.end].allowrepeat = TRUE], p.end, p.end)]

\* start: the items after one another, a variadic last token, and
\* terminate_graph.  "root" is the start node of the temporary graph.
cmd_graph_parse(g, root, el) ==
  LET def == Definition[el]
      line == Rooted(ParseSeq(g, def.items, def.attr), root)
      ended == Followed(IF def.variadic THEN Variadic(line) ELSE line, Token("END", NULL, def.attr))
  IN Followed(ended, [Token("ELEMENT", NULL, 0) EXCEPT !.el = el]).g

-----------------------------------------------------------------------------
(* command_graph.c: names. *)

\* cmd_loopstop.
cmd_loopstop(g, n) == IF g.tok[n].type = "JOIN" THEN g.tok[n].forkjoin ELSE n

Rename(g, n, name) == IF g.tok[n].varname = NULL THEN [g EXCEPT !.tok[n].varname = name] ELSE g

\* cmd_node_names: a variable is named by its own text or by the word
\* before it; a fork hands on the name of its join.
RECURSIVE cmd_node_names(_, _, _, _)
cmd_node_names(g, n, join, prev) ==
  LET t == g.tok[n]
      tails == IF t.type = "FORK" THEN g.from[t.forkjoin] ELSE <<>>
      jointok == g.tok[t.forkjoin]
      handed[k \in 0..Len(tails)] ==
        IF k = 0 THEN g
        ELSE IF tails[k] = n THEN handed[k - 1] ELSE Rename(handed[k - 1], tails[k], jointok.varname)
      named == CASE t.type = "VARIABLE" -> Rename(g, n, IF t.text = <<"WORD">> THEN prev ELSE t.text)
                 [] t.type \in {"WORD", "START", "JOIN", "END", "ELEMENT"} -> g
                 [] t.type = "FORK" -> IF jointok.varname = NULL THEN g ELSE handed[Len(tails)]
                 [] OTHER -> Rename(g, n, prev)
      onward == IF t.type = "WORD" THEN t.text ELSE IF t.type = "FORK" THEN prev ELSE NULL
      walk[k \in 0..Len(g.to[n])] ==
        IF k = 0 THEN named
        ELSE IF g.to[n][k] \in {cmd_loopstop(g, n), join} THEN walk[k - 1]
        ELSE cmd_node_names(walk[k - 1], g.to[n][k], join, onward)
  IN IF t.type = "END" THEN g
     ELSE IF t.type = "FORK" /\ t.forkjoin # join
       THEN cmd_node_names(walk[Len(g.to[n])], t.forkjoin, join, NULL)
     ELSE walk[Len(g.to[n])]

\* cmd_graph_names: the word of an initial "[no]" is named before the others,
\* whatever name it has.
No == <<"n", "o">>
cmd_graph_names(g, start) ==
  LET first == g.to[start][1]
      nexts == {g.to[first][i] : i \in 1..Len(g.to[first])}
      option == /\ Len(g.to[start]) = 1
                /\ g.tok[first].type = "FORK" /\ Len(g.to[first]) = 2
                /\ g.tok[first].forkjoin \in nexts
      nos == IF option THEN {n \in nexts : g.tok[n].type = "WORD" /\ g.tok[n].text = No} ELSE {}
      named == [g EXCEPT !.tok = [n \in DOMAIN @ |-> IF n \in nos THEN [@[n] EXCEPT !.varname = No] ELSE @[n]]]
  IN cmd_node_names(named, start, NULL, NULL)

-----------------------------------------------------------------------------
(* command_graph.c: comparing. *)

Linked(g, a, b) == \E i \in 1..Len(g.to[a]) : g.to[a][i] = b

RECURSIVE cmd_nodes_equal(_, _, _)
RECURSIVE cmd_subgraph_equal(_, _, _, _)

\* cmd_subgraph_equal: the successors are compared place by place (the inner
\* loop of the code indexes both lists with i).
cmd_subgraph_equal(g, a, b, ajoin) ==
  /\ Len(g.to[a]) = Len(g.to[b])
  /\ \A i \in 1..Len(g.to[a]) :
       LET ca == g.to[a][i]
           cb == g.to[b][i]
       IN IF ca = cmd_loopstop(g, a) THEN cb = cmd_loopstop(g, b)
          ELSE /\ cmd_nodes_equal(g, ca, cb)
               /\ ca = ajoin \/ cmd_subgraph_equal(g, ca, cb, ajoin)

\* cmd_nodes_equal: for a fork the whole subgraph up to its join.
cmd_nodes_equal(g, a, b) ==
  LET s == g.tok[a]
      t == g.tok[b]
  IN /\ s.type = t.type /\ s.allowrepeat = t.allowrepeat
     /\ s.type \notin SPECIAL => s.text = t.text
     /\ Linked(g, a, a) = Linked(g, b, b)
     /\ s.varname = t.varname
     /\ s.type = "RANGE" => s.min = t.min /\ s.max = t.max
     /\ s.type = "FORK" =>
          /\ Linked(g, s.forkjoin, a) = Linked(g, t.forkjoin, b)
          /\ Linked(g, a, s.forkjoin) = Linked(g, b, t.forkjoin)
          /\ cmd_subgraph_equal(g, a, b, s.forkjoin)

-----------------------------------------------------------------------------
(* command_graph.c: merging a command in and out. *)

\* What cmd_reparent_tree, cmd_fork_bump_attr and graph_delete_graph reach.
RECURSIVE Reach(_, _, _)
Reach(g, seen, border) ==
  LET next == UNION {{g.to[n][i] : i \in 1..Len(g.to[n])} : n \in border} \ seen
  IN IF next = {} THEN seen ELSE Reach(g, seen \union next, next)

\* cmd_fork_bump_attr: the tokens between a fork and its join.
cmd_fork_bump_attr(g, fork, attr) ==
  LET join == g.tok[fork].forkjoin
      inside == Reach(g, {fork, join}, {fork}) \ {join}
  IN [g EXCEPT !.tok = [n \in DOMAIN @ |-> IF n \in inside THEN [@[n] EXCEPT !.attr = attr] ELSE @[n]]]

\* cmd_free_recur: the successors from the last one backwards.
RECURSIVE FreeFrom(_, _, _, _)
FreeFrom(g, n, stop, i) ==
  IF n \notin Live(g) THEN [g EXCEPT !.bad = TRUE]
  ELSE IF i = 0 THEN graph_delete_node(g, n)
  ELSE IF i > Len(g.to[n]) THEN [g EXCEPT !.bad = TRUE]
  ELSE LET next == g.to[n][i]
           nstop == cmd_loopstop(g, next)
           inner == IF nstop = next THEN g ELSE FreeFrom(g, next, nstop, Len(g.to[next]))
           outer == IF nstop \in Live(inner) THEN FreeFrom(inner, nstop, stop, Len(inner.to[nstop]))
                    ELSE [inner EXCEPT !.bad = TRUE]
       IN IF next = stop THEN FreeFrom(g, n, stop, i - 1)
          ELSE IF outer.bad THEN outer
          ELSE FreeFrom(outer, n, stop, i - 1)

\* cmd_free_node: a join takes its fork and all between with it.
cmd_free_node(g, n) ==
  LET fork == g.tok[n].forkjoin IN
  graph_delete_node(IF g.tok[n].type = "JOIN" THEN FreeFrom(g, fork, n, Len(g.to[fork])) ELSE g, n)

\* The first successor of old, other than its loop, that equals cnew.
SameChild(g, old, skip, cnew) ==
  LET same == {i \in 1..Len(g.to[old]) : g.to[old][i] # skip /\ cmd_nodes_equal(g, g.to[old][i], cnew)}
  IN IF same = {} THEN NULL ELSE g.to[old][CHOOSE i \in same : \A k \in same : i <= k]

Lower(a, b) == IF a < b THEN a ELSE b

RECURSIVE cmd_merge_nodes(_, _, _, _)
RECURSIVE MergeFrom(_, _, _, _, _)

\* Nothing equal was found: the new branch is moved over.
AddBranch(g, old, new, cnew) == graph_add_edge(graph_remove_edge(g, new, cnew), old, cnew)

\* One round of the loop over the new node's successors and those after it;
\* o and w are the nodes being merged with the edge each of them skips.
MergeFrom(g, o, w, j, direction) ==
  LET cnew == g.to[w.n][j]
      cold == SameChild(g, o.n, o.skip, cnew)
      type == g.tok[cold].type
      bumped == IF type = "FORK" /\ g.tok[cnew].attr < g.tok[cold].attr /\ direction > 0
                  THEN cmd_fork_bump_attr(g, cold, g.tok[cnew].attr) ELSE g
      past(n) == IF type = "FORK" THEN g.tok[n].forkjoin ELSE n
      lowered == [bumped EXCEPT !.tok[past(cold)].attr = Lower(@, bumped.tok[past(cnew)].attr)]
      after == IF cnew = w.skip THEN g
               ELSE IF cold = NULL \/ (type = "END" /\ direction > 0)
                 THEN IF direction > 0 THEN AddBranch(g, o.n, w.n, cnew) ELSE g
               ELSE IF type = "END" THEN graph_delete_node(graph_delete_node(g, g.to[cold][1]), cold)
               ELSE cmd_merge_nodes(lowered, past(cold), past(cnew), direction)
  IN IF j > Len(g.to[w.n]) \/ g.bad THEN g ELSE MergeFrom(after, o, w, j + 1, direction)

\* Variant: the count of commands that use a token is not kept up.
MergeUncounted(g, old, new, direction) ==
  MergeFrom(g, [n |-> old, skip |-> cmd_loopstop(g, old)], [n |-> new, skip |-> cmd_loopstop(g, new)], 1, direction)

cmd_merge_nodes(g, old, new, direction) ==
  LET counted == [g EXCEPT !.tok[old].refcnt = @ + direction]
      merged == MergeFrom(counted, [n |-> old, skip |-> cmd_loopstop(g, old)],
                          [n |-> new, skip |-> cmd_loopstop(g, new)], 1, direction)
  IN IF ~merged.bad /\ merged.tok[old].refcnt = 0 THEN cmd_free_node(merged, old) ELSE merged

\* What was not moved is deleted.
Cleaned(g, root) == IF g.bad THEN g ELSE DeleteAll(g, Reach(g, {root}, {root}))

\* command.c install_element and uninstall_element, for a command that is not
\* or is installed: parse into a temporary graph, name, merge, and delete
\* what was not moved.
WithCommand(g, el, direction) ==
  LET root == NewId(g)
      temp == graph_new_node(g, Token("START", NULL, 0))
      parsed == cmd_graph_names(cmd_graph_parse(temp, root, el), root)
  IN Cleaned(cmd_merge_nodes(parsed, Start, root, direction), root)

-----------------------------------------------------------------------------
(* command_match.c: matching. *)

\* enum matcher_rv.
NO_MATCH == 0
INCOMPLETE == 1
AMBIGUOUS == 2
OK == 3

Higher(a, b) == IF a > b THEN a ELSE b

\* add_nexthops: the tokens one hop away; forks and joins are transparent.
\* A token of the stack is not entered again unless it may repeat.
add_nexthops(g, n, stack) ==
  LET hops[m \in Live(g), k \in Nat] ==   \* by the first k edges of m
        IF k = 0 THEN <<>>
        ELSE LET c == g.to[m][k] IN
             hops[m, k - 1] \o (IF c \in stack /\ ~g.tok[c].allowrepeat THEN <<>>
                                ELSE IF g.tok[c].type \in SPECIAL \ {"END"} THEN hops[c, Len(g.to[c])]
                                ELSE <<c>>)
  IN hops[n, Len(g.to[n])]

min_match_level(type) ==
  CASE type = "START" -> no_match [] type = "WORD" -> partly_match [] OTHER -> exact_match

score_precedence(type) ==
  CASE type = "WORD" -> 3 [] type = "VARIABLE" -> 4
    [] type \in SPECIAL -> 10 [] OTHER -> 2

Winner(a, b) == IF a > b THEN 1 ELSE IF b > a THEN 2 ELSE 0

\* Variant: a variable wins against a word.
DisambiguateReversed(s, t, w) ==
  IF s.type # t.type THEN Winner(score_precedence(s.type), score_precedence(t.type))
  ELSE Winner(match_token(s, w), match_token(t, w))

\* disambiguate_tokens: 1 or 2 for the better match of word w, 0 for neither.
disambiguate_tokens(s, t, w) ==
  IF s.type # t.type THEN Winner(score_precedence(t.type), score_precedence(s.type))
  ELSE Winner(match_token(s, w), match_token(t, w))

FirstDifference(won) ==
  LET differ == {i \in DOMAIN won : won[i] # 0} IN
  IF differ = {} THEN 0 ELSE won[CHOOSE i \in differ : \A k \in differ : i <= k]

\* disambiguate: the first word for which one of the lists is better.
disambiguate(first, second, words) ==
  FirstDifference([i \in 1..Len(words) |-> disambiguate_tokens(first[i], second[i], words[i])])

\* The better of two answers that found a command, d telling which.
Chosen(best, r, d) ==
  CASE d = 0 -> [best EXCEPT !.status = AMBIGUOUS]
    [] d = 1 -> IF best.status = AMBIGUOUS THEN best ELSE [best EXCEPT !.status = OK]
    [] d = 2 -> IF r.status = AMBIGUOUS THEN r ELSE [r EXCEPT !.status = OK]

\* One candidate's answer r joined with the best so far.
Better(best, r, words) ==
  IF r.toks # NULL /\ best.toks # NULL THEN Chosen(best, r, disambiguate(best.toks, r.toks, words))
  ELSE IF r.toks # NULL THEN r
  ELSE IF best.toks = NULL THEN [best EXCEPT !.status = Higher(r.status, @)]
  ELSE best

Answer(status, toks, el) == [status |-> status, toks |-> toks, el |-> el]

\* What is found among the ends of commands after the last word.
Ends(g, hops) ==
  LET ends == SelectSeq(hops, LAMBDA c : g.tok[c].type = "END") IN
  IF ends = <<>> THEN Answer(INCOMPLETE, NULL, NULL)
  ELSE Answer(IF Len(ends) = 1 THEN OK ELSE AMBIGUOUS, <<>>, g.tok[g.to[ends[1]][1]].el)

\* The token of this node in front of those found after it.
After(t, r) == IF r.toks # NULL THEN [r EXCEPT !.toks = <<t>> \o @] ELSE r

\* command_match_r: line[k] against node n; the tokens found are those from
\* n on, and the element at the end.
RECURSIVE command_match_r(_, _, _, _, _)
command_match_r(g, n, line, k, stack) ==
  LET t == g.tok[n]
      hops == add_nexthops(g, n, {})
      words == SubSeq(line, k + 1, Len(line))
      best[i \in 0..Len(hops)] ==
        IF i = 0 THEN Answer(NO_MATCH, NULL, NULL)
        ELSE Better(best[i - 1], command_match_r(g, hops[i], line, k + 1, stack \union {n}), words)
  IN IF \/ k > CMD_ARGC_MAX
        \/ ~t.allowrepeat /\ n \in stack
        \/ match_token(t, line[k]) < min_match_level(t.type)
       THEN Answer(NO_MATCH, NULL, NULL)
     ELSE After(t, IF k = Len(line) THEN Ends(g, hops) ELSE best[Len(hops)])

\* command_match: a dummy word matches the start node.
command_match(g, line) ==
  LET r == command_match_r(g, Start, <<<<"dummy">>>> \o line, 1, {}) IN
  [status |-> r.status, el |-> IF r.status = OK THEN r.el ELSE NULL]

-----------------------------------------------------------------------------
(* command_match.c: completion. *)

\* Variant: the words before the last are not compared.
CompleteUnread(g, current, w, last) ==
  LET step(st) ==
        LET hops == add_nexthops(g, st[1], {st[i] : i \in 1..Len(st)}) IN
        IF g.tok[st[1]].attr # 0 THEN <<>>
        ELSE IF last THEN IF match_token(g.tok[st[1]], w) = no_match THEN <<>> ELSE << <<st[1]>> >>
        ELSE [i \in 1..Len(hops) |-> <<hops[i]>> \o st]
      all[k \in 0..Len(current)] == IF k = 0 THEN <<>> ELSE all[k - 1] \o step(current[k])
  IN all[Len(current)]

\* A stack (newest token first) whose head takes the word m well: what comes
\* after it, or its head alone after the last word.
Onward(g, st, m, exact, last) ==
  LET t == g.tok[st[1]]
      hops == add_nexthops(g, st[1], {st[i] : i \in 1..Len(st)})
  IN IF t.attr # 0 \/ m = no_match \/ (m = partly_match /\ exact /\ ~last) THEN <<>>
     ELSE IF last THEN << <<st[1]>> >>
     ELSE IF m >= min_match_level(t.type)
       THEN [i \in 1..Len(hops) |-> <<hops[i]>> \o st] ELSE <<>>

\* One round of command_complete: the stacks that follow the word.
CompleteWord(g, current, w, last) ==
  LET match == [i \in 1..Len(current) |-> match_token(g.tok[current[i][1]], w)]
      exact == \E i \in 1..Len(current) : match[i] = exact_match
      all[k \in 0..Len(current)] ==
        IF k = 0 THEN <<>> ELSE all[k - 1] \o Onward(g, current[k], match[k], exact, last)
  IN all[Len(current)]

Heads(g, stacks) == {g.tok[stacks[i][1]] : i \in 1..Len(stacks)}

\* command_complete and completions_to_vec: the tokens offered, as a set.
command_complete(g, line) ==
  LET hops == add_nexthops(g, Start, {})
      round[k \in 0..Len(line)] ==
        IF k = 0 THEN [i \in 1..Len(hops) |-> <<hops[i]>>]
        ELSE CompleteWord(g, round[k - 1], line[k], k = Len(line))
  IN Heads(g, round[Len(line)])

-----------------------------------------------------------------------------
(* command.c: a node's commands.                                           *)

VARIABLES graph,     \* cnode->cmdgraph
          installed  \* cnode->cmd_hash

\* install_node.
CmdInit == graph = EmptyGraph /\ installed = {}

\* install_element: a second installation of the same command is refused.
install_element(el) ==
  IF el \in installed THEN UNCHANGED <<graph, installed>>
  ELSE graph' = WithCommand(graph, el, 1) /\ installed' = installed \union {el}

\* uninstall_element.
uninstall_element(el) ==
  IF el \notin installed THEN UNCHANGED <<graph, installed>>
  ELSE graph' = WithCommand(graph, el, -1) /\ installed' = installed \ {el}

-----------------------------------------------------------------------------
(* What the definitions say: the sequences of at most n tokens that a     *)
(* command consists of, each with a mark if the command ends there.       *)

Shorter(seqs, n) == {s \in seqs : Len(s) <= n}

\* The sequences over distinct members of a set, at least one.
Orders(S) == UNION {{f \in [1..k -> S] : \A i, j \in 1..k : f[i] = f[j] => i = j} : k \in 1..Cardinality(S)}

RECURSIVE SeqsOf(_, _)
SeqsOf(items, n) ==
  IF items = <<>> THEN {<<>>}
  ELSE LET item == Head(items)
           alts == [i \in 1..Len(item.alts) |-> SeqsOf(item.alts[i], n)]
           any == UNION {alts[i] : i \in DOMAIN alts}
           strung(f) == LET all[k \in 0..Len(f)] ==
                              IF k = 0 THEN {<<>>} ELSE {a \o b : a \in all[k - 1], b \in alts[f[k]]}
                        IN all[Len(f)]
           first == IF "open" \notin DOMAIN item THEN {<<item>>}
                    ELSE CASE item.open = "<" -> any
                           [] item.open = "[" -> any \union {<<>>}
                           [] item.open = "{" -> UNION {strung(f) : f \in Orders(DOMAIN alts)}
       IN Shorter({a \o b : a \in first, b \in SeqsOf(Tail(items), n)}, n)

\* The lines of command el of at most n tokens.
LanguageOf(el, n) ==
  LET def == Definition[el]
      once == SeqsOf(def.items, n)
      repeat(s) == {s \o [i \in 1..k |-> s[Len(s)]] : k \in 0..n - Len(s)}
  IN IF def.variadic THEN UNION {repeat(s) : s \in once} ELSE once

\* What matters of a token for the lines it takes.
Face(t) == [type |-> t.type, text |-> t.text, min |-> t.min, max |-> t.max]
Faces(toks) == [i \in 1..Len(toks) |-> Face(toks[i])]

Promised == UNION {{<<Faces(s), el>> : s \in LanguageOf(el, MaxTokens)} : el \in installed}

\* The lines that lead from node n to the end of a command.
RECURSIVE Held(_, _, _, _)
Held(g, n, seen, left) ==
  LET hops == add_nexthops(g, n, {})
      from(c) == IF g.tok[c].type = "END" THEN {<<<<>>, g.tok[g.to[c][1]].el>>}
                 ELSE IF left = 0 \/ (c \in seen /\ ~g.tok[c].allowrepeat) THEN {}
                 ELSE {<<<<Face(g.tok[c])>> \o r[1], r[2]>> : r \in Held(g, c, seen \union {c}, left - 1)}
  IN UNION {from(hops[i]) : i \in 1..Len(hops)}

\* How well a promised line fits the words, the first difference counting most.
Fits(toks, line) ==
  /\ Len(toks) >= Len(line)
  /\ \A i \in 1..Len(line) : match_token(toks[i], line[i]) >= min_match_level(toks[i].type)
Fit(toks, line) == [i \in 1..Len(line) |-> 4 * score_precedence(toks[i].type) - match_token(toks[i], line[i])]
Ahead(f, h) == \E i \in DOMAIN f : f[i] < h[i] /\ \A k \in 1..i - 1 : f[k] = h[k]

\* The promised answer for a line: the best of the lines that fit it, if it
\* is alone; incomplete if only longer ones fit.
Meant(line, promised) ==
  LET fitting == {p \in promised : Fits(p[1], line)}
      whole == {p \in fitting : Len(p[1]) = Len(line)}
      best == {p \in whole : \A q \in whole : ~Ahead(Fit(q[1], line), Fit(p[1], line))}
  IN IF whole = {} THEN [status |-> IF fitting = {} THEN NO_MATCH ELSE INCOMPLETE, el |-> NULL]
     ELSE IF Cardinality(best) = 1 THEN [status |-> OK, el |-> (CHOOSE p \in best : TRUE)[2]]
     ELSE [status |-> AMBIGUOUS, el |-> NULL]

-----------------------------------------------------------------------------
(* Properties *)

Elements(g, n) == {g.tok[x].el : x \in Reach(g, {n}, {n})} \ {NULL}
Inner(g) == UNION {Reach(g, {f, g.tok[f].forkjoin}, {f}) \ {g.tok[f].forkjoin}
                   : f \in {n \in Live(g) : g.tok[n].type = "FORK"}}

\* Merging, unmerging and freeing leave a graph in which every edge is in the
\* vectors of both its ends, everything is reachable from the start, and a
\* token outside a selector counts the commands that use it: nothing is freed
\* twice, used after it was freed, or left behind (cmd_merge_nodes,
\* cmd_free_node, graph_delete_node).
GraphSound ==
  /\ ~graph.bad
  /\ Live(graph) = Reach(graph, {Start}, {Start})
  /\ \A a, b \in Live(graph) :
       Len(SelectSeq(graph.to[a], LAMBDA x : x = b)) = Len(SelectSeq(graph.from[b], LAMBDA x : x = a))
  /\ \A n \in Live(graph) \ (Inner(graph) \union {Start}) :
       graph.tok[n].refcnt = Cardinality(Elements(graph, n))

\* Whatever was installed and uninstalled before, and in whatever order, the
\* graph holds exactly the lines of the commands now installed
\* (install_element, uninstall_element and cmd_graph_merge).
GraphHoldsCommands == ~graph.bad => Held(graph, Start, {}, MaxTokens) = Promised

\* A graph that can be asked something: the empty one answers NO_MATCH.
Usable == ~graph.bad /\ graph # EmptyGraph

\* A line is answered with the installed command that fits it best word by
\* word, as ambiguous when that is not one command, as incomplete when only
\* longer commands begin with it (command_match and its recursion, which only
\* ever compares two candidates of one node).
MatchesBest ==
  Usable => LET promised == Promised IN
            \A line \in Lines : command_match(graph, line) = Meant(line, promised)

\* Completion leads through every command that is not hidden: after any of
\* its words typed in full, the next one is offered, and its end at the end
\* (command_complete and the attributes cmd_merge_nodes gives shared tokens).
VisibleOffered ==
  ~graph.bad =>
    \A el \in {e \in installed : Definition[e].attr = 0} :
      \A s \in {x \in LanguageOf(el, MaxTokens) : \A i \in 1..Len(x) : x[i].type = "WORD"} :
        \A k \in 0..Len(s) :
          LET typed == [i \in 1..k + 1 |-> IF i <= k THEN s[i].text ELSE Nothing]
              offers == command_complete(graph, typed)
          IN \E t \in offers : IF k = Len(s) THEN t.type = "END" ELSE Face(t) = Face(s[k + 1])

\* After any installs and uninstalls the graph is whole, holds the installed commands
\* and hides none that should be seen (cmd_graph_merge).
GraphRight == GraphSound /\ GraphHoldsCommands /\ VisibleOffered
=============================================================================
