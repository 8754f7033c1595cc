--------------------------------- MODULE Trie ---------------------------------
(***************************************************************************)
(* The prefix tree of Crow's router (crow_all.h, class Trie): how a rule's  *)
(* path is added, how the finished tree is compressed, and how a URL is     *)
(* looked up.  A URL is a sequence of characters; a path is a sequence of   *)
(* characters and of parameter names such as "<int>".                       *)
(***************************************************************************)
EXTENDS Integers, Sequences, SequencesExt, FiniteSetsExt

CONSTANT MaxDigits  \* numerals with more digits than this are out of range (ERANGE)
ASSUME MaxDigitsIsPositive == MaxDigits \in Nat \ {0}

Digits == {"0", "1"}
Signs == {"+", "-"}
ParamTypes == {"<int>", "<uint>", "<double>", "<string>", "<path>"}

\* The rule index of a path that answers with a redirection to path + "/".
RedirectSlash == 1

NoResult == [rule |-> 0, params |-> <<>>]

(***************************************************************************)
(* Nodes.  param is "none" in a node that stands for text, and key is empty *)
(* in a node that stands for a parameter.  rule = 0: no rule ends here.     *)
(***************************************************************************)
EmptyNode == [rule |-> 0, key |-> <<>>, param |-> "none", children |-> <<>>]

NodeFor(token) ==
    IF token \in ParamTypes
    THEN [EmptyNode EXCEPT !.param = token]
    ELSE [EmptyNode EXCEPT !.key = <<token>>]

(***************************************************************************)
(* A tree maps the path that leads to a node to the node; the head is at    *)
(* <<>>, and children are listed in the order in which they were made.  The *)
(* child of p that carries a token, if there is one, is Append(p, token).   *)
(***************************************************************************)
EmptyTrie == [p \in {<<>>} |-> EmptyNode]

IsEmpty(t) == t[<<>>].children = <<>>

(***************************************************************************)
(* Trie::add: one node per token, nodes shared with the paths added before. *)
(* RuleAt is the rule index found there; add throws unless it is 0.         *)
(***************************************************************************)
RuleAt(t, path) == IF path \in DOMAIN t THEN t[path].rule ELSE 0

Add(t, path, rule) ==
    [p \in DOMAIN t \cup Prefixes(path) |->
        LET node == IF p \in DOMAIN t THEN t[p] ELSE NodeFor(Last(p))
            next == SubSeq(path, 1, Len(p) + 1)
        IN  IF p = path THEN [node EXCEPT !.rule = rule]
            ELSE IF p \in Prefixes(path) /\ next \notin DOMAIN t
            THEN [node EXCEPT !.children = Append(@, next)]
            ELSE node]

(***************************************************************************)
(* Trie::validate and optimize: a text node with no rule and one text child *)
(* is merged with the child.  The head itself is never merged.  (A node     *)
(* that was merged into another stays in the map, where nothing leads to it.)*)
(***************************************************************************)
IsSimple(t, p) ==
    /\ t[p].rule = 0
    /\ Len(t[p].children) < 2
    /\ t[p].param = "none"
    /\ \A i \in DOMAIN t[p].children : t[t[p].children[i]].param = "none"

\* The node at p, once the node below it is as it should be.
OptimizeNode(t, p, optimized) ==
    IF t[p].children = <<>> \/ ~ IsSimple(t, p) THEN t[p]
    ELSE LET child == optimized[t[p].children[1]]
         IN  [child EXCEPT !.key = t[p].key \o @]

Optimize(t) ==
    LET optimized[p \in DOMAIN t] ==
          IF p = <<>> THEN t[p] ELSE OptimizeNode(t, p, optimized)
    IN  optimized

(***************************************************************************)
(* Trie::find.                                                              *)
(***************************************************************************)
CharAt(url, pos) == IF pos <= Len(url) THEN url[pos] ELSE "end"

\* The first position from pos on whose character is not in chars.
After(url, pos, chars) ==
    Min({e \in pos .. (Len(url) + 1) : e > Len(url) \/ url[e] \notin chars})

\* Where strtoll and strtoull stop: a sign and digits, pos when there is no
\* numeral at pos or when it is out of range.
NumeralEnd(url, pos, signs) ==
    LET d == IF CharAt(url, pos) \in signs THEN pos + 1 ELSE pos
        e == After(url, d, Digits)
    IN  IF e - d \in 1 .. MaxDigits THEN e ELSE pos

\* Where strtod stops: a sign, digits with at most one point among them.
DecimalEnd(url, pos) ==
    LET d == IF CharAt(url, pos) \in Signs THEN pos + 1 ELSE pos
        e == After(url, d, Digits)
        f == IF CharAt(url, e) = "." THEN After(url, e + 1, Digits) ELSE e
        digits == IF f = e THEN e - d ELSE (f - d) - 1
    IN  IF digits > 0 THEN f ELSE pos

\* The position after the text that a parameter takes at pos; pos if none.
ParamEnd(param, url, pos) ==
    CASE param = "<int>"    -> NumeralEnd(url, pos, Signs)
      [] param = "<uint>"   -> NumeralEnd(url, pos, {"+"})
      [] param = "<double>" -> DecimalEnd(url, pos)
      [] param = "<string>" -> After(url, pos, ToSet(url) \ {"/"})
      [] param = "<path>"   -> Len(url) + 1

\* The same for a node: a parameter, or a text that the URL must spell.
NodeEnd(node, url, pos) ==
    LET e == pos + Len(node.key)
    IN  IF node.param # "none" THEN ParamEnd(node.param, url, pos)
        ELSE IF e - 1 <= Len(url) /\ SubSeq(url, pos, e - 1) = node.key THEN e ELSE pos

\* What a child at p finds from pos on, find being what is found further on.
Through(t, url, p, pos, find) ==
    LET e == NodeEnd(t[p], url, pos)
        below == find[e][p]
        taken == <<t[p].param, SubSeq(url, pos, e - 1)>>
    IN  IF e = pos THEN NoResult
        ELSE IF t[p].param = "none" THEN below
        ELSE [below EXCEPT !.params = <<taken>> \o @]

\* A plausible slip: the first match is kept.
Mut_Best(found) ==
    LET matched == {f \in found : f[2].rule # 0}
    IN  IF matched = {} THEN NoResult
        ELSE (CHOOSE f \in matched : \A g \in matched : f[1] <= g[1])[2]

\* update_found, over the results of all children with their positions: the
\* lowest rule index, the first of them if there are several.
Best(found) ==
    LET matched == {f \in found : f[2].rule # 0}
        lowest == {f \in matched : \A g \in matched : f[2].rule <= g[2].rule}
    IN  IF matched = {} THEN NoResult
        ELSE (CHOOSE f \in lowest : \A g \in lowest : f[1] <= g[1])[2]

\* What is found at the node p.  The parameters taken on the way down are put
\* before those taken below.
FindAt(t, url, p, pos, find) ==
    IF pos > Len(url)
    THEN [rule |-> t[p].rule, params |-> <<>>]
    ELSE Best({<<i, Through(t, url, t[p].children[i], pos, find)>> :
                  i \in DOMAIN t[p].children})

Find(t, url) ==
    LET find[pos \in 1 .. (Len(url) + 1)] ==
          [p \in DOMAIN t |-> FindAt(t, url, p, pos, find)]
    IN  find[1][<<>>]
===============================================================================
