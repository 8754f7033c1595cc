-------------------------------- MODULE Router --------------------------------
(***************************************************************************)
(* Crow's router (crow_all.h, class Router and the rules it holds) from the *)
(* CROW_ROUTE calls of main.cpp to the answer of one request: routes are    *)
(* registered, validate() puts each of them into one tree per method, and   *)
(* then every request is looked up and handled.                             *)
(***************************************************************************)
EXTENDS Trie, QueryString, TLC

CONSTANTS
    Routes,     \* what an application may register (see IsRoute)
    MaxRoutes,  \* at most so many routes (a bound)
    Asks(_)     \* the requests asked of the routes registered (see IsAsk)

\* The methods of the server that the model tells apart.
Methods == {"GET", "POST", "HEAD", "OPTIONS"}

VARIABLES
    rules,     \* all_rules_, in the order of registration
    catchall,  \* catchall_rule_ has a handler
    stage,     \* "register", "validate", "serving", or "thrown" out of validate()
    added,     \* the rules that internal_add_rule_object has added
    list,      \* per_methods_[m].rules, without the two reserved entries
    trie,      \* per_methods_[m].trie
    asked,     \* the request being answered, or NoAsk
    query,     \* its url_params
    answer     \* what it was answered with, or NoAnswer

vars == <<rules, catchall, stage, added, list, trie, asked, query, answer>>

NoAsk == [method |-> "none", path |-> <<>>, pairs |-> <<>>, upgrade |-> FALSE]
NoQuery == [buf |-> <<>>, pairs |-> <<>>]
NoAnswer == [code |-> 0, rule |-> 0, params |-> <<>>, allow |-> {}, got |-> <<>>,
             caught |-> FALSE]

\* A rule: needs are the names its handler asks for, numbers those that it
\* gives to std::stoi, handled is FALSE if no handler was ever given.
IsRoute(r) ==
    /\ r.path \in Seq(STRING) \ {<<>>}
    /\ r.methods \subseteq Methods /\ r.methods # {}
    /\ r.numbers \subseteq r.needs /\ r.handled \in BOOLEAN

\* rule_index has 16 bits, and 0 and 1 are no rule's (crow_all.h:12030).
ASSUME RoutesAreRoutes == MaxRoutes \in 0 .. 65534 /\ \A r \in Routes : IsRoute(r)

\* What the parser hands over: its URL is not empty and ends before the "?".
IsAsk(a) ==
    /\ a.method \in Methods /\ a.path \in Seq(STRING) \ {<<>>}
    /\ a.upgrade \in BOOLEAN

Init ==
    /\ rules = <<>> /\ catchall = FALSE /\ stage = "register" /\ added = 0
    /\ list = [m \in Methods |-> <<>>]
    /\ trie = [m \in Methods |-> EmptyTrie]
    /\ asked = NoAsk /\ query = NoQuery /\ answer = NoAnswer

-------------------------------------------------------------------------------
(***************************************************************************)
(* Registration: CROW_ROUTE(app, path).methods(..)(handler).                *)
(***************************************************************************)
Route(r) ==
    /\ stage = "register" /\ Len(rules) < MaxRoutes
    /\ rules' = Append(rules, r)
    /\ UNCHANGED <<catchall, stage, added, list, trie, asked, query, answer>>

CatchAll ==
    /\ stage = "register" /\ ~ catchall
    /\ catchall' = TRUE
    /\ UNCHANGED <<rules, stage, added, list, trie, asked, query, answer>>

Run ==
    /\ stage = "register"
    /\ stage' = "validate"
    /\ UNCHANGED <<rules, catchall, added, list, trie, asked, query, answer>>

(***************************************************************************)
(* Router::validate, one rule at a time, in the order of registration.      *)
(***************************************************************************)
HasSlash(path) == Len(path) > 1 /\ Last(path) = "/"

\* What one rule adds to a method's tree: its path, then the redirection.
WithRule(t, path, index) ==
    IF HasSlash(path) THEN Add(Add(t, path, index), Front(path), RedirectSlash)
                      ELSE Add(t, path, index)

\* A plausible slip: the reserved entries are forgotten.
Mut_NextIndex(rulesOfMethod) == Len(rulesOfMethod) + 1

\* The index of the next rule of a method: 0 and 1 are taken.
NextIndex(rulesOfMethod) == Len(rulesOfMethod) + 2

\* A plausible slip: only the path itself is looked at.
Mut_AlreadyThere(t, path) == RuleAt(t, path) # 0

\* Trie::add throws "handler already exists for" when a rule ends there.
AlreadyThere(t, path) ==
    RuleAt(t, path) # 0 \/ (HasSlash(path) /\ RuleAt(t, Front(path)) # 0)

AddRule ==
    LET r == rules[added + 1]
    IN  /\ stage = "validate" /\ added < Len(rules)
        /\ Head(r.path) = "/" /\ r.handled          \* TaggedRule::validate
        /\ \A m \in r.methods : ~ AlreadyThere(trie[m], r.path)
        /\ added' = added + 1
        /\ list' = [m \in Methods |->
              IF m \in r.methods THEN Append(list[m], added + 1) ELSE list[m]]
        /\ trie' = [m \in Methods |->
              IF m \in r.methods THEN WithRule(trie[m], r.path, NextIndex(list[m]))
                                 ELSE trie[m]]
        /\ UNCHANGED <<rules, catchall, stage, asked, query, answer>>

\* What validate() throws leaves run() and main(): the program ends.
AddThrows ==
    LET r == rules[added + 1]
    IN  /\ stage = "validate" /\ added < Len(rules)
        /\ \/ Head(r.path) # "/" \/ ~ r.handled
           \/ \E m \in r.methods : AlreadyThere(trie[m], r.path)
        /\ stage' = "thrown"
        /\ UNCHANGED <<rules, catchall, added, list, trie, asked, query, answer>>

\* Every tree is compressed; a head that is not simple would throw.
Validated ==
    /\ stage = "validate" /\ added = Len(rules)
    /\ IF \A m \in Methods : IsSimple(trie[m], <<>>)
       THEN stage' = "serving" /\ trie' = [m \in Methods |-> Optimize(trie[m])]
       ELSE stage' = "thrown" /\ UNCHANGED trie
    /\ UNCHANGED <<rules, catchall, added, list, asked, query, answer>>

-------------------------------------------------------------------------------
(***************************************************************************)
(* A request.  on_url keeps the text before the "?" as the URL and parses   *)
(* the whole text for the parameters.  A pair of an ask is a record: the    *)
(* name and the value that the client means, and the text that spells them. *)
(***************************************************************************)
RawUrl(a) ==
    FoldLeftDomain(LAMBDA text, i : text \o <<IF i = 1 THEN "?" ELSE "&">> \o a.pairs[i].text,
                   a.path, a.pairs)

OnUrl ==
    /\ stage = "serving" /\ asked = NoAsk
    /\ \E a \in Asks(rules) : IsAsk(a) /\ asked' = a /\ query' = ParseQuery(RawUrl(a))
    /\ UNCHANGED <<rules, catchall, stage, added, list, trie, answer>>

Lookup(m, url) == Find(trie[m], url)
Matched(url) == {m \in Methods : Lookup(m, url).rule # 0}

\* The answer without a rule: get_error calls the catchall rule if there is one.
Refused(code) == [NoAnswer EXCEPT !.code = code, !.caught = catchall]

\* std::stoi takes leading blanks, a sign and a digit; anything else throws.
IsNumber(text) ==
    LET inked == {i \in DOMAIN text : text[i] # " "}
        t == IF inked = {} THEN <<>> ELSE SubSeq(text, Min(inked), Len(text))
        u == IF t # <<>> /\ Head(t) \in Signs THEN Tail(t) ELSE t
    IN  u # <<>> /\ Head(u) \in {"2", "6"}

(***************************************************************************)
(* Router::handle on a rule index: the redirection, or the rule's handler,  *)
(* where a missing parameter is a null pointer made a string, and that or   *)
(* a text that is no number throws: 500.                                    *)
(***************************************************************************)
Handled(m, found, a) ==
    LET i == list[m][found.rule - 1]
        got == [n \in rules[i].needs |-> Get(query, <<n>>)]
        throws == \/ \E n \in rules[i].needs : got[n] = Missing
                  \/ \E n \in rules[i].numbers : ~ IsNumber(got[n])
    IN  IF found.rule = RedirectSlash THEN [NoAnswer EXCEPT !.code = 301]
        ELSE [NoAnswer EXCEPT !.code = IF throws THEN 500 ELSE 200,
                              !.rule = i, !.params = found.params, !.got = got]

\* The method whose tree answers a HEAD request: GET's, unless HEAD has a rule.
HeadMethod(url) == IF Lookup("HEAD", url).rule # 0 THEN "HEAD" ELSE "GET"

AnswerHead(a) ==
    LET found == Lookup(HeadMethod(a.path), a.path)
    IN  IF found.rule = 0 THEN [NoAnswer EXCEPT !.code = 404]
                          ELSE Handled(HeadMethod(a.path), found, a)

\* OPTIONS is answered here, with or without a rule for OPTIONS.
Allow(methods) == {"OPTIONS", "HEAD"} \cup methods

AnswerOptions(a) ==
    IF a.path = <<"/", "*">>
    THEN [NoAnswer EXCEPT !.code = 204,
             !.allow = Allow({m \in Methods : ~ IsEmpty(trie[m])})]
    ELSE IF Matched(a.path) = {} THEN [NoAnswer EXCEPT !.code = 404]
    ELSE [NoAnswer EXCEPT !.code = 204, !.allow = Allow(Matched(a.path))]

\* A plausible slip: only the trees of GET and POST are tried.
Mut_RefusalCode(url) == IF Matched(url) \cap {"GET", "POST"} # {} THEN 405 ELSE 404

\* 405 if the URL has a rule in the tree of any method, else 404.
RefusalCode(url) == IF Matched(url) # {} THEN 405 ELSE 404

AnswerOther(a) ==
    LET found == Lookup(a.method, a.path)
    IN  IF found.rule # 0 THEN Handled(a.method, found, a)
                          ELSE Refused(RefusalCode(a.path))

\* handle_upgrade looks again, in the tree of the method alone, and knows no
\* catchall; a rule that is no websocket answers 404.
AnswerUpgrade(a) ==
    LET found == Lookup(a.method, a.path)
    IN  [NoAnswer EXCEPT !.code = IF found.rule = 0 THEN RefusalCode(a.path)
                                  ELSE IF found.rule = RedirectSlash THEN 301 ELSE 404]

\* handle_initial finds a rule, so that the request is read to its end; what it
\* finds none for, OPTIONS among it, is answered as soon as the URL is read.
HasRoute(a) ==
    CASE a.method = "HEAD"    -> Lookup(HeadMethod(a.path), a.path).rule # 0
      [] a.method = "OPTIONS" -> FALSE
      [] OTHER                -> Lookup(a.method, a.path).rule # 0

AnswerTo(a) ==
    IF a.upgrade /\ HasRoute(a) THEN AnswerUpgrade(a)
    ELSE CASE a.method = "HEAD"    -> AnswerHead(a)
           [] a.method = "OPTIONS" -> AnswerOptions(a)
           [] OTHER                -> AnswerOther(a)

Answer ==
    /\ asked # NoAsk /\ answer = NoAnswer
    /\ answer' = AnswerTo(asked)
    /\ UNCHANGED <<rules, catchall, stage, added, list, trie, asked, query>>

\* The connection has sent the answer and clears its request and response.
Forget ==
    /\ answer # NoAnswer
    /\ asked' = NoAsk /\ query' = NoQuery /\ answer' = NoAnswer
    /\ UNCHANGED <<rules, catchall, stage, added, list, trie>>

Next ==
    \/ \E r \in Routes : Route(r)
    \/ CatchAll \/ Run \/ AddRule \/ AddThrows \/ Validated \/ OnUrl \/ Answer \/ Forget

Spec == Init /\ [][Next]_vars

-------------------------------------------------------------------------------
(***************************************************************************)
(* What the routes mean, rule by rule and without a tree.  A parameter      *)
(* takes the longest text it can; a numeral out of range is none.           *)
(***************************************************************************)
Over(text, chars) == text # <<>> /\ ToSet(text) \subseteq chars
Unsigned(text, signs) == IF text # <<>> /\ Head(text) \in signs THEN Tail(text) ELSE text
IsNumeral(text, signs) == Over(Unsigned(text, signs), Digits)
IsDecimal(text) ==
    LET t == Unsigned(text, Signs)
        points == {i \in DOMAIN t : t[i] = "."}
    IN  /\ Over(t, Digits \cup {"."}) /\ t # <<".">>
        /\ \A i, j \in points : i = j

Spells(token, text) ==
    CASE token = "<int>"    -> IsNumeral(text, Signs)
      [] token = "<uint>"   -> IsNumeral(text, {"+"})
      [] token = "<double>" -> IsDecimal(text)
      [] token = "<string>" -> text # <<>> /\ "/" \notin ToSet(text)
      [] token = "<path>"   -> text # <<>>
      [] OTHER              -> text = <<token>>

\* The text of a URL from pos up to e.
Text(url, pos, e) == SubSeq(url, pos, e - 1)

Takes(token, url, pos, e) ==
    /\ Spells(token, Text(url, pos, e))
    /\ token \in ParamTypes =>
         \A f \in (e + 1) .. (Len(url) + 1) : ~ Spells(token, Text(url, pos, f))
    /\ token \in {"<int>", "<uint>"} =>
         Len(Unsigned(Text(url, pos, e), Signs)) <= MaxDigits

(***************************************************************************)
(* The parameters with which a path fits a URL: a set of at most one        *)
(* sequence.  FitsFrom: the tokens from the i-th on and the characters from *)
(* pos on, fits being what fits further on.                                 *)
(***************************************************************************)
FitsFrom(path, url, i, pos, fits) ==
    LET ends == {e \in (pos + 1) .. (Len(url) + 1) : Takes(path[i], url, pos, e)}
    IN  IF i > Len(path) THEN IF pos > Len(url) THEN {<<>>} ELSE {}
        ELSE IF path[i] \notin ParamTypes THEN UNION {fits[e][i + 1] : e \in ends}
        ELSE UNION {{<<<<path[i], Text(url, pos, e)>>>> \o p : p \in fits[e][i + 1]} :
                       e \in ends}

Fits(path, url) ==
    LET fits[pos \in 1 .. (Len(url) + 1)] ==
          [i \in 1 .. (Len(path) + 1) |-> FitsFrom(path, url, i, pos, fits)]
    IN  fits[1][1]

RulesOf(m) == {i \in DOMAIN rules : m \in rules[i].methods}
Fitting(m, url) == {i \in RulesOf(m) : Fits(rules[i].path, url) # {}}
Redirected(m, url) ==
    {i \in RulesOf(m) : HasSlash(rules[i].path) /\ Fits(Front(rules[i].path), url) # {}}
Answers(m, url) == Fitting(m, url) \cup Redirected(m, url) # {}

Answered == answer # NoAnswer
Asked(m) == Answered /\ asked.method = m /\ ~ asked.upgrade
Effective == IF asked.method = "HEAD" /\ ~ Answers("HEAD", asked.path) THEN "GET"
             ELSE asked.method

-------------------------------------------------------------------------------
(* A request that reaches a handler reaches the one registered first among  *)
(* those whose path fits its URL, with the text of that rule's own          *)
(* parameters, whatever the shared and compressed tree did with the others; *)
(* it is redirected if and only if some rule fits it but for a last slash.  *)
RoutedToFirstMatch ==
    Answered /\ ~ asked.upgrade /\ asked.method # "OPTIONS" =>
        LET m == Effective
            first == Fitting(m, asked.path)
        IN  /\ answer.code = 301 <=> Redirected(m, asked.path) # {}
            /\ answer.rule # 0 <=> first # {} /\ Redirected(m, asked.path) = {}
            /\ answer.rule # 0 => /\ answer.rule = Min(first)
                                  /\ answer.params \in Fits(rules[answer.rule].path, asked.path)

(* validate() throws for the routes that cannot all be served, and for no   *)
(* others: two that answer one path of one method (the redirection of a     *)
(* path that ends in a slash counts), no handler, or no leading slash.      *)
Paths(r) == {r.path} \cup (IF HasSlash(r.path) THEN {Front(r.path)} ELSE {})
Conflict(i, j) == /\ rules[i].methods \cap rules[j].methods # {}
                  /\ Paths(rules[i]) \cap Paths(rules[j]) # {}
Unfit == \/ \E i, j \in DOMAIN rules : i < j /\ Conflict(i, j)
         \/ \E i \in DOMAIN rules : ~ rules[i].handled \/ Head(rules[i].path) # "/"
ThrowsOnlyIfUnfit ==
    /\ stage = "thrown" => Unfit
    /\ stage = "serving" => ~ Unfit

(* A request without a rule learns why: 404 if no method has one for its    *)
(* URL, 405 if another method has, and OPTIONS lists exactly the methods    *)
(* that have one, with OPTIONS and HEAD added.                              *)
RefusalTellsWhy ==
    Answered =>
        LET able == {m \in Methods : Answers(m, asked.path)}
        IN  /\ answer.code = 405 => able # {} /\ asked.method \notin able
            /\ answer.code = 404 /\ ~ asked.upgrade =>
                 IF asked.method = "HEAD" THEN able \cap {"HEAD", "GET"} = {} ELSE able = {}
            /\ answer.code = 204 /\ asked.path # <<"/", "*">> =>
                 able # {} /\ answer.allow = able \cup {"OPTIONS", "HEAD"}

(* Following a redirection ends at a handler, as long as no rule of the     *)
(* method ends in "<path>/" or in "//": "<path>" takes the last slash too,  *)
(* so that such a rule answers with nothing but a redirection to itself,    *)
(* and a path that ends in "//" redirects the one that ends in "/".         *)
Plain(path) == HasSlash(path) => path[Len(path) - 1] \notin {"<path>", "/"}
RedirectLeads ==
    Answered /\ answer.code = 301 =>
        LET there == asked.path \o <<"/">>
        IN  (\A i \in RulesOf(Effective) : Plain(rules[i].path)) =>
                Fitting(Effective, there) # {} /\ Redirected(Effective, there) = {}

(* A handler gets, for a name, the value that the client meant in the first *)
(* pair with that name, whatever is escaped, blank or repeated around it,   *)
(* and nothing if there is none among the first MaxPairs; and if the name   *)
(* is missing, or a number is none, the answer is 500 and not the page.     *)
Meant(name) ==
    LET named == {i \in 1 .. Min({MaxPairs, Len(asked.pairs)}) : asked.pairs[i].name = name}
    IN  IF named = {} THEN Missing ELSE asked.pairs[Min(named)].value
ParametersAsMeant ==
    Answered /\ answer.rule # 0 =>
        LET r == rules[answer.rule]
        IN  /\ \A n \in r.needs : answer.got[n] = Meant(n)
            /\ answer.code = 500 <=> \/ \E n \in r.needs : Meant(n) = Missing
                                     \/ \E n \in r.numbers : ~ IsNumber(Meant(n))
===============================================================================
