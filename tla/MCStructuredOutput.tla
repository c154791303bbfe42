-------------------------- MODULE MCStructuredOutput --------------------------
(* StructuredOutput for TLC: the answers of a model, and the calls.         *)
EXTENDS StructuredOutput

(* An object of the members a and b, in a text: what comes before it and   *)
(* after it, a fence or none, and how much of it was written.              *)
Quoted(s) == <<"quote">> \o s \o <<"quote">>
Member(key, s) == Quoted(<<key>>) \o <<":">> \o Quoted(s)
Object(members) == <<"{">> \o FlattenSeq([i \in DOMAIN members |->
                       IF i = 1 THEN members[i] ELSE <<",">> \o members[i]]) \o <<"}">>
Framed(before, fenced, after, text) ==
    before \o (IF fenced THEN <<"fence", "json", "newline">> \o text \o <<"newline", "fence">> ELSE text) \o after

Said_(text, meant, whole, stop) ==
    [text |-> text, meant |-> meant, whole |-> whole, stop |-> stop, called |-> FALSE]
Whole_(members, before, fenced, after, stop) ==
    Said_(Framed(before, fenced, after, Object(members)), members, TRUE, stop)
CutAt(members, before, fenced, n) ==
    LET text == Framed(before, fenced, <<>>, Object(members))
    IN  Said_(SubSeq(text, 1, n), members, FALSE, "length")

Strings == {<<"word">>, <<"word", "quote", "word", "quote", "word">>, <<"escape", "quote", "word">>,
            <<"word", "quote", ",", "word">>, <<>>, <<"fence", "digit", "fence">>, <<"fence", "{", "}", "fence">>}
Members == {<<Member("a", s), Member("b", t)>> : s, t \in Strings} \cup {<<Member("a", s)>> : s \in Strings}
           \cup {<<Member("b", <<"word">>)>>}
Before == {<<>>, <<"word", "newline">>, <<"word", "[", "digit", "]">>}
After == {<<>>, <<"newline", "word">>, <<"word", "}">>}

(* Two objects, one a line, as JSONL.                                      *)
Lines_(members, fenced, stop) ==
    Said_(Framed(<<>>, fenced, <<>>, Object(members) \o <<"newline">> \o Object(members)), members, TRUE, stop)

Many == {Whole_(m, b, f, a, s) : m \in Members, b \in Before, f \in BOOLEAN, a \in After, s \in {"stop", "completed"}}
        \cup UNION {{CutAt(m, b, f, n) : n \in 1..Len(Framed(b, f, <<>>, Object(m)))}
                       : m \in Members, b \in Before, f \in BOOLEAN}
        \cup {Lines_(m, f, s) : m \in Members, f \in BOOLEAN, s \in {"stop", "completed", "length"}}
Good == <<Member("a", <<"word">>), Member("b", <<"word">>)>>
Few == {Whole_(Good, <<>>, FALSE, <<>>, "stop"), Whole_(<<Member("b", <<"word">>)>>, <<>>, TRUE, <<>>, "stop"),
        CutAt(Good, <<>>, FALSE, 4), CutAt(Good, <<"word">>, FALSE, 3)}
MCAnswers == [n \in -1..3 |-> IF n = 0 THEN Many ELSE Few]

(* Types: members of every sort, one of them named as a keyword is; one    *)
(* that holds itself; a dictionary; another put together of two.           *)
String == [type |-> "string"]
Null == [type |-> "null"]
Fields(p) == [type |-> "object", properties |-> p, required |-> {"a"}, title |-> "Type"]
MCSchemas ==
    [flat      |-> Fields([a |-> [type |-> "string", limit |-> "5", title |-> "A"], title |-> String @@ [default |-> "x"]]),
     choice    |-> Fields([a |-> [const |-> "fixed", type |-> "string"], title |-> [anyOf |-> <<String, Null>>, format |-> "date"]]),
     shared    |-> Fields([a |-> [ref |-> "Name"], title |-> [ref |-> "Inner", description |-> <<"words">>]])
                   @@ [defs |-> [Name |-> String @@ [limit |-> "5", format |-> "uri", description |-> <<"name">>],
                                 Inner |-> Fields([a |-> [ref |-> "Name"]]) @@ [additionalProperties |-> <<>>]]],
     lists     |-> Fields([a |-> [type |-> "array", items |-> [ref |-> "Inner"]], title |-> [enum |-> {"x", "fixed"}, default |-> "x"]])
                   @@ [defs |-> [Inner |-> Fields([a |-> String])]],
     dictionary |-> Fields([a |-> [type |-> "object", additionalProperties |-> <<String>>]]),
     both      |-> Fields([a |-> [allOf |-> <<Fields([a |-> String]), [type |-> "object", properties |-> [title |-> String]]>>]]),
     recursive |-> [ref |-> "Node",
                    defs |-> [Node |-> Fields([a |-> String, title |-> [anyOf |-> <<[ref |-> "Node"], Null>>]])]]]

(* Values of two levels, members and items among three strings and null.   *)
Atoms == {[kind |-> "string", text |-> t] : t \in {"x", "long", "fixed"}} \cup {[kind |-> "null"]}
Objects_(values) == {[kind |-> "object", fields |-> f] : f \in UNION {[names -> values] : names \in SUBSET {"a", "title"}}}
Arrays_(values) == {[kind |-> "array", items |-> s] : s \in {<<>>} \cup {<<v>> : v \in values}}
Inner_ == Atoms \cup Objects_(Atoms)
MCValues == Inner_ \cup Objects_(Inner_ \cup Arrays_(Inner_))

Call == [family |-> "openai", mode |-> "native", caching |-> FALSE, validator |-> FALSE, retries |-> 0, shape |-> "string",
         schema |-> "flat"]
MCClients ==
    {Call, [Call EXCEPT !.caching = TRUE, !.retries = 3]} \cup
    {[Call EXCEPT !.family = f, !.mode = m, !.caching = TRUE, !.validator = v, !.retries = n, !.shape = s]
        : f \in {"openai", "compat", "other"}, m \in {"native", "tool", "prompted"}, v \in BOOLEAN,
          n \in {-1, 1, 2}, s \in {"string", "list", "reply"}} \cup
    {[Call EXCEPT !.family = f, !.mode = m, !.retries = 1, !.shape = s, !.schema = n]
        : f \in {"openai", "anthropic", "google"}, m \in {"native", "tool", "prompted"},
          s \in {"string", "cited"}, n \in DOMAIN MCSchemas}

(* What an earlier call with the same question has left: an answer that    *)
(* would not do, and what followed its correction.                         *)
Other == CHOOSE said \in Few : said.meant = <<Member("b", <<"word">>)>>
Best == Whole_(Good, <<>>, FALSE, <<>>, "stop")
MCHeld(c) ==
    IF c.caching /\ c.family = "openai" /\ c.mode # "tool" /\ c.shape = "string" /\ c.retries = 1
    THEN {[request |-> json_request(c, Original(c)), answer |-> Other]} \cup
         {[request |-> json_request(c, Correction(c, Other, "invalid")), answer |-> next] : next \in {Other, Best}}
    ELSE {}
=============================================================================
