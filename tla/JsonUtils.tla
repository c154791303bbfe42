------------------------------- MODULE JsonUtils -------------------------------
(***************************************************************************)
(* json_utils.py and the property output_json of a response (types.py):    *)
(* which JSON value is read out of the text of an answer.                  *)
(*                                                                         *)
(* A text is a sequence of marks: the punctuation of JSON, "quote",        *)
(* "escape" (a backslash), "newline", "fence" (three backticks), "json",   *)
(* "digit", and any other mark, which is a word.  A value has a kind and   *)
(* items: the key and value of each member of an object, the elements of   *)
(* an array, each as the marks it is written with.                         *)
(***************************************************************************)
EXTENDS Integers, Sequences, SequencesExt, FiniteSetsExt

Nothing == [kind |-> "none", items |-> <<>>]                     \* None
IsContainer(v) == v.kind \in {"object", "array"}
OrElse(v, w) == IF v # Nothing THEN v ELSE w
Container(v) == IF IsContainer(v) THEN v ELSE Nothing

(* The first place from i on that is not white space; Len(t) + 1 if none.  *)
Skip(t, i) == Min({j \in i..Len(t) : t[j] # "newline"} \cup {Len(t) + 1})
Strip(t) ==
    LET marks == {j \in DOMAIN t : t[j] # "newline"}
    IN  IF marks = {} THEN <<>> ELSE SubSeq(t, Min(marks), Max(marks))
-----------------------------------------------------------------------------
(* The parsers, json.loads and pydantic_core.from_json, are one function   *)
(* here: what they find from place i on.  cut says that the text went on   *)
(* or ended where only a comma or a closing mark could stand: json.loads   *)
(* refuses that, from_json(allow_partial) keeps what came before.          *)
Found(kind, items, next, cut) == [kind |-> kind, items |-> items, next |-> next, cut |-> cut]
Refused == Found("none", <<>>, 0, FALSE)
Ended(t) == Found("none", <<>>, Len(t) + 1, TRUE)     \* no value before the end

RECURSIVE StringFrom(_, _, _)
StringFrom(t, from, i) ==
    IF i > Len(t) THEN Found("string", <<Append(SubSeq(t, from, Len(t)), "quote")>>, i, TRUE)
    ELSE CASE t[i] = "quote" -> Found("string", <<SubSeq(t, from, i)>>, i + 1, FALSE)
           [] t[i] = "newline" -> Refused
           [] t[i] = "escape" /\ i < Len(t) /\ t[i + 1] \notin {"quote", "escape"} -> Refused
           [] t[i] = "escape" /\ i = Len(t) -> Found("string", <<Append(SubSeq(t, from, i - 1), "quote")>>, i + 1, TRUE)
           [] OTHER -> StringFrom(t, from, IF t[i] = "escape" THEN i + 2 ELSE i + 1)

(* A member's key with its colon; nothing for an element of an array.      *)
Colon(t, key, colon) ==
    IF key.kind = "none" THEN Refused
    ELSE IF key.cut \/ colon > Len(t) THEN Ended(t)
    ELSE IF t[colon] # ":" THEN Refused
    ELSE Found("key", <<Append(key.items[1], ":")>>, colon + 1, FALSE)

Keyed(t, string) == Colon(t, string, Skip(t, string.next))
KeyAt(t, kind, i) ==
    IF kind = "array" THEN Found("key", <<<<>>>>, i, FALSE)
    ELSE IF i > Len(t) THEN Ended(t)
    ELSE IF t[i] # "quote" THEN Refused
    ELSE Keyed(t, StringFrom(t, i, i + 1))

Written(v) ==
    CASE v.kind = "object" -> <<"{">> \o FlattenSeq(v.items) \o <<"}">>
      [] v.kind = "array"  -> <<"[">> \o FlattenSeq(v.items) \o <<"]">>
      [] OTHER             -> v.items[1]

(* A value at i; the items of one, from i on, after those already read;    *)
(* what comes of an item whose key is read; of one whose value is, too.    *)
Closing(kind) == IF kind = "object" THEN "}" ELSE "]"

RECURSIVE ValueAt(_, _), ItemsAt(_, _, _, _), AfterKey(_, _, _, _), AfterValue(_, _, _, _, _)
ValueAt(t, i) ==
    IF i > Len(t) THEN Ended(t)
    ELSE CASE t[i] = "quote" -> StringFrom(t, i, i + 1)
           [] t[i] = "digit" -> Found("number", <<<<"digit">>>>, i + 1, FALSE)
           [] t[i] \in {"{", "["} ->
                  ItemsAt(t, IF t[i] = "{" THEN "object" ELSE "array", Skip(t, i + 1), <<>>)
           [] OTHER -> Refused

ItemsAt(t, kind, i, items) ==
    IF i <= Len(t) /\ t[i] = Closing(kind) /\ items = <<>> THEN Found(kind, items, i + 1, FALSE)
    ELSE AfterKey(t, kind, items, KeyAt(t, kind, i))

AfterKey(t, kind, items, key) ==
    IF key.kind = "none" THEN IF key.cut THEN Found(kind, items, key.next, TRUE) ELSE Refused
    ELSE AfterValue(t, kind, items, key, ValueAt(t, Skip(t, key.next)))

AfterValue(t, kind, items, key, value) ==
    LET longer == Append(items, key.items[1] \o Written(value))
        after == Skip(t, value.next)
    IN  IF value.kind = "none" THEN IF value.cut THEN Found(kind, items, value.next, TRUE) ELSE Refused
        ELSE IF after > Len(t) \/ t[after] \notin {",", Closing(kind)} THEN Found(kind, longer, after, TRUE)
        ELSE IF t[after] = Closing(kind) THEN Found(kind, longer, after + 1, value.cut)
        ELSE [ItemsAt(t, kind, Skip(t, after + 1), longer) EXCEPT !.cut = @ \/ value.cut]

Plain(found) == [kind |-> found.kind, items |-> found.items]

(* json.loads: the whole text is one value.                                *)
Whole(t, found) ==
    IF ~found.cut /\ found.kind # "none" /\ Skip(t, found.next) > Len(t) THEN Plain(found) ELSE Nothing
Loads(t) == Whole(t, ValueAt(t, Skip(t, 1)))

try_partial_json(t) == Container(Plain(ValueAt(t, Skip(t, 1))))
-----------------------------------------------------------------------------
Places(t, mark) == {i \in DOMAIN t : t[i] = mark}
First(t, mark) == Min(Places(t, mark) \cup {Len(t) + 1})

(* From the first opening mark to the last mark that closes its kind.      *)
Candidate(t) ==
    LET start == IF First(t, "{") <= First(t, "[") THEN First(t, "{") ELSE First(t, "[")
        close == IF start <= Len(t) /\ t[start] = "{" THEN "}" ELSE "]"
        last == Max(Places(t, close) \cup {0})
    IN  SubSeq(t, start, last)          \* empty when there is none

extract_by_brackets(t) == Loads(Candidate(t))

Structural == {",", "}", "]", ":"}
Closes(t, i) == LET j == Skip(t, i + 1) IN j > Len(t) \/ t[j] \in Structural

SlipQuotesDropped(t) ==      \* a slip: inline quotes are left out
    LET inline == {i \in Places(t, "quote") : i > 1 /\ t[i - 1] = "word" /\ ~Closes(t, i)}
    IN  [out |-> SelectSeq([i \in DOMAIN t |-> IF i \in inline THEN "newline" ELSE t[i]], LAMBDA m : m # "newline"),
         changed |-> inline # {}]

Repaired(t) ==
    LET step(s, i) ==
            IF s.escape THEN [s EXCEPT !.out = Append(@, t[i]), !.escape = FALSE]
            ELSE IF s.inside /\ t[i] = "escape" THEN [s EXCEPT !.out = Append(@, t[i]), !.escape = TRUE]
            ELSE IF s.inside /\ t[i] = "quote" /\ ~Closes(t, i)
                 THEN [s EXCEPT !.out = @ \o <<"escape", "quote">>, !.changed = TRUE]
            ELSE [s EXCEPT !.out = Append(@, t[i]),
                           !.inside = IF t[i] = "quote" THEN ~@ ELSE @]
    IN  FoldLeft(step, [out |-> <<>>, inside |-> FALSE, escape |-> FALSE, changed |-> FALSE],
                 [i \in DOMAIN t |-> i])

try_repair_inline_quotes(t) ==
    LET repair == Repaired(Candidate(t))
    IN  IF repair.changed THEN Container(Loads(repair.out)) ELSE Nothing

Lines(t) ==
    SelectSeq(FoldLeft(LAMBDA s, m : IF m = "newline" THEN Append(s, <<>>)
                                     ELSE [s EXCEPT ![Len(s)] = Append(@, m)], <<<<>>>>, t),
              LAMBDA l : l # <<>>)

try_jsonl(t) ==
    LET values == [i \in DOMAIN Lines(t) |-> Loads(Lines(t)[i])]
    IN  IF Len(values) < 2 \/ \E i \in DOMAIN values : values[i] = Nothing THEN Nothing
        ELSE [kind |-> "array", items |-> [i \in DOMAIN values |-> Written(values[i])]]

(* What stands between the first two fences, without its tag.              *)
Fenced(t) ==
    LET opens == First(t, "fence")
        closes == Min({i \in Places(t, "fence") : i > opens} \cup {Len(t) + 1})
        inner == SubSeq(t, opens + 1, closes - 1)
    IN  [found |-> closes <= Len(t),
         inner |-> Strip(IF inner # <<>> /\ inner[1] = "json" THEN Tail(inner) ELSE inner)]

extract_json(text, allow_partial) ==
    LET fenced == Fenced(text)
        partial(t) == IF allow_partial THEN try_partial_json(t) ELSE Nothing
        first == OrElse(Loads(fenced.inner), OrElse(try_repair_inline_quotes(fenced.inner), partial(fenced.inner)))
        t == Strip(text)
    IN  IF t = <<>> THEN Nothing
        ELSE OrElse(IF fenced.found THEN first ELSE Nothing,
             OrElse(Loads(t), OrElse(extract_by_brackets(t), OrElse(try_jsonl(t),
             OrElse(try_repair_inline_quotes(t), partial(t))))))
-----------------------------------------------------------------------------
Complete == {"end_turn", "stop", "stop_sequence", "tool_use", "tool_calls"}
truncation_plausible(stop_reason) == stop_reason \notin Complete

SlipAlwaysPartial(text, stop_reason) ==      \* a slip: the reason is not looked at
    Container(OrElse(Loads(text), extract_json(text, TRUE)))

output_json(text, stop_reason) ==
    Container(OrElse(Loads(text), extract_json(text, truncation_plausible(stop_reason))))
=============================================================================
