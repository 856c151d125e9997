------------------------------- MODULE Target -------------------------------
(***************************************************************************)
(* The request target: clean_path, query_params and urlencoding::decode    *)
(* (src/http/parser.rs).  A target is a sequence of characters; the path   *)
(* in front of the query is a single element.                              *)
(***************************************************************************)
EXTENDS Naturals, Sequences, SequencesExt

(* str::find; 0 stands for None.                                           *)
Find(s, c) == LET at == {i \in DOMAIN s : s[i] = c} IN IF at = {} THEN 0 ELSE Min(at)

After(s, i) == SubSeq(s, i + 1, Len(s))
Before(s, i) == SubSeq(s, 1, i - 1)

CleanPath(target) ==
    IF Find(target, "?") = 0 THEN target ELSE Before(target, Find(target, "?"))

-----------------------------------------------------------------------------
(* Characters with a meaning, and one without.                             *)
Code == [c \in {"space", "%", "&", "+", "=", "a"} |->
    CASE c = "space" -> 32 [] c = "%" -> 37 [] c = "&" -> 38 [] c = "+" -> 43 [] c = "=" -> 61
      [] c = "a" -> 97]

Hex == [d \in {"0", "1", "2", "3", "4", "5", "6", "7", "8", "9", "A", "a", "B", "b", "C", "c",
               "D", "d", "E", "e", "F", "f"} |->
    CASE d = "0" -> 0 [] d = "1" -> 1 [] d = "2" -> 2 [] d = "3" -> 3 [] d = "4" -> 4
      [] d = "5" -> 5 [] d = "6" -> 6 [] d = "7" -> 7 [] d = "8" -> 8 [] d = "9" -> 9
      [] d \in {"A", "a"} -> 10 [] d \in {"B", "b"} -> 11 [] d \in {"C", "c"} -> 12
      [] d \in {"D", "d"} -> 13 [] d \in {"E", "e"} -> 14 [] d \in {"F", "f"} -> 15]

(* u8::from_str_radix(&hex, 16), which takes a plus sign for a digit.      *)
IsByte(h, l) == h \in DOMAIN Hex \cup {"+"} /\ l \in DOMAIN Hex
Byte(h, l) == IF h = "+" THEN Hex[l] ELSE 16 * Hex[h] + Hex[l]

Char(n) == IF \E c \in DOMAIN Code : Code[c] = n
           THEN CHOOSE c \in DOMAIN Code : Code[c] = n ELSE "other"

(* urlencoding::decode, one character after the other: the result so far,  *)
(* the escape that is open, and whether one was no number.                 *)
Fresh == [result |-> <<>>, open |-> <<>>, err |-> FALSE]

Take(st, c) ==
    CASE st.err -> st
      [] ~st.err /\ Len(st.open) = 0 ->
           IF c = "%" THEN [st EXCEPT !.open = <<c>>]
           ELSE [st EXCEPT !.result = Append(@, IF c = "+" THEN "space" ELSE c)]
      [] ~st.err /\ Len(st.open) = 1 -> [st EXCEPT !.open = Append(@, c)]
      [] OTHER ->
           IF IsByte(st.open[2], c)
           THEN [st EXCEPT !.open = <<>>, !.result = Append(@, Char(Byte(st.open[2], c)))]
           ELSE [st EXCEPT !.err = TRUE]

(* unwrap_or_default: nothing if an escape is no number or is cut short.   *)
Decode(s) ==
    LET after[i \in 0..Len(s)] == IF i = 0 THEN Fresh ELSE Take(after[i - 1], s[i])
        end == after[Len(s)]
    IN  IF end.err \/ end.open # <<>> THEN <<>> ELSE end.result

(* The pieces of s.split('&'), each by the position it starts at.          *)
Starts(s) == {1} \cup {i + 1 : i \in {j \in DOMAIN s : s[j] = "&"}}
Piece(s, i) == LET rest == After(s, i - 1) IN
    IF Find(rest, "&") = 0 THEN rest ELSE Before(rest, Find(rest, "&"))

(* Pieces with a `=` become entries, in order, so that the last of a key   *)
(* stays.                                                                  *)
Params(query) ==
    LET pairs == {i \in Starts(query) : Find(Piece(query, i), "=") # 0}
        key[i \in pairs] == Decode(Before(Piece(query, i), Find(Piece(query, i), "=")))
        val[i \in pairs] == Decode(After(Piece(query, i), Find(Piece(query, i), "=")))
    IN  [k \in {key[i] : i \in pairs} |-> val[Max({i \in pairs : key[i] = k})]]

QueryParams_DecodesFirst(target) ==     \* mutant: decodes the query before it is split
    IF Find(target, "?") = 0 THEN <<>> ELSE Params(Decode(After(target, Find(target, "?"))))

QueryParams(target) ==
    IF Find(target, "?") = 0 THEN <<>> ELSE Params(After(target, Find(target, "?")))

-----------------------------------------------------------------------------
(* The client's side: a form is a sequence of pairs <<key, value>>.        *)

Digit(n) == CHOOSE d \in DOMAIN Hex : Hex[d] = n

Escape(c) ==
    CASE c = "a" -> <<c>>
      [] c = "space" -> <<"+">>
      [] OTHER -> <<"%", Digit(Code[c] \div 16), Digit(Code[c] % 16)>>

Encode(s) == FlattenSeq([i \in DOMAIN s |-> Escape(s[i])])

Pair(i, pair) ==
    (IF i = 1 THEN <<>> ELSE <<"&">>) \o (Encode(pair[1]) \o <<"=">> \o Encode(pair[2]))

Query(form) == FlattenSeq([i \in DOMAIN form |-> Pair(i, form[i])])

(* The request target; the query is left out if it is empty, unless        *)
(* nothing else is there.                                                  *)
Sent(path, form) ==
    (IF path = "" THEN <<>> ELSE <<path>>)
        \o (IF form = <<>> /\ path # "" THEN <<>> ELSE <<"?">>) \o Query(form)

(* What the form says: the last value of each key.                         *)
Meaning(form) ==
    [k \in {form[i][1] : i \in DOMAIN form} |->
        form[Max({i \in DOMAIN form : form[i][1] = k})][2]]
=============================================================================
