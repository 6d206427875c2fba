------------------------------ MODULE JsonText ------------------------------
(***************************************************************************)
(* The printer and the parser of cJSON.c, with the file between them: a    *)
(* tree is printed into a buffer that grows or may not, the text is stored *)
(* (a crash can leave any number of its bytes) and read into a buffer of   *)
(* FileMax bytes, and what was read is parsed with a bounded memory.       *)
(*                                                                         *)
(* A text is a sequence of tokens; w is the number of bytes of a token, so *)
(* that sizes and offsets of buffers are counted in bytes.  Abstracted:    *)
(* the spelling of numbers and strings, escapes, the byte order mark,      *)
(* comments.  Every text ends with its NUL, a blank for the parser.        *)
(***************************************************************************)
EXTENDS Integers, SequencesExt

CONSTANTS Trees,          \* trees to print
          Sizes,          \* sizes of buffers given to the printer
          DefaultSize,    \* default_buffer_size
          IntMax,         \* INT_MAX, scaled
          NestingLimit,   \* CJSON_NESTING_LIMIT, scaled
          MaxAllocs,      \* bound on the number of allocations that succeed
          FileMax         \* size of the buffer a file is read into

ASSUME TextAssumption ==
    /\ Sizes \subseteq Nat
    /\ {DefaultSize, IntMax, NestingLimit, MaxAllocs, FileMax} \subseteq Nat

VARIABLES stage,   \* "idle", "printed", "stored", "parsed"
          tree,    \* the tree that was printed
          buffer,  \* the printbuffer at the end of the print
          saved,   \* the file; whole: nothing is missing; tail: something follows
          parsed   \* what the parser left: its state and the item

textVars == <<stage, tree, buffer, saved, parsed>>

-----------------------------------------------------------------------------
(* Trees and texts                                                         *)

Mark(s)  == [kind |-> "mark", s |-> s, w |-> 1]
Blank(n) == [kind |-> "blank", s |-> " ", w |-> n]
Quoted(s, w) == [kind |-> "string", s |-> s, w |-> w]
Literal(s, w) == [kind |-> "literal", s |-> s, w |-> w]

NoName == Mark("no key")

Tree(kind, kids) == [kind |-> kind, key |-> NoName, value |-> NoName, kids |-> kids]
Leaf(token) == [kind |-> token.kind, key |-> NoName, value |-> token, kids |-> <<>>]
Member(key, t) == [t EXCEPT !.key = key]

Bytes(text) ==
    LET upto[i \in 0 .. Len(text)] == IF i = 0 THEN 0 ELSE upto[i-1] + text[i].w
    IN  upto[Len(text)]

\* The first bytes of a text: tokens inside them, then a part of the next one;
\* a part of a number may be a number, a part of a string is not a string.
Cut(text, bytes) ==
    LET n == CHOOSE i \in 0 .. Len(text) :
                 /\ Bytes(SubSeq(text, 1, i)) <= bytes
                 /\ i = Len(text) \/ Bytes(SubSeq(text, 1, i + 1)) > bytes
        rest == bytes - Bytes(SubSeq(text, 1, n))
        part == [text[n+1] EXCEPT !.w = rest, !.kind = IF @ = "string" THEN "cut" ELSE @]
    IN  SubSeq(text, 1, n) \o IF rest = 0 THEN <<>> ELSE <<part>>

-----------------------------------------------------------------------------
(* The printer.  ok: no call has failed; over: a write went past the end.  *)

Buffer(length, noalloc, memory, format) ==
    [ok |-> TRUE, over |-> FALSE, text |-> <<>>, offset |-> 0, length |-> length,
     depth |-> 0, noalloc |-> noalloc, memory |-> memory, format |-> format]

\* Fault: the byte of the terminating NUL is not asked for.
ensure_no_nul(b, needed) ==
    LET total == needed + b.offset
        Grown(size) == IF b.memory THEN [b EXCEPT !.length = size] ELSE [b EXCEPT !.ok = FALSE]
    IN  IF total <= b.length THEN b
        ELSE IF b.noalloc THEN [b EXCEPT !.ok = FALSE]
        ELSE Grown(total)

ensure(b, needed) ==
    LET total == needed + b.offset + 1
        Grown(size) == IF b.memory THEN [b EXCEPT !.length = size] ELSE [b EXCEPT !.ok = FALSE]
    IN  CASE \/ b.length > 0 /\ b.offset >= b.length
             \/ needed > IntMax                     -> [b EXCEPT !.ok = FALSE]
          [] total <= b.length                      -> b
          [] b.noalloc \/ total > IntMax            -> [b EXCEPT !.ok = FALSE]
          [] total > IntMax \div 2                  -> Grown(IntMax)
          [] OTHER                                  -> Grown(2 * total)

\* One piece of text: ensure, write, move the offset past it.  nul: the piece
\* is written with a NUL behind it.
put(b, needed, text, nul) ==
    LET c == ensure(b, needed)
        end == c.offset + Bytes(text)
    IN  IF ~b.ok \/ ~c.ok THEN [b EXCEPT !.ok = FALSE]
        ELSE [c EXCEPT !.text = @ \o text, !.offset = end,
                       !.over = @ \/ end + nul > c.length]

RECURSIVE print_value(_, _)

\* b after the elements of t from the i-th on.
RECURSIVE elements_text(_, _, _)
elements_text(t, i, b) ==
    LET comma == <<Mark(",")>> \o (IF b.format THEN <<Blank(1)>> ELSE <<>>)
        c == print_value(t.kids[i], b)
    IN  IF ~b.ok \/ i > Len(t.kids) THEN b
        ELSE elements_text(t, i + 1,
                 IF i = Len(t.kids) THEN c ELSE put(c, Bytes(comma) + 1, comma, 1))

print_array(t, b) ==
    LET open == [put(b, 1, <<Mark("[")>>, 0) EXCEPT !.depth = @ + 1]
    IN  [put(elements_text(t, 1, open), 2, <<Mark("]")>>, 1) EXCEPT !.depth = @ - 1]

Pretty(b, n) == IF b.format THEN <<Blank(n)>> ELSE <<>>

RECURSIVE members_text(_, _, _)
members_text(t, i, b) ==
    LET kid == t.kids[i]
        colon == <<Mark(":")>> \o Pretty(b, 1)
        end == (IF i = Len(t.kids) THEN <<>> ELSE <<Mark(",")>>) \o Pretty(b, 1)
        c1 == IF b.format THEN put(b, b.depth, <<Blank(b.depth)>>, 0) ELSE b
        c2 == put(c1, kid.key.w + 1, <<kid.key>>, 1)
        c3 == print_value(kid, put(c2, Bytes(colon), colon, 0))
    IN  IF ~b.ok \/ i > Len(t.kids) THEN b
        ELSE members_text(t, i + 1, put(c3, Bytes(end) + 1, end, 1))

print_object(t, b) ==
    LET open  == <<Mark("{")>> \o Pretty(b, 1)
        close == (IF b.depth = 0 THEN <<>> ELSE Pretty(b, b.depth)) \o <<Mark("}")>>
        b1 == [put(b, Bytes(open) + 1, open, 0) EXCEPT !.depth = @ + 1]
    IN  [put(members_text(t, 1, b1), IF b.format THEN b1.depth + 1 ELSE 2, close, 1)
         EXCEPT !.depth = @ - 1]

print_value(t, b) ==
    CASE t.kind = "array"  -> print_array(t, b)
      [] t.kind = "object" -> print_object(t, b)
      [] OTHER             -> put(b, t.value.w + 1, <<t.value>>, 1)

\* The last step is a realloc to the size of the text.
print(t, format, memory) ==
    LET b == print_value(t, Buffer(DefaultSize, FALSE, memory, format))
    IN  [b EXCEPT !.ok = @ /\ memory]

-----------------------------------------------------------------------------
(* The parser.  at: the next token; live: allocations not yet freed;       *)
(* budget: how many more will succeed.                                     *)

\* The allocations of an item, its name and everything below it.
RECURSIVE Cost(_)
Cost(t) == 1 + (IF t.kind = "string" THEN 1 ELSE 0) + (IF t.key # NoName THEN 1 ELSE 0)
             + FoldSeq(LAMBDA kid, sum : Cost(kid) + sum, 0, t.kids)

Bare == [kind |-> "invalid", key |-> NoName, value |-> NoName, kids |-> <<>>]

Alloc(p) ==
    IF p.budget = 0 THEN [p EXCEPT !.ok = FALSE]
    ELSE [p EXCEPT !.budget = @ - 1, !.live = @ + 1]

\* Fault: blanks are not skipped.
buffer_skip_whitespace_none(text, p) == p

buffer_skip_whitespace(text, p) ==
    LET i == SelectInSubSeq(text, p.at, Len(text), LAMBDA tok : tok.kind # "blank")
    IN  [p EXCEPT !.at = IF i = 0 THEN Len(text) ELSE i]

\* The token that is read next, blanks skipped.
Peek(text, p) == text[buffer_skip_whitespace(text, p).at]
Step(text, p) == [buffer_skip_whitespace(text, p) EXCEPT !.at = @ + 1]

\* Fault: the items read before the failure are not deleted.
Fail_leaks(p, list) == [p EXCEPT !.ok = FALSE]

\* The failing path: the list that was read is deleted.
Fail(p, list) == [p EXCEPT !.ok = FALSE,
                           !.live = @ - FoldSeq(LAMBDA t, sum : Cost(t) + sum, 0, list)]

\* Fault: whatever follows the last element is taken for the end.
Closes_any(tok, close) == TRUE

Closes(tok, close) == tok = Mark(close)

Failed(p, list) == [p |-> Fail(p, list), kids |-> <<>>]

RECURSIVE parse_value(_, _)
RECURSIVE elements(_, _, _, _)

\* After an element: a comma is followed by one more, anything else must be the
\* closing mark.
after_element(text, p, close, list) ==
    IF Peek(text, p) = Mark(",") THEN elements(text, Alloc(Step(text, p)), close, list)
    ELSE IF Closes(Peek(text, p), close) THEN [p |-> Step(text, p), kids |-> list]
    ELSE Failed(p, list)

\* r is what parse_value made of the element.
element(text, r, close, head, key) ==
    IF ~r.p.ok THEN Failed(r.p, Append(head, Member(key, Bare)))
    ELSE after_element(text, r.p, close, Append(head, Member(key, r.item)))

\* The name of a member has been read, as key.
member(text, p, close, head, key) ==
    IF ~p.ok THEN Failed(p, Append(head, Bare))
    ELSE IF Peek(text, p) # Mark(":") THEN Failed(p, Append(head, Member(key, Bare)))
    ELSE element(text, parse_value(text, Step(text, p)), close, head, key)

\* Elements of a container from p on, where the next item has been allocated;
\* head are those read before it.
elements(text, p, close, head) ==
    IF ~p.ok THEN Failed(p, head)
    ELSE IF close = "]" THEN element(text, parse_value(text, p), close, head, NoName)
    ELSE IF Peek(text, p).kind # "string" THEN Failed(p, Append(head, Bare))
    ELSE member(text, Alloc(Step(text, p)), close, head, Peek(text, p))

Closed(r, kind) == [p |-> [r.p EXCEPT !.depth = @ - 1],
                    item |-> IF r.p.ok THEN Tree(kind, r.kids) ELSE Bare]

\* p is behind the opening mark.
parse_container(text, p, close, kind) ==
    IF p.depth > NestingLimit THEN [p |-> Fail(p, <<>>), item |-> Bare]
    ELSE Closed(IF Peek(text, p) = Mark(close) THEN [p |-> Step(text, p), kids |-> <<>>]
                ELSE elements(text, Alloc(p), close, <<>>), kind)

Opened(text, p) == [Step(text, p) EXCEPT !.depth = @ + 1]
parse_array(text, p)  == parse_container(text, Opened(text, p), "]", "array")
parse_object(text, p) == parse_container(text, Opened(text, p), "}", "object")

parse_string(tok, p) == [p |-> p, item |-> IF p.ok THEN Leaf(tok) ELSE Bare]

parse_value(text, p) ==
    CASE Peek(text, p).kind = "literal" -> [p |-> Step(text, p), item |-> Leaf(Peek(text, p))]
      [] Peek(text, p).kind = "string"  -> parse_string(Peek(text, p), Alloc(Step(text, p)))
      [] Peek(text, p) = Mark("[") -> parse_array(text, p)
      [] Peek(text, p) = Mark("{") -> parse_object(text, p)
      [] OTHER -> [p |-> Fail(p, <<>>), item |-> Bare]

\* The end of a parse that gave r for the value.
Ended(text, r, require) ==
    IF ~r.p.ok THEN [p |-> Fail(r.p, <<Bare>>), item |-> Bare]
    ELSE IF require /\ Peek(text, r.p).kind # "blank"
    THEN [p |-> Fail(r.p, <<r.item>>), item |-> Bare]
    ELSE r

\* require: require_null_terminated; cJSON_Parse does not ask for it.
cJSON_ParseWithOpts(text, budget, require) ==
    LET p == Alloc([at |-> 1, depth |-> 0, ok |-> TRUE, live |-> 0, budget |-> budget])
    IN  IF p.ok THEN Ended(text, parse_value(text, p), require) ELSE [p |-> p, item |-> Bare]

-----------------------------------------------------------------------------

member_named(t, key) ==
    LET i == SelectInSeq(t.kids, LAMBDA kid : kid.key = key)
    IN  IF i = 0 THEN <<>> ELSE <<t.kids[i]>>

\* Fault: only the members of the first object are looked up.
cJSON_Compare_subset(a, b) ==
    /\ a.kind = b.kind
    /\ a.value = b.value
    /\ \A i \in DOMAIN a.kids :
           LET found == member_named(b, a.kids[i].key) IN
           found # <<>> /\ a.kids[i].value = found[1].value

\* Equal numbers are equal tokens: compare_double tolerates a relative 2^-52,
\* less than the difference of any two ints.  Names are compared as with
\* case_sensitive.
RECURSIVE cJSON_Compare(_, _)
cJSON_Compare(a, b) ==
    /\ a.kind = b.kind
    /\ CASE a.kind = "array" -> /\ Len(a.kids) = Len(b.kids)
                                /\ \A i \in DOMAIN a.kids : cJSON_Compare(a.kids[i], b.kids[i])
         [] a.kind = "object" ->
               LET Within(x, y) ==
                       \A i \in DOMAIN x.kids :
                           LET found == member_named(y, x.kids[i].key) IN
                           found # <<>> /\ cJSON_Compare(x.kids[i], found[1])
               IN  Within(a, b) /\ Within(b, a)
         [] OTHER -> a.value = b.value

-----------------------------------------------------------------------------
(* The trees this program prints                                           *)

Object(members) == Tree("object", [i \in DOMAIN members |->
                       Member(members[i][1], members[i][2])])

\* The configuration main writes when it cannot read one.
DefaultConfig ==
    LET device == Object(<< <<Quoted("bias", 6), Leaf(Quoted("low", 5))>>,
                            <<Quoted("enable", 8), Leaf(Quoted("high", 6))>> >>)
        channels == << Quoted("ignition", 10), Quoted("binlift", 9), Quoted("reverse", 9),
                       Quoted("waterjet", 10), Quoted("sweeper", 9),
                       Quoted("reserve1", 10), Quoted("reserve2", 10) >>
    IN  Object([i \in DOMAIN channels |-> <<channels[i], device>>])

\* The message of a bin lift: serial number of 15, bin count of 10 characters.
assemble_binlift_message ==
    Object(<< <<Quoted("refid", 7), Leaf(Literal("count", 10))>>,
              <<Quoted("id", 4), Leaf(Quoted("esn", 24))>>,
              <<Quoted("messagetype", 13), Leaf(Quoted("BINLIFT", 9))>>,
              <<Quoted("lift", 6),
                Object(<< <<Quoted("liftid", 8), Leaf(Literal("count", 10))>>,
                          <<Quoted("tags", 6), Tree("array", <<>>)>> >>)>> >>)

-----------------------------------------------------------------------------

NotSaved == [text |-> <<>>, whole |-> FALSE, tail |-> FALSE]
NoParse == [p |-> [at |-> 0, depth |-> 0, ok |-> FALSE, live |-> 0, budget |-> 0], item |-> Bare,
            strict |-> FALSE, budget |-> 0]

TextInit ==
    /\ stage = "idle"
    /\ tree = Bare
    /\ buffer = Buffer(0, FALSE, TRUE, FALSE)
    /\ saved = NotSaved
    /\ parsed = NoParse

Printed(t, b) ==
    /\ stage = "idle"
    /\ tree' = t
    /\ buffer' = b
    /\ stage' = "printed"
    /\ UNCHANGED <<saved, parsed>>

\* cJSON_Print and cJSON_PrintUnformatted
PrintAlloc(t, format, memory) == Printed(t, print(t, format, memory))

PrintBuffered(t, prebuffer, format, memory) ==
    Printed(t, print_value(t, Buffer(prebuffer, FALSE, memory, format)))

PrintPreallocated(t, length, format) ==
    Printed(t, print_value(t, Buffer(length, TRUE, TRUE, format)))

\* What a cJSON_Print left is stored, or a part of it, or with something behind.
Store(bytes, tail) ==
    /\ stage = "printed" /\ buffer.ok /\ buffer = print(tree, buffer.format, TRUE)
    /\ tail => bytes = buffer.offset
    /\ saved' = [text  |-> Cut(buffer.text, bytes)
                            \o (IF tail THEN <<Mark("}")>> ELSE <<>>) \o <<Blank(1)>>,
                whole |-> bytes = buffer.offset,
                tail  |-> tail]
    /\ stage' = "stored"
    /\ UNCHANGED <<tree, buffer, parsed>>

\* Reading fails when the file would fill the buffer (main.c:304).  Memory runs
\* out in the parse of a whole text only, which bounds the runs.
Parse(strict, budget) ==
    /\ stage = "stored"
    /\ saved.whole \/ budget = MaxAllocs
    /\ LET r == IF Bytes(saved.text) - 1 >= FileMax
                THEN [p |-> NoParse.p, item |-> Bare]
                ELSE cJSON_ParseWithOpts(saved.text, budget, strict)
       IN  parsed' = [p |-> r.p, item |-> r.item, strict |-> strict, budget |-> budget]
    /\ stage' = "parsed"
    /\ UNCHANGED <<tree, buffer, saved>>

TextNext ==
    \/ \E t \in Trees, format, memory \in BOOLEAN :
          \/ PrintAlloc(t, format, memory)
          \/ \E size \in Sizes : PrintBuffered(t, size, format, memory)
    \/ \E t \in Trees, format \in BOOLEAN, size \in Sizes : PrintPreallocated(t, size, format)
    \/ \E bytes \in 0 .. buffer.offset, tail \in BOOLEAN : Store(bytes, tail)
    \/ \E strict \in BOOLEAN, budget \in 0 .. MaxAllocs : Parse(strict, budget)

-----------------------------------------------------------------------------
(* Properties                                                              *)

\* No write goes past the end of the buffer, and a print fails only if it
\* must: if the text, its NUL and one byte more are not to be had.  So "5 bytes
\* more than you actually need" (cJSON.h:168) are enough for
\* cJSON_PrintPreallocated, and the growing buffer gives up at INT_MAX only.
PrintIsExact ==
    stage # "idle" =>
        LET need == Bytes(print_value(tree, Buffer(2 * IntMax, TRUE, TRUE, buffer.format)).text)
        IN  /\ ~buffer.over
            /\ buffer.ok => buffer.offset = need /\ need + 2 <= buffer.length
            /\ (~buffer.ok /\ buffer.noalloc) => need + 2 > buffer.length
            /\ (~buffer.ok /\ buffer.memory /\ ~buffer.noalloc) => need + 2 > IntMax

\* The containers around the innermost value.
RECURSIVE Depth(_)
Depth(t) == IF t.kind \notin {"object", "array"} THEN 0
            ELSE 1 + FoldSeq(LAMBDA kid, d : IF Depth(kid) > d THEN Depth(kid) ELSE d, 0, t.kids)

\* A tree that is not nested too deeply is the same tree after it has been
\* printed, stored, read and parsed, in either format and with enough memory;
\* with something behind the text cJSON_Parse takes it too, the strict parse
\* does not.  What the program prints is always read: its text fits FileMax.
RoundTrip ==
    (stage = "parsed" /\ saved.whole /\ parsed.budget >= Cost(tree)) =>
        /\ tree \in {DefaultConfig, assemble_binlift_message} => Bytes(saved.text) <= FileMax
        /\ parsed.p.ok <=> /\ Bytes(saved.text) <= FileMax
                           /\ Depth(tree) <= NestingLimit
                           /\ ~(parsed.strict /\ saved.tail)
        /\ parsed.p.ok => parsed.item = tree

\* A file of which the end was lost is never taken for a configuration: no
\* part of the text of an object or array parses.
PartNeverParses ==
    (stage = "parsed" /\ ~saved.whole /\ tree.kind \in {"object", "array"}) => ~parsed.p.ok

\* A parse that fails, on a bad text or for want of memory at any point, has
\* freed all it allocated; one that succeeds holds its tree and nothing else.
ParseLeaksNothing ==
    stage = "parsed" => parsed.p.live = IF parsed.p.ok THEN Cost(parsed.item) ELSE 0

\* What a tree says, whatever the order of the members of its objects.
RECURSIVE Meaning(_)
Meaning(t) == <<t.kind, t.value,
                IF t.kind = "array" THEN [i \in DOMAIN t.kids |-> Meaning(t.kids[i])] ELSE <<>>,
                IF t.kind = "object" THEN {<<kid.key, Meaning(kid)>> : kid \in ToSet(t.kids)} ELSE {}>>

RECURSIVE NamesUnique(_)
NamesUnique(t) ==
    /\ t.kind = "object" => \A i, j \in DOMAIN t.kids : t.kids[i].key = t.kids[j].key => i = j
    /\ \A i \in DOMAIN t.kids : NamesUnique(t.kids[i])

\* cJSON_Compare looks members up by name, both ways: on trees without
\* duplicate names it tells exactly those apart that say something different.
CompareIsEquality ==
    (stage = "parsed" /\ parsed.p.ok) =>
        \A t \in Trees : (NamesUnique(t) /\ NamesUnique(parsed.item)) =>
            (cJSON_Compare(parsed.item, t) <=> Meaning(parsed.item) = Meaning(t))

=============================================================================
