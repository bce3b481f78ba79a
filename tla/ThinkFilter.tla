---------------------------- MODULE ThinkFilter ----------------------------
(***************************************************************************)
(* ThinkBlockStreamFilter of backend/app/modules/ai/service.py: the state  *)
(* machine that removes reasoning blocks from an answer that arrives in    *)
(* chunks cut anywhere, and _strip_think_blocks, the regular expression    *)
(* that the non-streaming path applies to the whole answer.                *)
(*                                                                         *)
(* Text is a sequence of symbols.  "t" and "k" are two halves of the word  *)
(* think and "i" and "g" two halves of ing, so that a chunk can end inside *)
(* a word; " " is any white space, "x" any other character.  Case folding  *)
(* is left out: each symbol stands for both cases.                         *)
(***************************************************************************)
EXTENDS Naturals, Sequences, FiniteSetsExt

CONSTANTS Chunks,     \* the chunks a model may send, non-empty sequences of symbols
          MaxChunks   \* bound: chunks of one answer

VARIABLES
    text,     \* ghost: what the model has sent so far
    sent,     \* ghost: how many chunks that was
    buffer,   \* _buffer: the piece held back
    inside,   \* _inside: within a block
    out,      \* what feed and flush have returned so far
    done      \* flush has run

vars == <<text, sent, buffer, inside, out, done>>

Symbols == {"<", ">", "/", "t", "k", "i", "g", " ", "x"}
Texts == Seq(Symbols)

\* What the constants are assumed to be.
ChunksAssumption ==
    /\ MaxChunks \in Nat
    /\ Chunks \subseteq Texts \ {<<>>}

TypeOK ==
    /\ text \in Texts /\ buffer \in Texts /\ out \in Texts
    /\ sent \in 0..MaxChunks
    /\ inside \in BOOLEAN /\ done \in BOOLEAN

\* The suffix of s that starts at position i.
From(s, i) == SubSeq(s, i, Len(s))

----------------------------------------------------------------------------
(* One tag.  "_" in a pattern is \s*, any number of white spaces.          *)

TagPatterns(close) ==
    LET slash == IF close THEN <<"/", "_">> ELSE <<>>
    IN  {<<"<", "_">> \o slash \o <<"t", "k">> \o ing \o <<"_", ">">> :
            ing \in {<<>>, <<"i", "g">>}}

\* Read s along pattern p: whether all of p was read, what is left of s then,
\* and whether s ended before p could be refused.
ReadTag(s, p) ==
    LET read[a \in Texts, b \in Seq(Symbols \cup {"_"})] ==
            IF b = <<>> THEN [full |-> TRUE, partial |-> FALSE, rest |-> a]
            ELSE IF a = <<>> THEN [full |-> FALSE, partial |-> TRUE, rest |-> a]
            ELSE IF Head(b) = "_" /\ Head(a) = " " THEN read[Tail(a), b]
            ELSE IF Head(b) = "_" THEN read[a, Tail(b)]
            ELSE IF Head(a) = Head(b) THEN read[Tail(a), Tail(b)]
            ELSE [full |-> FALSE, partial |-> FALSE, rest |-> a]
    IN  read[s, p]

\* The set has at most one element that is full: the two words differ where
\* the shorter one ends.
_think_tag_scan(s, close) ==
    LET reads == {ReadTag(s, p) : p \in TagPatterns(close)}
    IN  [full |-> \E r \in reads : r.full,
         partial |-> \E r \in reads : r.partial,
         rest |-> IF \E r \in reads : r.full
                  THEN (CHOOSE r \in reads : r.full).rest ELSE s]

\* Positions of s where a whole tag starts.
TagsIn(s, close) == {i \in 1..Len(s) : _think_tag_scan(From(s, i), close).full}

----------------------------------------------------------------------------
(* The regular expression of the non-streaming path: the first opening tag *)
(* and the nearest closing tag after it, removed, then on from there.      *)

_strip_think_blocks(s) ==
    LET strip[a \in Texts] ==
            LET first == Min(TagsIn(a, FALSE))
                body == _think_tag_scan(From(a, first), FALSE).rest
                close == Min(TagsIn(body, TRUE))
            IN  IF TagsIn(a, FALSE) = {} THEN a
                ELSE IF TagsIn(body, TRUE) = {} THEN a
                ELSE SubSeq(a, 1, first - 1) \o
                     strip[_think_tag_scan(From(body, close), TRUE).rest]
    IN  strip[s]

----------------------------------------------------------------------------
(* The filter.                                                             *)

\* The loop of feed as a function of its locals: b is _buffer, in is _inside,
\* o is what has been collected.  A symbol that starts no tag is collected
\* (outside) or dropped (inside); a possible start of a tag is held.
Locals == [b : Texts, in : BOOLEAN, o : Texts]

\* Mutant: an unfinished tag is shown.
Scan_neverHolds(f) ==
    LET loop[g \in Locals] ==
            LET scan == _think_tag_scan(g.b, g.in)
            IN  IF g.b = <<>> THEN g
                ELSE IF Head(g.b) = "<" /\ scan.full
                     THEN loop[[g EXCEPT !.b = scan.rest, !.in = ~g.in]]
                ELSE loop[[g EXCEPT !.b = Tail(g.b),
                                    !.o = IF g.in THEN @ ELSE Append(@, Head(g.b))]]
    IN  loop[f]

Scan(f) ==
    LET loop[g \in Locals] ==
            LET scan == _think_tag_scan(g.b, g.in)
            IN  IF g.b = <<>> THEN g
                ELSE IF Head(g.b) = "<" /\ scan.full
                     THEN loop[[g EXCEPT !.b = scan.rest, !.in = ~g.in]]
                ELSE IF Head(g.b) = "<" /\ scan.partial THEN g
                ELSE loop[[g EXCEPT !.b = Tail(g.b),
                                    !.o = IF g.in THEN @ ELSE Append(@, Head(g.b))]]
    IN  loop[f]

feed(chunk) ==
    LET f == Scan([b |-> buffer \o chunk, in |-> inside, o |-> <<>>])
    IN  /\ ~done /\ sent < MaxChunks
        /\ text' = text \o chunk
        /\ sent' = sent + 1
        /\ buffer' = f.b /\ inside' = f.in /\ out' = out \o f.o
        /\ UNCHANGED done

\* The stream has ended: what is held is returned unless it is inside a block.
flush ==
    /\ ~done
    /\ out' = IF inside THEN out ELSE out \o buffer
    /\ buffer' = <<>> /\ done' = TRUE
    /\ UNCHANGED <<text, sent, inside>>

Init ==
    /\ text = <<>> /\ sent = 0
    /\ buffer = <<>> /\ inside = FALSE /\ out = <<>> /\ done = FALSE

Next == (\E chunk \in Chunks : feed(chunk)) \/ flush

Spec == Init /\ [][Next]_vars

----------------------------------------------------------------------------
(* Properties.                                                             *)

\* What may be shown of s: every block removed, and everything after an
\* opening tag that is never closed.
Visible(s) ==
    LET visible[a \in Texts] ==
            LET first == Min(TagsIn(a, FALSE))
                body == _think_tag_scan(From(a, first), FALSE).rest
                close == Min(TagsIn(body, TRUE))
            IN  IF TagsIn(a, FALSE) = {} THEN a
                ELSE SubSeq(a, 1, first - 1) \o
                     (IF TagsIn(body, TRUE) = {} THEN <<>>
                      ELSE visible[_think_tag_scan(From(body, close), TRUE).rest])
    IN  visible[s]

\* However the answer is cut into chunks, what the filter has returned so far,
\* with what it holds outside a block, is exactly what may be shown of the text
\* received: no tag split over chunks leaks, and nothing else is lost or held.
FilterExact == out \o (IF inside THEN <<>> ELSE buffer) = Visible(text)

\* An answer whose blocks are all closed is streamed as the non-streaming path
\* would return it: feed and flush agree with the regular expression.
StreamAgrees == done /\ ~inside => out = _strip_think_blocks(text)
=============================================================================
