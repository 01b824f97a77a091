--------------------------- MODULE MCSeedContent ---------------------------
(* An instance of SeedContent for TLC. *)
EXTENDS SeedContent, TLC

CONSTANTS ja, en, p1, p2

Item(id, l, rank, tags) ==
    [id |-> id, lemma |-> <<"lemma of", id>>, rank |-> rank, tags |-> tags,
     reading |-> IF l = ja THEN "kana" ELSE None, sound |-> TRUE]

Use(item, l, area) ==
    [item |-> item, tappable |-> TRUE, fits |-> TRUE, area |-> area,
     explained |-> TRUE, reading |-> IF l = ja THEN "kana" ELSE None]

Sentence(id, text, uses) ==
    [id |-> id, text |-> text, length |-> 4, sound |-> TRUE, uses |-> uses]

a == Item("a", ja, None, {})
b == Item("b", ja, 1, {})
c == Item("c", ja, 2, {})
x == Item("x", en, 1, {"idiom"})

sa == Sentence("sa", "A", <<Use("a", ja, {1})>>)
sb == Sentence("sb", "B", <<Use("b", ja, {1}), Use("a", ja, {2})>>)
\* A new sentence about an old item and a new one.
sc == Sentence("sc", "C", <<Use("c", ja, {1}), Use("a", ja, {2})>>)
\* Its spans overlap.
sb2 == Sentence("sb", "B", <<Use("b", ja, {1, 2}), Use("a", ja, {2})>>)
sx == Sentence("sx", "A", <<Use("x", en, {1})>>)

First == [items |-> <<a, b>>, sentences |-> <<sa, sb>>]
Old == {First}

\* The first directory; with a new item in front; with its items exchanged, and
\* a sentence that could not be drawn. One in English.
Files ==
    [l \in {ja, en} |->
        IF l = ja
        THEN {First,
              [items |-> <<c, a, b>>, sentences |-> <<sc, sa, sb>>],
              [items |-> <<b, a>>, sentences |-> <<sa, sb2>>]}
        ELSE {[items |-> <<x>>, sentences |-> <<sx>>]}]

\* "C " is another way to write "C".
Folded == [l \in {ja, en} |->
    [t \in {"A", "B", "C", "C "} |-> IF t = "C " THEN "C" ELSE t]]

Tags == {"idiom"}
Lengths == [l \in {ja, en} |-> 4]
Never == {{}}
Stored == [l \in {ja, en} |-> IF l = ja THEN {"C "} ELSE {}]

\* The files of the instance have one history.
ASSUME HistoryAssumption == OneHistory
=============================================================================
