---------------------------- MODULE SeedContent ----------------------------
(***************************************************************************)
(* The content an operator brings: learning items and their sentences, from*)
(* the files under seed/ into the database of a service that runs.         *)
(*                                                                         *)
(*   backend/app/services/seed_loader.py, scripts/load_seed.py   the load  *)
(*   scripts/backfill_seed_id.py   ids for rows loaded before there were   *)
(*                                 ids (migration 0005)                    *)
(*   scripts/backfill_ruby.py      furigana for sentences without          *)
(*                                                                         *)
(* A script is one process; several may overlap, and the worker stores     *)
(* sentences meanwhile. Under READ COMMITTED every SELECT sees what is     *)
(* committed when it runs, so each is a step. The writes of a transaction  *)
(* appear at its commit, which is where the unique indexes are decided: an *)
(* INSERT waits for the transaction that has inserted the same key.        *)
(***************************************************************************)
EXTENDS Naturals, Sequences, FiniteSets, Lists

CONSTANTS
    Japanese, English,
    Directories,     \* Directories[l]: what seed/<l> has been, at one time
    Normal,          \* normalized_sentence_text, for each language
    EnTopicTags,     \* EN_TOPIC_TAGS
    MaxLength,       \* content.max_sentence_length_chars, for each language
    MaxNewItems,     \* learning.max_new_items_per_sentence
    Scripts,         \* processes of the operator
    None,            \* NULL
    Legacy,          \* directories that may have been loaded before 0005
    Failures,        \* sets of texts for which compute_ruby fails
    WorkerTexts,     \* texts the worker may store, for each language
    MaxGenerated     \* bound: sentences the worker stores

Langs == {Japanese, English}

VARIABLES
    items,      \* learning_items, by id
    sentences,  \* sentences with their sentence_items, by id
    run         \* what each script is at

seedVars == <<items, sentences, run>>

Entries(q) == {q[n] : n \in DOMAIN q}
Ids(q) == {q[n].id : n \in DOMAIN q}

-----------------------------------------------------------------------------
(* The files *)

\* _parse_items: every field is there and of its type, no seed_id twice.
UniqueIds(q) == \A i, j \in DOMAIN q : q[i].id = q[j].id => i = j

ItemsParse(dir) ==
    /\ UniqueIds(dir.items)
    /\ \A n \in DOMAIN dir.items : dir.items[n].sound

\* _reject_cross_item_overlap.
Overlap(uses) ==
    \E i, j \in DOMAIN uses :
        /\ i # j /\ uses[i].tappable /\ uses[j].tappable
        /\ uses[i].area \cap uses[j].area # {}

\* _parse_sentences: a use names an item of the other file, its spans fit the
\* text (validate_item_spans) and it has an explanation.
SentencesParse(dir) ==
    /\ UniqueIds(dir.sentences)
    /\ \A n \in DOMAIN dir.sentences :
          LET s == dir.sentences[n] IN
          /\ s.sound
          /\ s.uses # <<>>
          /\ \A i \in DOMAIN s.uses :
                /\ s.uses[i].item \in Ids(dir.items)
                /\ s.uses[i].fits
                /\ s.uses[i].explained
          /\ ~Overlap(s.uses)

\* _validate_reading_by_language: required in one language, forbidden in the
\* other.
ReadingsFit(dir, l) ==
    /\ \A n \in DOMAIN dir.items :
          dir.items[n].reading # None <=> l = Japanese
    /\ \A n \in DOMAIN dir.sentences :
          \A i \in DOMAIN dir.sentences[n].uses :
              dir.sentences[n].uses[i].reading # None <=> l = Japanese

\* _validate_topic_tags.
TagsKnown(dir, l) ==
    l = English => \A n \in DOMAIN dir.items :
                       dir.items[n].tags \subseteq EnTopicTags

\* _validate_frequency_rank: positive and unique, where there is one.
RanksFit(dir) ==
    \A i, j \in DOMAIN dir.items :
        LET rank == dir.items[i].rank IN
        rank # None => /\ rank > 0
                       /\ dir.items[j].rank = rank => i = j

\* _validate_sentence_length.
LengthsFit(dir, l) ==
    \A n \in DOMAIN dir.sentences : dir.sentences[n].length <= MaxLength[l]

\* _validate_tappable_count.
TappablesFit(dir, l) ==
    l = English =>
        \A n \in DOMAIN dir.sentences :
            LET uses == dir.sentences[n].uses
                tappable == {i \in DOMAIN uses : uses[i].tappable}
            IN  Cardinality(tappable) \in 1..MaxNewItems

\* The first check of _validate_normalized_hashes.
HashesDiffer(dir, l) ==
    \A i, j \in DOMAIN dir.sentences :
        Normal[l][dir.sentences[i].text] = Normal[l][dir.sentences[j].text]
            => i = j

\* What load_seed asks of the files before it asks the database.
Valid(dir, l) ==
    /\ ItemsParse(dir) /\ SentencesParse(dir)
    /\ ReadingsFit(dir, l) /\ TagsKnown(dir, l) /\ RanksFit(dir)
    /\ LengthsFit(dir, l) /\ TappablesFit(dir, l)

IsList(q) == q \in Seq(Entries(q))

ASSUME LanguagesAssumption == Japanese # English

\* The files are lists of entries, and no entry is called NULL.
ASSUME FilesAssumption ==
    \A l \in Langs : \A dir \in Directories[l] :
        /\ IsList(dir.items) /\ IsList(dir.sentences)
        /\ \A s \in Entries(dir.sentences) : IsList(s.uses)
        /\ None \notin Ids(dir.items) \cup Ids(dir.sentences)

\* What was loaded before 0005 had passed the same checks.
ASSUME LegacyAssumption ==
    \A dir \in Legacy : /\ dir \in Directories[Japanese]
                        /\ Valid(dir, Japanese)
                        /\ HashesDiffer(dir, Japanese)

ItemEntries(l) == UNION {Entries(dir.items) : dir \in Directories[l]}
SentenceEntries(l) == UNION {Entries(dir.sentences) : dir \in Directories[l]}

\* The conventions under which an id says what an entry is (04_DB_SPEC.md:141,
\* seed/README.md:28): an id keeps its content for ever and is not used in
\* another language; the same content has the same id; a directory grows, and
\* none has been without sentences.
OneHistory ==
    /\ \A l, k \in Langs : \A e \in ItemEntries(l), f \in ItemEntries(k) :
          /\ e.id = f.id => l = k /\ e.lemma = f.lemma
          /\ e.lemma = f.lemma /\ (l = k \/ e.reading = f.reading)
                => e.id = f.id
    /\ \A l, k \in Langs :
          \A e \in SentenceEntries(l), f \in SentenceEntries(k) :
              /\ e.id = f.id =>
                    /\ l = k /\ e.text = f.text
                    /\ DOMAIN e.uses = DOMAIN f.uses
                    /\ \A i \in DOMAIN e.uses : e.uses[i].item = f.uses[i].item
              /\ l = k /\ Normal[l][e.text] = Normal[l][f.text] => e.id = f.id
    /\ \A l \in Langs : \A c, d \in Directories[l] :
          /\ c.sentences # <<>>
          /\ \/ Ids(c.items) \subseteq Ids(d.items)
             \/ Ids(d.items) \subseteq Ids(c.items)
          /\ \/ Ids(c.sentences) \subseteq Ids(d.sentences)
             \/ Ids(d.sentences) \subseteq Ids(c.sentences)

-----------------------------------------------------------------------------
(* The tables *)

SeedIds(rows) == {rows[n].seed : n \in DOMAIN rows} \ {None}
FromSeed == {n \in DOMAIN sentences : sentences[n].source = "seed"}
SeedOrders(l) ==
    {items[n].order : n \in {m \in DOMAIN items : items[m].lang = l}}

ItemRow(l, e, seed, order) ==
    [lang |-> l, seed |-> seed, lemma |-> e.lemma, reading |-> e.reading,
     order |-> order]

\* ids are the rows of the items that the sentence names.
SentenceRow(l, e, seed, ids, ruby) ==
    [lang |-> l, source |-> "seed", seed |-> seed, text |-> e.text,
     ruby |-> ruby,
     uses |-> [i \in DOMAIN e.uses |->
                 [item |-> ids[e.uses[i].item], tappable |-> e.uses[i].tappable,
                  area |-> e.uses[i].area]]]

\* A database that was loaded before migration 0005: all rows are Japanese, none
\* has an id, and none has furigana.
Unkeyed(dir) ==
    LET row == [id \in Ids(dir.items) |->
                   CHOOSE n \in DOMAIN dir.items : dir.items[n].id = id]
    IN  /\ items = [n \in DOMAIN dir.items |->
                       ItemRow(Japanese, dir.items[n], None, n)]
        /\ sentences = [n \in DOMAIN dir.sentences |->
                           SentenceRow(Japanese, dir.sentences[n], None, row,
                                       None)]

Idle == [at |-> "idle"]

Is(p, at) == run[p].at = at
Becomes(p, state) == run' = [run EXCEPT ![p] = state]
Fails(p) == Becomes(p, Idle)

SeedInit ==
    /\ \/ items = <<>> /\ sentences = <<>>
       \/ \E dir \in Legacy : Unkeyed(dir)
    /\ run = [p \in Scripts |-> Idle]

-----------------------------------------------------------------------------
(* load_seed *)

\* The files are read and checked before the database is asked.
LoadParses(p, l, dir, incremental) ==
    /\ Is(p, "idle")
    /\ IF Valid(dir, l)
       THEN Becomes(p, [at |-> "items", lang |-> l, dir |-> dir,
                        incremental |-> incremental, rows |-> <<>>,
                        known |-> {}, order |-> 0])
       ELSE Fails(p)
    /\ UNCHANGED <<items, sentences>>

\* _existing_item_seed_ids: whatever the language.
RowOfId == [id \in SeedIds(items) |->
               CHOOSE n \in DOMAIN items : items[n].seed = id]

\* The other mode counts the rows (_reject_if_already_seeded) and goes on, with
\* order 0, if there are none.
LoadSeesItems(p) ==
    LET r == run[p] IN
    /\ Is(p, "items")
    /\ Becomes(p, IF r.incremental
                  THEN [r EXCEPT !.at = "sentences", !.rows = RowOfId]
                  ELSE [r EXCEPT !.at = "sentences", !.order = Len(items)])
    /\ UNCHANGED <<items, sentences>>

\* _existing_sentence_seed_ids, or the other count.
LoadSeesSentences(p) ==
    LET r == run[p] IN
    /\ Is(p, "sentences")
    /\ IF r.incremental
       THEN Becomes(p, [r EXCEPT !.at = "order", !.known = SeedIds(sentences)])
       ELSE IF r.order = 0 /\ FromSeed = {}
            THEN Becomes(p, [r EXCEPT !.at = "hashes"])
            ELSE Fails(p)
    /\ UNCHANGED <<items, sentences>>

\* _max_seed_order.
MaxSeedOrder(l) == Greatest(SeedOrders(l) \cup {0})

LoadSeesOrder(p) ==
    /\ Is(p, "order")
    /\ Becomes(p, [run[p] EXCEPT !.at = "hashes",
                                 !.order = MaxSeedOrder(run[p].lang)])
    /\ UNCHANGED <<items, sentences>>

\* A defect for a mutant: rows without an id are left out.
HashesFreeAmongKeyed(r) ==
    LET new == {e \in Entries(r.dir.sentences) : e.id \notin r.known} IN
    \A e \in new, n \in DOMAIN sentences :
        sentences[n].lang = r.lang /\ sentences[n].seed # None =>
            Normal[r.lang][sentences[n].text] # Normal[r.lang][e.text]

\* _validate_normalized_hashes: no sentence to be loaded has the text of a row
\* of its language, whoever made it.
HashesFree(r) ==
    LET new == {e \in Entries(r.dir.sentences) : e.id \notin r.known} IN
    \A e \in new, n \in DOMAIN sentences :
        sentences[n].lang = r.lang =>
            Normal[r.lang][sentences[n].text] # Normal[r.lang][e.text]

LoadChecksHashes(p) ==
    LET r == run[p] IN
    /\ Is(p, "hashes")
    /\ IF HashesDiffer(r.dir, r.lang) /\ HashesFree(r)
       THEN Becomes(p, [r EXCEPT !.at = "inserting"])
       ELSE Fails(p)
    /\ UNCHANGED <<items, sentences>>

NewItems(r) ==
    Filtered(r.dir.items,
             {e \in Entries(r.dir.items) : e.id \notin DOMAIN r.rows})
NewSentences(r) ==
    Filtered(r.dir.sentences,
             {e \in Entries(r.dir.sentences) : e.id \notin r.known})

\* uq_learning_items_seed_id and uq_sentences_seed_id.
KeysTaken(r) ==
    \/ Ids(NewItems(r)) \cap SeedIds(items) # {}
    \/ Ids(NewSentences(r)) \cap SeedIds(sentences) # {}

\* A defect for a mutant: rows are taken for positions in the file.
RowsByPosition(r) ==
    [id \in Ids(r.dir.items) |->
        CHOOSE n \in DOMAIN r.dir.items : r.dir.items[n].id = id]

\* item_ids: the rows of the items of the file, old and new.
RowsOfFile(r) ==
    LET new == NewItems(r) IN
    [id \in Ids(r.dir.items) |->
        IF id \in DOMAIN r.rows THEN r.rows[id]
        ELSE Len(items) + CHOOSE n \in DOMAIN new : new[n].id = id]

\* _compute_ruby_json: NULL where it fails, and for English.
Ruby(l, text, failing, who) ==
    IF l = Japanese /\ text \notin failing THEN who ELSE None

\* Items, then sentences, in one transaction. A key that is taken raises
\* IntegrityError and nothing is loaded (Stops).
LoadCommits(p) ==
    LET r == run[p]
        new == NewItems(r)
        added == NewSentences(r)
    IN
    /\ Is(p, "inserting")
    /\ ~KeysTaken(r)
    /\ items' = items \o [n \in DOMAIN new |->
                             ItemRow(r.lang, new[n], new[n].id, r.order + n)]
    /\ \E failing \in Failures :
          sentences' = sentences \o
              [n \in DOMAIN added |->
                  SentenceRow(r.lang, added[n], added[n].id, RowsOfFile(r),
                              Ruby(r.lang, added[n].text, failing, p))]
    /\ Becomes(p, Idle)

-----------------------------------------------------------------------------
(* backfill_seed_id *)

BackfillStarts(p, l, dir, apply) ==
    /\ Is(p, "idle")
    /\ Becomes(p, [at |-> "matching items", lang |-> l, dir |-> dir,
                   apply |-> apply, agrees |-> TRUE, ids |-> <<>>,
                   keys |-> <<>>])
    /\ UNCHANGED <<items, sentences>>

\* A defect for a mutant: the n-th item against the n-th row, content or not.
ItemsCount(dir) ==
    /\ \A m, n \in DOMAIN items : items[m].order = items[n].order => m = n
    /\ {items[n].order : n \in DOMAIN items} = DOMAIN dir.items
    /\ \A n \in DOMAIN items :
          items[n].seed \in {None, dir.items[items[n].order].id}

\* _match_items: the n-th item of the file against the row with seed_order n,
\* among all rows.
ItemsAgree(dir) ==
    /\ \A m, n \in DOMAIN items : items[m].order = items[n].order => m = n
    /\ {items[n].order : n \in DOMAIN items} = DOMAIN dir.items
    /\ \A n \in DOMAIN items :
          LET row == items[n]
              e == dir.items[row.order]
          IN  /\ row.lemma = e.lemma /\ row.reading = e.reading
              /\ row.seed \in {None, e.id}

\* The rows to write, and what.
ItemWrites(dir) ==
    [n \in {m \in DOMAIN items : items[m].seed = None} |->
        dir.items[items[n].order].id]

BackfillSeesItems(p) ==
    LET r == run[p]
        agrees == ItemsAgree(r.dir)
    IN
    /\ Is(p, "matching items")
    /\ Becomes(p, [r EXCEPT !.at = "matching sentences", !.agrees = agrees,
                            !.ids = IF agrees THEN ItemWrites(r.dir)
                                              ELSE <<>>])
    /\ UNCHANGED <<items, sentences>>

\* The rows that came from seeds, smaller ids first.
SeedRows == Filtered([n \in DOMAIN sentences |-> n], FromSeed)

\* _match_sentences: the n-th of them against the n-th of the file.
SentencesAgree(dir) ==
    /\ Len(SeedRows) = Len(dir.sentences)
    /\ \A n \in DOMAIN dir.sentences :
          LET row == sentences[SeedRows[n]]
              e == dir.sentences[n]
          IN  row.text = e.text /\ row.seed \in {None, e.id}

SentenceWrites(dir) ==
    [k \in {m \in FromSeed : sentences[m].seed = None} |->
        dir.sentences[CHOOSE n \in DOMAIN SeedRows : SeedRows[n] = k].id]

\* Nothing is written if anything differs, or by a dry run. A backup is made
\* before the writes if there are any.
BackfillSeesSentences(p) ==
    LET r == run[p]
        agree == r.agrees /\ SentencesAgree(r.dir)
        keys == SentenceWrites(r.dir)
    IN
    /\ Is(p, "matching sentences")
    /\ Becomes(p,
         IF agree /\ r.apply /\ (DOMAIN r.ids # {} \/ DOMAIN keys # {})
         THEN [r EXCEPT !.at = "keying", !.keys = keys]
         ELSE Idle)
    /\ UNCHANGED <<items, sentences>>

\* UPDATE ... WHERE id = :id AND seed_id IS NULL.
Keyed(rows, ids) ==
    [n \in DOMAIN rows |->
        IF n \in DOMAIN ids /\ rows[n].seed = None
        THEN [rows[n] EXCEPT !.seed = ids[n]] ELSE rows[n]]

UniqueKeys(rows) ==
    \A m, n \in DOMAIN rows :
        rows[m].seed = rows[n].seed /\ rows[m].seed # None => m = n

\* _write_values: one transaction, or IntegrityError (Stops).
BackfillWrites(p) ==
    LET r == run[p]
        keyedItems == Keyed(items, r.ids)
        keyedSentences == Keyed(sentences, r.keys)
    IN
    /\ Is(p, "keying")
    /\ UniqueKeys(keyedItems) /\ UniqueKeys(keyedSentences)
    /\ items' = keyedItems
    /\ sentences' = keyedSentences
    /\ Becomes(p, Idle)

-----------------------------------------------------------------------------
(* backfill_ruby *)

\* load_targets.
WithoutRuby == {n \in DOMAIN sentences : /\ sentences[n].ruby = None
                                   /\ sentences[n].lang = Japanese}

\* Computed in memory, which may fail for some. A dry run and one that has
\* nothing to write end here; otherwise a backup is made first.
RubyStarts(p, apply) ==
    /\ Is(p, "idle")
    /\ \E failing \in Failures :
          LET computed == {n \in WithoutRuby : sentences[n].text \notin failing} IN
          Becomes(p, IF computed = {} \/ ~apply THEN Idle
                     ELSE [at |-> "adding ruby", computed |-> computed])
    /\ UNCHANGED <<items, sentences>>

\* A defect for a mutant: UPDATE ... WHERE id = :id.
RubyOverwrites(p) ==
    /\ Is(p, "adding ruby")
    /\ sentences' = [n \in DOMAIN sentences |->
           IF n \in run[p].computed
           THEN [sentences[n] EXCEPT !.ruby = p] ELSE sentences[n]]
    /\ Becomes(p, Idle)
    /\ UNCHANGED items

\* write_values: UPDATE ... WHERE id = :id AND ruby_json IS NULL.
RubyWrites(p) ==
    /\ Is(p, "adding ruby")
    /\ sentences' = [n \in DOMAIN sentences |->
           IF n \in run[p].computed /\ sentences[n].ruby = None
           THEN [sentences[n] EXCEPT !.ruby = p] ELSE sentences[n]]
    /\ Becomes(p, Idle)
    /\ UNCHANGED items

-----------------------------------------------------------------------------
\* A script is stopped, its backup fails, or the database goes away.
Stops(p) ==
    /\ ~Is(p, "idle")
    /\ Fails(p)
    /\ UNCHANGED <<items, sentences>>

\* The worker stores a sentence (persistence.py); what it checks before is in
\* JobQueue.
WorkerStores(l, text) ==
    /\ Cardinality(DOMAIN sentences \ FromSeed) < MaxGenerated
    /\ \E failing \in Failures :
          sentences' = Append(sentences,
              [lang |-> l, source |-> "generated", seed |-> None,
               text |-> text, uses |-> <<>>,
               ruby |-> Ruby(l, text, failing, "worker")])
    /\ UNCHANGED <<items, run>>

Load(p) ==
    \/ \E l \in Langs : \E dir \in Directories[l], incremental \in BOOLEAN :
           LoadParses(p, l, dir, incremental)
    \/ LoadSeesItems(p) \/ LoadSeesSentences(p) \/ LoadSeesOrder(p)
    \/ LoadChecksHashes(p) \/ LoadCommits(p)

Backfill(p) ==
    \/ \E l \in Langs : \E dir \in Directories[l], apply \in BOOLEAN :
           BackfillStarts(p, l, dir, apply)
    \/ BackfillSeesItems(p) \/ BackfillSeesSentences(p) \/ BackfillWrites(p)

SeedNext ==
    \/ \E p \in Scripts : \/ Load(p) \/ Backfill(p)
                          \/ \E apply \in BOOLEAN : RubyStarts(p, apply)
                          \/ RubyWrites(p) \/ Stops(p)
    \/ \E l \in Langs : \E text \in WorkerTexts[l] : WorkerStores(l, text)

SeedSpec == SeedInit /\ [][SeedNext]_seedVars

-----------------------------------------------------------------------------
(* Properties *)

\* Nothing is in the database twice, whatever loads overlap and whether or not
\* the rows had ids before: no item, no text of a seed sentence, and no place in
\* the order in which a language's items are explored. The ids, the unique
\* indexes and the comparison of hashes have to work together: the ids and
\* the greatest seed_order are read before the insert and nothing is locked.
NothingTwice ==
    /\ \A m, n \in DOMAIN items :
          /\ items[m].lang = items[n].lang
          /\ \/ items[m].lemma = items[n].lemma
             \/ items[m].order = items[n].order
          => m = n
    /\ \A m, n \in FromSeed :
          /\ sentences[m].lang = sentences[n].lang
          /\ Normal[sentences[m].lang][sentences[m].text]
                 = Normal[sentences[n].lang][sentences[n].text]
          => m = n

\* Every entry of a directory is there under its id, with its own content, and
\* its sentences are about the rows of the items that they name.
Whole(l, dir) ==
    /\ \A e \in Entries(dir.items) : \E n \in DOMAIN items :
          /\ items[n].seed = e.id
          /\ items[n].lang = l /\ items[n].lemma = e.lemma
    /\ \A e \in Entries(dir.sentences) : \E n \in DOMAIN sentences :
          LET s == sentences[n] IN
          /\ s.seed = e.id
          /\ s.lang = l /\ s.text = e.text
          /\ DOMAIN s.uses = DOMAIN e.uses
          /\ \A i \in DOMAIN e.uses :
                items[s.uses[i].item].seed = e.uses[i].item

\* A load that ends well leaves every entry of its files in the database, under
\* its id, with its own content and the right words to be learnt from it: an id
\* that the backfill had put on the wrong row would make a later load skip an
\* entry, or teach a sentence with another word.
LoadedWhole ==
    [][\A p \in Scripts, l \in Langs : \A dir \in Directories[l] :
          /\ Is(p, "inserting") /\ run[p].lang = l /\ run[p].dir = dir
          /\ LoadCommits(p)
          => Whole(l, dir)']_seedVars

\* A row is never removed or changed; a missing id or missing furigana is filled
\* in once (the backfills run while loads and the worker write, and repeat the
\* condition of their SELECT in the UPDATE).
RowsStay ==
    [][/\ \A n \in DOMAIN items :
             /\ n \in DOMAIN items'
             /\ [items'[n] EXCEPT !.seed = None]
                    = [items[n] EXCEPT !.seed = None]
             /\ items[n].seed \in {None, items'[n].seed}
       /\ \A n \in DOMAIN sentences :
             /\ n \in DOMAIN sentences'
             /\ [sentences'[n] EXCEPT !.seed = None, !.ruby = None]
                    = [sentences[n] EXCEPT !.seed = None, !.ruby = None]
             /\ sentences[n].seed \in {None, sentences'[n].seed}
             /\ sentences[n].ruby \in {None, sentences'[n].ruby}
      ]_seedVars
=============================================================================
