------------------------- MODULE SeedContentProofs --------------------------
(***************************************************************************)
(* Proofs about SeedContent, for any files of one history, any number of   *)
(* scripts, and any database that was loaded before there were ids.        *)
(*                                                                         *)
(*   RowsAreCompleted  a row is never removed or changed, only completed   *)
(*   NothingIsTwice    no item, text or place in the order is there twice  *)
(*   LoadsAreWhole     a load that ends well has left its files there      *)
(*                                                                         *)
(* Nothing is locked, so what a script has read may be old when it writes. *)
(* The invariant says what is still true of it (Loading, Backfilling), and *)
(* a lemma shows that it stays true while rows are only added and          *)
(* completed (Grown). Two facts carry the argument. As long as rows have   *)
(* no ids, sentences of the old files are among them, and a Japanese load  *)
(* finds one of its own (Old). A load has either nothing to insert, or a   *)
(* key that is taken, or the greatest order (Ahead).                       *)
(*                                                                         *)
(* The operators take the tables as parameters, so that what is said of    *)
(* one state and of the next is said by the same formula.                  *)
(***************************************************************************)
EXTENDS SeedContent, ListLemmas

-----------------------------------------------------------------------------
(* What the tables and the scripts are, whatever the files hold *)

ItemShape(row) ==
  row = [lang |-> row.lang, seed |-> row.seed, lemma |-> row.lemma,
         reading |-> row.reading, order |-> row.order]

SentenceShape(s) ==
  s = [lang |-> s.lang, source |-> s.source, seed |-> s.seed, text |-> s.text,
       ruby |-> s.ruby, uses |-> s.uses]

RowsAre(its, ss) ==
  /\ IsList(its) /\ \A n \in DOMAIN its : ItemShape(its[n])
  /\ IsList(ss) /\ \A k \in DOMAIN ss : SentenceShape(ss[k])

LoadSteps == {"items", "sentences", "order", "hashes", "inserting"}
BackfillSteps == {"matching items", "matching sentences", "keying"}

Loads(r) ==
  /\ r.at \in LoadSteps
  /\ r = [at |-> r.at, lang |-> r.lang, dir |-> r.dir,
          incremental |-> r.incremental, rows |-> r.rows, known |-> r.known,
          order |-> r.order]
  /\ r.lang \in Langs /\ r.dir \in Directories[r.lang] /\ Valid(r.dir, r.lang)

Backfills(r) ==
  /\ r.at \in BackfillSteps
  /\ r = [at |-> r.at, lang |-> r.lang, dir |-> r.dir, apply |-> r.apply,
          agrees |-> r.agrees, ids |-> r.ids, keys |-> r.keys]
  /\ r.lang \in Langs /\ r.dir \in Directories[r.lang]

ScriptIs(r) == \/ r = Idle \/ Loads(r) \/ Backfills(r)
               \/ r.at = "adding ruby"

RowsInv ==
  /\ RowsAre(items, sentences)
  /\ run = [p \in Scripts |-> run[p]]
  /\ \A p \in Scripts : ScriptIs(run[p])

-----------------------------------------------------------------------------
(* The invariant: the tables *)

Seeds(ss) == {k \in DOMAIN ss : ss[k].source = "seed"}

\* Rows without an id are left.
Keyless(its, ss) ==
  \/ \E n \in DOMAIN its : its[n].seed = None
  \/ \E k \in Seeds(ss) : ss[k].seed = None

\* An item row is made from an entry of its language, and has its id or none.
ItemFits(row) ==
  /\ row.lang \in Langs
  /\ row.seed = None => row.lang = Japanese
  /\ \E e \in ItemEntries(row.lang) : /\ row.lemma = e.lemma
                                      /\ row.reading = e.reading
                                      /\ row.seed \in {None, e.id}

ItemsFit(its) ==
  \A n \in DOMAIN its : /\ ItemFits(its[n])
                        /\ its[n].order \in 1..Len(its)

\* The row is that of the item with this id.
IsItem(row, l, id) ==
  row.lang = l /\ \E x \in ItemEntries(l) : x.id = id /\ x.lemma = row.lemma

\* A sentence is about the rows of the items that its entry names.
UsesFit(s, e, its) ==
  /\ DOMAIN s.uses = DOMAIN e.uses
  /\ \A i \in DOMAIN e.uses :
       /\ s.uses[i].item \in DOMAIN its
       /\ IsItem(its[s.uses[i].item], s.lang, e.uses[i].item)

SeedFits(s, its) ==
  /\ s.seed = None => s.lang = Japanese
  /\ \E e \in SentenceEntries(s.lang) : /\ s.text = e.text
                                        /\ s.seed \in {None, e.id}
                                        /\ UsesFit(s, e, its)

SentencesFit(its, ss) ==
  \A k \in DOMAIN ss :
    /\ ss[k].lang \in Langs
    /\ IF ss[k].source = "seed" THEN SeedFits(ss[k], its)
                               ELSE ss[k].seed = None

\* The sentences of the old files, while they have no ids.
OldRows(dir, ss) ==
  \A e \in Entries(dir.sentences) : \E k \in Seeds(ss) :
    ss[k].lang = Japanese /\ ss[k].seed = None /\ ss[k].text = e.text

Old(its, ss) ==
  /\ Keyless(its, ss) => /\ \E n \in DOMAIN its : its[n].lang = Japanese
                         /\ \E dir \in Legacy : OldRows(dir, ss)
  /\ DOMAIN its # {} => Seeds(ss) # {}

ItemsOnce(its) ==
  \A m, n \in DOMAIN its :
    /\ its[m].lang = its[n].lang
    /\ its[m].lemma = its[n].lemma \/ its[m].order = its[n].order
    => m = n

SentencesOnce(ss) ==
  \A m, n \in Seeds(ss) :
    /\ ss[m].lang = ss[n].lang
    /\ Normal[ss[m].lang][ss[m].text] = Normal[ss[n].lang][ss[n].text]
    => m = n

Tables(its, ss) == /\ ItemsFit(its) /\ SentencesFit(its, ss)
                   /\ Old(its, ss)
                   /\ ItemsOnce(its) /\ SentencesOnce(ss)

-----------------------------------------------------------------------------
(* The invariant: the scripts *)

NewIds(r) == Ids(r.dir.items) \ DOMAIN r.rows

\* The load has no item to insert, or cannot insert, or goes on from the
\* greatest order of its language.
Ahead(r, its) ==
  \/ NewIds(r) = {}
  \/ NewIds(r) \cap SeedIds(its) # {}
  \/ \A n \in DOMAIN its : its[n].lang = r.lang => its[n].order <= r.order

\* What a load has read is still there, whatever was added.
Loading(r, its, ss) ==
  /\ DOMAIN r.rows \subseteq SeedIds(its)
  /\ \A id \in DOMAIN r.rows : /\ r.rows[id] \in DOMAIN its
                               /\ its[r.rows[id]].seed = id
  /\ r.known \subseteq SeedIds(ss)
  /\ r.order \in 0..Len(its)

\* At the end of a load.
LoadReady(r, its, ss) ==
  /\ r.at \in {"hashes", "inserting"} => Ahead(r, its)
  /\ r.at = "inserting" /\ r.lang = Japanese => ~Keyless(its, ss)

\* ids gives items the ids of their entries, to all that have none.
IdsFit(r, its) ==
  \A n \in DOMAIN r.ids :
    /\ n \in DOMAIN its
    /\ \E e \in ItemEntries(its[n].lang) : /\ e.id = r.ids[n]
                                           /\ e.lemma = its[n].lemma
                                           /\ e.reading = its[n].reading

IdsReach(r, its) ==
  \A n \in DOMAIN its : its[n].seed = None => n \in DOMAIN r.ids

KeysFit(r, ss) ==
  \A k \in DOMAIN r.keys :
    /\ k \in Seeds(ss)
    /\ \E e \in SentenceEntries(ss[k].lang) : /\ e.id = r.keys[k]
                                              /\ e.text = ss[k].text

KeysReach(r, ss) ==
  \A k \in Seeds(ss) : ss[k].seed = None => k \in DOMAIN r.keys

Backfilling(r, its, ss) ==
  /\ r.at # "matching items" => IdsFit(r, its)
  /\ r.at = "matching sentences" /\ r.agrees =>
       /\ IdsReach(r, its)
       /\ Keyless(its, ss) => r.lang = Japanese
  /\ r.at = "keying" => IdsReach(r, its) /\ KeysFit(r, ss) /\ KeysReach(r, ss)

ScriptFits(r, its, ss) ==
  /\ r.at \in LoadSteps => Loading(r, its, ss) /\ LoadReady(r, its, ss)
  /\ r.at \in BackfillSteps => Backfilling(r, its, ss)

SeedInv ==
  /\ RowsInv
  /\ Tables(items, sentences)
  /\ \A p \in Scripts : ScriptFits(run[p], items, sentences)

-----------------------------------------------------------------------------
(* Lists *)

LEMMA ListIs ==
  ASSUME NEW q, IsList(q)
  PROVE  /\ Len(q) \in Nat /\ DOMAIN q = 1..Len(q)
         /\ q = [n \in 1..Len(q) |-> q[n]]
<1> DEFINE E == Entries(q)
<1>1. q \in Seq(E) BY DEF IsList
<1> HIDE DEF E
<1> QED BY <1>1

LEMMA ListMade ==
  ASSUME NEW N \in Nat, NEW q, q = [n \in 1..N |-> q[n]]
  PROVE  IsList(q) /\ Len(q) = N /\ DOMAIN q = 1..N
<1> DEFINE E == Entries(q)
<1>1. DOMAIN q = 1..N OBVIOUS
<1>2. \A n \in 1..N : q[n] \in E BY <1>1 DEF Entries
<1> HIDE DEF E
<1>3. q \in Seq(E) BY <1>2
<1> QED BY <1>1, <1>3 DEF IsList, E

\* A list with rows added to it.
LEMMA Joined ==
  ASSUME NEW q, IsList(q), NEW f, IsList(f)
  PROVE  /\ IsList(q \o f) /\ Len(q \o f) = Len(q) + Len(f)
         /\ DOMAIN q \subseteq DOMAIN (q \o f)
         /\ \A n \in DOMAIN q : (q \o f)[n] = q[n]
         /\ \A n \in DOMAIN f : /\ Len(q) + n \in DOMAIN (q \o f)
                                /\ Len(q) + n \notin DOMAIN q
                                /\ (q \o f)[Len(q) + n] = f[n]
         /\ \A n \in DOMAIN (q \o f) \ DOMAIN q :
              \E k \in DOMAIN f : n = Len(q) + k
<1> DEFINE t == q \o f
           E == Entries(q) \cup Entries(f)
<1>0. q \in Seq(E) /\ f \in Seq(E)
  <2>1. /\ q \in [1..Len(q) -> E] /\ Len(q) \in Nat
        /\ f \in [1..Len(f) -> E] /\ Len(f) \in Nat
    BY ListIs DEF Entries
  <2> HIDE DEF E
  <2> QED BY <2>1
<1>1. /\ Len(q) \in Nat /\ DOMAIN q = 1..Len(q)
      /\ Len(f) \in Nat /\ DOMAIN f = 1..Len(f)
  BY ListIs
<1>2. /\ t \in Seq(E) /\ Len(t) = Len(q) + Len(f)
      /\ \A n \in 1..(Len(q) + Len(f)) :
           t[n] = IF n <= Len(q) THEN q[n] ELSE f[n - Len(q)]
  <2> HIDE DEF E
  <2> QED BY <1>0, ConcatProperties
<1> HIDE DEF t, E
<1>3. DOMAIN t = 1..Len(t) /\ t = [n \in 1..Len(t) |-> t[n]]
  BY <1>2
<1>5. Len(t) \in Nat BY <1>2
<1>6. IsList(t) /\ Len(t) = Len(q) + Len(f)
  BY <1>2, <1>3, <1>5, ListMade
<1>7. \A n \in DOMAIN q : n \in DOMAIN t /\ t[n] = q[n]
  BY <1>1, <1>2, <1>3
<1>8. \A n \in DOMAIN f : /\ Len(q) + n \in DOMAIN t
                          /\ Len(q) + n \notin DOMAIN q
                          /\ t[Len(q) + n] = f[n]
  <2> TAKE n \in DOMAIN f
  <2>1. n \in Nat /\ 1 <= n /\ n <= Len(f) BY <1>1
  <2>2. /\ Len(q) + n \in 1..(Len(q) + Len(f)) /\ ~(Len(q) + n <= Len(q))
        /\ (Len(q) + n) - Len(q) = n
    BY <1>1, <2>1
  <2> QED BY <1>1, <1>2, <1>3, <2>2
<1>9. \A n \in DOMAIN t \ DOMAIN q : \E k \in DOMAIN f : n = Len(q) + k
  <2> TAKE n \in DOMAIN t \ DOMAIN q
  <2>1. n - Len(q) \in DOMAIN f /\ n = Len(q) + (n - Len(q))
    BY <1>1, <1>2, <1>3
  <2> QED BY <2>1
<1> QED BY <1>6, <1>7, <1>8, <1>9 DEF t

\* What a load keeps of a file: the entries whose ids are not known, each once.
NewOf(q, K) == Filtered(q, {e \in Entries(q) : e.id \notin K})

LEMMA NewEntries ==
  ASSUME NEW q, IsList(q), NEW K
  PROVE  /\ IsList(NewOf(q, K))
         /\ \A e : e \in Entries(NewOf(q, K)) <=>
                     e \in Entries(q) /\ e.id \notin K
         /\ UniqueIds(q) => UniqueIds(NewOf(q, K))
<1> DEFINE keep == {e \in Entries(q) : e.id \notin K}
           new == Filtered(q, keep)
           E == Entries(q)
<1>1. q \in Seq(E) BY DEF IsList
<1>2. Len(q) \in Nat /\ DOMAIN q = 1..Len(q) BY ListIs
<1>3. keep \subseteq E /\ E = {q[n] : n \in DOMAIN q} BY DEF Entries
<1>4. \A e \in E : e \in keep <=> e.id \notin K OBVIOUS
<1> HIDE DEF E, keep
<1>5. new \in Seq(E) /\ Picked(q, keep, new, Len(q))
  BY <1>1, FilteredPicks
<1> HIDE DEF new
<1>6. PICK h \in [1..Len(new) -> 1..Len(q)] :
        /\ \A k \in 1..Len(new) : q[h[k]] \in keep /\ new[k] = q[h[k]]
        /\ \A k, l \in 1..Len(new) : k < l => h[k] < h[l]
        /\ \A m \in 1..Len(q) : q[m] \in keep =>
             \E k \in 1..Len(new) : h[k] = m
  BY <1>5 DEF Picked
<1>7. /\ Len(new) \in Nat /\ DOMAIN new = 1..Len(new)
      /\ new = [n \in 1..Len(new) |-> new[n]]
  BY <1>5
<1>8. IsList(new) BY <1>7, ListMade
<1>9. Entries(new) = keep
  <2>1. \A e \in Entries(new) : e \in keep BY <1>6, <1>7 DEF Entries
  <2>2. ASSUME NEW e \in keep PROVE e \in Entries(new)
    <3>1. PICK m \in 1..Len(q) : q[m] = e BY <1>2, <1>3
    <3>2. PICK k \in 1..Len(new) : h[k] = m BY <1>6, <3>1
    <3>3. new[k] = e BY <1>6, <3>1, <3>2
    <3> QED BY <1>7, <3>3 DEF Entries
  <2> QED BY <2>1, <2>2
<1>10. ASSUME UniqueIds(q) PROVE UniqueIds(new)
  <2>1. SUFFICES ASSUME NEW i \in DOMAIN new, NEW j \in DOMAIN new,
                        new[i].id = new[j].id
                 PROVE  i = j
    BY DEF UniqueIds
  <2>2. h[i] \in DOMAIN q /\ h[j] \in DOMAIN q BY <1>2, <1>7
  <2>3. q[h[i]].id = q[h[j]].id BY <1>6, <1>7, <2>1
  <2>4. h[i] = h[j] BY <1>10, <2>2, <2>3 DEF UniqueIds
  <2>5. /\ i \in Nat /\ j \in Nat /\ h[i] \in Nat
        /\ i < j => h[i] < h[j]
        /\ j < i => h[j] < h[i]
    BY <1>6, <1>7
  <2> QED BY <2>4, <2>5
<1> QED BY <1>8, <1>9, <1>10 DEF NewOf, keep, new, E

-----------------------------------------------------------------------------
(* Rows stay, whatever the files hold *)

KeptItem(row, row2) ==
  /\ row2.lang = row.lang /\ row2.lemma = row.lemma
  /\ row2.reading = row.reading /\ row2.order = row.order
  /\ row.seed \in {None, row2.seed}

KeptSentence(s, s2) ==
  /\ s2.lang = s.lang /\ s2.source = s.source /\ s2.text = s.text
  /\ s2.uses = s.uses
  /\ s.seed \in {None, s2.seed}
  /\ s.ruby \in {None, s2.ruby}

Kept(its, its2, ss, ss2) ==
  /\ \A n \in DOMAIN its : n \in DOMAIN its2 /\ KeptItem(its[n], its2[n])
  /\ \A k \in DOMAIN ss : k \in DOMAIN ss2 /\ KeptSentence(ss[k], ss2[k])

LEMMA ScriptAt ==
  ASSUME NEW r, ScriptIs(r)
  PROVE  /\ r.at \in LoadSteps => Loads(r)
         /\ r.at \in BackfillSteps => Backfills(r)
         /\ r.at \notin LoadSteps \cup BackfillSteps =>
              r = Idle \/ r.at = "adding ruby"
<1>1. Loads(r) => r.at \in LoadSteps BY DEF Loads
<1>2. Backfills(r) => r.at \in BackfillSteps BY DEF Backfills
<1>3. r = Idle => r.at = "idle" BY DEF Idle
<1> QED BY <1>1, <1>2, <1>3 DEF ScriptIs, LoadSteps, BackfillSteps

\* A step of a script is a change of its own record.
LEMMA RunChanges ==
  ASSUME RowsInv, NEW p \in Scripts, NEW r, Becomes(p, r)
  PROVE  /\ run'[p] = r /\ \A q \in Scripts \ {p} : run'[q] = run[q]
         /\ ScriptIs(r) => /\ run' = [q \in Scripts |-> run'[q]]
                           /\ \A q \in Scripts : ScriptIs(run'[q])
<1>1. run = [q \in Scripts |-> run[q]] /\ \A q \in Scripts : ScriptIs(run[q])
  BY DEF RowsInv
<1>2. run' = [run EXCEPT ![p] = r] BY DEF Becomes
<1>3. run' = [q \in Scripts |-> IF q = p THEN r ELSE run[q]] BY <1>1, <1>2
<1> QED BY <1>1, <1>3

\* The steps that only read.
LEMMA RowsRead ==
  ASSUME RowsInv, NEW p \in Scripts, NEW r, Becomes(p, r), ScriptIs(r),
         UNCHANGED <<items, sentences>>
  PROVE  RowsInv' /\ Kept(items, items', sentences, sentences')
<1>1. /\ run' = [q \in Scripts |-> run'[q]]
      /\ \A q \in Scripts : ScriptIs(run'[q])
  BY RunChanges
<1>2. RowsAre(items', sentences') BY DEF RowsInv
<1>3. RowsInv'
  BY <1>1, <1>2 DEF RowsInv
<1> QED BY <1>3 DEF Kept, KeptItem, KeptSentence

\* A load at its next step, and a backfill.
LoadAt(r, at, rows, known, order) ==
  [at |-> at, lang |-> r.lang, dir |-> r.dir, incremental |-> r.incremental,
   rows |-> rows, known |-> known, order |-> order]
BackfillAt(r, at, agrees, ids, keys) ==
  [at |-> at, lang |-> r.lang, dir |-> r.dir, apply |-> r.apply,
   agrees |-> agrees, ids |-> ids, keys |-> keys]

LEMMA ScriptGoesOn ==
  ASSUME NEW r, NEW at
  PROVE  /\ Loads(r) /\ at \in LoadSteps =>
              \A rows, known, order :
                ScriptIs(LoadAt(r, at, rows, known, order))
         /\ Backfills(r) /\ at \in BackfillSteps =>
              \A agrees, ids, keys :
                ScriptIs(BackfillAt(r, at, agrees, ids, keys))
<1>1. ASSUME Loads(r), at \in LoadSteps, NEW rows, NEW known, NEW order
      PROVE  ScriptIs(LoadAt(r, at, rows, known, order))
  BY <1>1 DEF LoadAt, Loads, ScriptIs
<1>2. ASSUME Backfills(r), at \in BackfillSteps, NEW agrees, NEW ids, NEW keys
      PROVE  ScriptIs(BackfillAt(r, at, agrees, ids, keys))
  BY <1>2 DEF BackfillAt, Backfills, ScriptIs
<1> QED BY <1>1, <1>2

LEMMA LoadEdits ==
  ASSUME NEW r, Loads(r), NEW at
  PROVE  /\ [r EXCEPT !.at = at] = LoadAt(r, at, r.rows, r.known, r.order)
         /\ \A x : [r EXCEPT !.at = at, !.rows = x]
                     = LoadAt(r, at, x, r.known, r.order)
         /\ \A x : [r EXCEPT !.at = at, !.known = x]
                     = LoadAt(r, at, r.rows, x, r.order)
         /\ \A x : [r EXCEPT !.at = at, !.order = x]
                     = LoadAt(r, at, r.rows, r.known, x)
<1>1. PICK a, l, d, inc, rows, known, n :
        r = [at |-> a, lang |-> l, dir |-> d, incremental |-> inc,
             rows |-> rows, known |-> known, order |-> n]
  BY DEF Loads
<1>2. /\ r.lang = l /\ r.dir = d /\ r.incremental = inc
      /\ r.rows = rows /\ r.known = known /\ r.order = n
  BY <1>1
<1> DEFINE s == [r EXCEPT !.at = at]
<1>3. s = [at |-> at, lang |-> l, dir |-> d, incremental |-> inc,
           rows |-> rows, known |-> known, order |-> n]
  BY <1>1
<1>4. /\ \A x : [r EXCEPT !.at = at, !.rows = x] = [s EXCEPT !.rows = x]
      /\ \A x : [r EXCEPT !.at = at, !.known = x] = [s EXCEPT !.known = x]
      /\ \A x : [r EXCEPT !.at = at, !.order = x] = [s EXCEPT !.order = x]
  OBVIOUS
<1> HIDE DEF s
<1>5. ASSUME NEW x
      PROVE  [s EXCEPT !.rows = x]
               = [at |-> at, lang |-> l, dir |-> d, incremental |-> inc,
                  rows |-> x, known |-> known, order |-> n]
  BY <1>3
<1>6. ASSUME NEW x
      PROVE  [s EXCEPT !.known = x]
               = [at |-> at, lang |-> l, dir |-> d, incremental |-> inc,
                  rows |-> rows, known |-> x, order |-> n]
  BY <1>3
<1>7. ASSUME NEW x
      PROVE  [s EXCEPT !.order = x]
               = [at |-> at, lang |-> l, dir |-> d, incremental |-> inc,
                  rows |-> rows, known |-> known, order |-> x]
  BY <1>3
<1> QED BY <1>2, <1>3, <1>4, <1>5, <1>6, <1>7 DEF LoadAt, s

LEMMA LoadFinds ==
  ASSUME NEW r, Loads(r), NEW at
  PROVE  \A x : [r EXCEPT !.at = at, !.rows = x]
               = LoadAt(r, at, x, r.known, r.order)
BY LoadEdits, Zenon

LEMMA LoadKnows ==
  ASSUME NEW r, Loads(r), NEW at
  PROVE  \A x : [r EXCEPT !.at = at, !.known = x]
               = LoadAt(r, at, r.rows, x, r.order)
BY LoadEdits, Zenon

LEMMA LoadOrders ==
  ASSUME NEW r, Loads(r), NEW at
  PROVE  \A x : [r EXCEPT !.at = at, !.order = x]
               = LoadAt(r, at, r.rows, r.known, x)
<1>1. \A at2, x : [r EXCEPT !.at = at2, !.order = x]
                    = LoadAt(r, at2, r.rows, r.known, x)
  BY LoadEdits, ZenonT(60)
<1> QED BY <1>1

LEMMA BackfillEdits ==
  ASSUME NEW r, Backfills(r), NEW at
  PROVE  /\ \A x : [r EXCEPT !.at = at, !.keys = x]
                     = BackfillAt(r, at, r.agrees, r.ids, x)
         /\ \A b, x : [r EXCEPT !.at = at, !.agrees = b, !.ids = x]
                        = BackfillAt(r, at, b, x, r.keys)
<1>1. PICK a, l, d, apply, agrees, ids, keys :
        r = [at |-> a, lang |-> l, dir |-> d, apply |-> apply,
             agrees |-> agrees, ids |-> ids, keys |-> keys]
  BY DEF Backfills
<1>2. /\ r.lang = l /\ r.dir = d /\ r.apply = apply
      /\ r.agrees = agrees /\ r.ids = ids /\ r.keys = keys
  BY <1>1
<1> DEFINE s == [r EXCEPT !.at = at]
<1>3. s = [at |-> at, lang |-> l, dir |-> d, apply |-> apply,
           agrees |-> agrees, ids |-> ids, keys |-> keys]
  BY <1>1
<1>4. /\ \A x : [r EXCEPT !.at = at, !.keys = x] = [s EXCEPT !.keys = x]
      /\ \A b, x : [r EXCEPT !.at = at, !.agrees = b, !.ids = x]
                     = [[s EXCEPT !.agrees = b] EXCEPT !.ids = x]
  OBVIOUS
<1> HIDE DEF s
<1>5. ASSUME NEW x
      PROVE  [s EXCEPT !.keys = x]
               = [at |-> at, lang |-> l, dir |-> d, apply |-> apply,
                  agrees |-> agrees, ids |-> ids, keys |-> x]
  BY <1>3
<1>6. ASSUME NEW b, NEW x
      PROVE  [[s EXCEPT !.agrees = b] EXCEPT !.ids = x]
               = [at |-> at, lang |-> l, dir |-> d, apply |-> apply,
                  agrees |-> b, ids |-> x, keys |-> keys]
  <2> DEFINE t == [s EXCEPT !.agrees = b]
  <2>1. t = [at |-> at, lang |-> l, dir |-> d, apply |-> apply,
             agrees |-> b, ids |-> ids, keys |-> keys]
    BY <1>3
  <2> HIDE DEF t
  <2>2. [t EXCEPT !.ids = x]
          = [at |-> at, lang |-> l, dir |-> d, apply |-> apply,
             agrees |-> b, ids |-> x, keys |-> keys]
    BY <2>1
  <2> QED BY <2>2 DEF t
<1>7. \A x : [r EXCEPT !.at = at, !.keys = x]
              = BackfillAt(r, at, r.agrees, r.ids, x)
  BY <1>2, <1>4, <1>5 DEF BackfillAt
<1>8. \A b, x : [r EXCEPT !.at = at, !.agrees = b, !.ids = x]
                 = BackfillAt(r, at, b, x, r.keys)
  <2> TAKE b, x
  <2>1. [r EXCEPT !.at = at, !.agrees = b, !.ids = x]
          = [[s EXCEPT !.agrees = b] EXCEPT !.ids = x]
    BY <1>4
  <2>2. BackfillAt(r, at, b, x, r.keys)
          = [at |-> at, lang |-> l, dir |-> d, apply |-> apply,
             agrees |-> b, ids |-> x, keys |-> keys]
    BY <1>2 DEF BackfillAt
  <2> QED BY <1>6, <2>1, <2>2
<1> QED BY <1>7, <1>8

LEMMA BackfillKeys ==
  ASSUME NEW r, Backfills(r), NEW at
  PROVE  \A x : [r EXCEPT !.at = at, !.keys = x]
               = BackfillAt(r, at, r.agrees, r.ids, x)
BY BackfillEdits, Zenon

LEMMA BackfillIds ==
  ASSUME NEW r, Backfills(r), NEW at
  PROVE  \A b, x : [r EXCEPT !.at = at, !.agrees = b, !.ids = x]
                  = BackfillAt(r, at, b, x, r.keys)
BY BackfillEdits, Zenon

\* What the steps of a load make of its record.
LEMMA LoadReads ==
  ASSUME NEW p, ScriptIs(run[p])
  PROVE  LET r == run[p] IN
         /\ LoadSeesItems(p) =>
              /\ Loads(r) /\ r.at = "items"
              /\ \/ Becomes(p, LoadAt(r, "sentences", RowOfId, r.known,
                                      r.order))
                 \/ Becomes(p, LoadAt(r, "sentences", r.rows, r.known,
                                      Len(items)))
         /\ LoadSeesSentences(p) =>
              /\ Loads(r) /\ r.at = "sentences"
              /\ \/ Becomes(p, LoadAt(r, "order", r.rows, SeedIds(sentences),
                                      r.order))
                 \/ /\ FromSeed = {}
                    /\ Becomes(p, LoadAt(r, "hashes", r.rows, r.known, r.order))
                 \/ Becomes(p, Idle)
         /\ LoadSeesOrder(p) =>
              /\ Loads(r) /\ r.at = "order"
              /\ Becomes(p, LoadAt(r, "hashes", r.rows, r.known,
                                   MaxSeedOrder(r.lang)))
         /\ LoadChecksHashes(p) =>
              /\ Loads(r) /\ r.at = "hashes"
              /\ \/ /\ HashesFree(r)
                    /\ Becomes(p, LoadAt(r, "inserting", r.rows, r.known,
                                         r.order))
                 \/ Becomes(p, Idle)
<1> DEFINE r == run[p]
<1>1. r.at \in LoadSteps => Loads(r) BY ScriptAt
<1>3. ASSUME LoadSeesItems(p)
      PROVE  /\ Loads(r) /\ r.at = "items"
             /\ \/ Becomes(p, LoadAt(r, "sentences", RowOfId, r.known, r.order))
                \/ Becomes(p, LoadAt(r, "sentences", r.rows, r.known,
                                     Len(items)))
  <2>1. Loads(r) /\ r.at = "items"
    BY <1>1, <1>3 DEF LoadSeesItems, Is, LoadSteps
  <2>2. /\ [r EXCEPT !.at = "sentences", !.rows = RowOfId]
             = LoadAt(r, "sentences", RowOfId, r.known, r.order)
        /\ [r EXCEPT !.at = "sentences", !.order = Len(items)]
             = LoadAt(r, "sentences", r.rows, r.known, Len(items))
    <3> HIDE DEF r
    <3>1. [r EXCEPT !.at = "sentences", !.rows = RowOfId]
            = LoadAt(r, "sentences", RowOfId, r.known, r.order)
      BY <2>1, LoadFinds
    <3>2. [r EXCEPT !.at = "sentences", !.order = Len(items)]
             = LoadAt(r, "sentences", r.rows, r.known, Len(items))
      BY <2>1, LoadOrders
    <3> QED BY <3>1, <3>2
  <2> QED BY <1>3, <2>1, <2>2 DEF LoadSeesItems
<1>4. ASSUME LoadSeesSentences(p)
      PROVE  /\ Loads(r) /\ r.at = "sentences"
             /\ \/ Becomes(p, LoadAt(r, "order", r.rows, SeedIds(sentences),
                                     r.order))
                \/ /\ FromSeed = {}
                   /\ Becomes(p, LoadAt(r, "hashes", r.rows, r.known, r.order))
                \/ Becomes(p, Idle)
  <2>1. Loads(r) /\ r.at = "sentences"
    BY <1>1, <1>4 DEF LoadSeesSentences, Is, LoadSteps
  <2>2. /\ [r EXCEPT !.at = "order", !.known = SeedIds(sentences)]
             = LoadAt(r, "order", r.rows, SeedIds(sentences), r.order)
        /\ [r EXCEPT !.at = "hashes"]
             = LoadAt(r, "hashes", r.rows, r.known, r.order)
    <3> HIDE DEF r
    <3>1. [r EXCEPT !.at = "order", !.known = SeedIds(sentences)]
             = LoadAt(r, "order", r.rows, SeedIds(sentences), r.order)
      BY <2>1, LoadKnows
    <3> QED BY <2>1, <3>1, LoadEdits
  <2> QED BY <1>4, <2>1, <2>2 DEF LoadSeesSentences, Fails
<1>5. ASSUME LoadSeesOrder(p)
      PROVE  /\ Loads(r) /\ r.at = "order"
             /\ Becomes(p, LoadAt(r, "hashes", r.rows, r.known,
                                  MaxSeedOrder(r.lang)))
  <2>1. Loads(r) /\ r.at = "order"
    BY <1>1, <1>5 DEF LoadSeesOrder, Is, LoadSteps
  <2>2. [r EXCEPT !.at = "hashes", !.order = MaxSeedOrder(r.lang)]
             = LoadAt(r, "hashes", r.rows, r.known, MaxSeedOrder(r.lang))
    <3> HIDE DEF r
    <3> QED BY <2>1, LoadOrders
  <2> QED BY <1>5, <2>1, <2>2 DEF LoadSeesOrder
<1>6. ASSUME LoadChecksHashes(p)
      PROVE  /\ Loads(r) /\ r.at = "hashes"
             /\ \/ /\ HashesFree(r)
                   /\ Becomes(p, LoadAt(r, "inserting", r.rows, r.known,
                                        r.order))
                \/ Becomes(p, Idle)
  <2>1. Loads(r) /\ r.at = "hashes"
    BY <1>1, <1>6 DEF LoadChecksHashes, Is, LoadSteps
  <2>2. [r EXCEPT !.at = "inserting"]
             = LoadAt(r, "inserting", r.rows, r.known, r.order)
    <3> HIDE DEF r
    <3> QED BY <2>1, LoadEdits
  <2> QED BY <1>6, <2>1, <2>2 DEF LoadChecksHashes, Fails
<1> QED BY <1>3, <1>4, <1>5, <1>6

LEMMA LoadOpens ==
  ASSUME NEW p, NEW l \in Langs, NEW dir \in Directories[l], NEW incremental,
         LoadParses(p, l, dir, incremental)
  PROVE  \/ /\ Becomes(p, [at |-> "items", lang |-> l, dir |-> dir,
                           incremental |-> incremental, rows |-> <<>>,
                           known |-> {}, order |-> 0])
            /\ Loads([at |-> "items", lang |-> l, dir |-> dir,
                      incremental |-> incremental, rows |-> <<>>,
                      known |-> {}, order |-> 0])
         \/ Becomes(p, Idle)
<1>1. CASE Valid(dir, l)
  <2>1. Loads([at |-> "items", lang |-> l, dir |-> dir,
               incremental |-> incremental, rows |-> <<>>,
               known |-> {}, order |-> 0])
    BY <1>1 DEF Loads, LoadSteps
  <2> QED BY <1>1, <2>1 DEF LoadParses
<1>2. CASE ~Valid(dir, l)
  BY <1>2 DEF LoadParses, Fails
<1> QED BY <1>1, <1>2

\* The same of a backfill.
LEMMA BackfillReads ==
  ASSUME NEW p, ScriptIs(run[p])
  PROVE  LET r == run[p] IN
         /\ BackfillSeesItems(p) =>
              /\ Backfills(r) /\ r.at = "matching items"
              /\ \/ /\ ItemsAgree(r.dir)
                    /\ Becomes(p, BackfillAt(r, "matching sentences", TRUE,
                                             ItemWrites(r.dir), r.keys))
                 \/ Becomes(p, BackfillAt(r, "matching sentences", FALSE, <<>>,
                                          r.keys))
         /\ BackfillSeesSentences(p) =>
              /\ Backfills(r) /\ r.at = "matching sentences"
              /\ \/ /\ r.agrees /\ SentencesAgree(r.dir)
                    /\ Becomes(p, BackfillAt(r, "keying", r.agrees, r.ids,
                                             SentenceWrites(r.dir)))
                 \/ Becomes(p, Idle)
<1> DEFINE r == run[p]
<1>1. r.at \in BackfillSteps => Backfills(r) BY ScriptAt
<1>3. ASSUME BackfillSeesItems(p)
      PROVE  /\ Backfills(r) /\ r.at = "matching items"
             /\ \/ /\ ItemsAgree(r.dir)
                   /\ Becomes(p, BackfillAt(r, "matching sentences", TRUE,
                                            ItemWrites(r.dir), r.keys))
                \/ Becomes(p, BackfillAt(r, "matching sentences", FALSE, <<>>,
                                         r.keys))
  <2>1. Backfills(r) /\ r.at = "matching items"
    BY <1>1, <1>3 DEF BackfillSeesItems, Is, BackfillSteps
  <2>2. CASE ItemsAgree(r.dir)
    <3>1. ItemsAgree(r.dir) = TRUE BY <2>2
    <3>2. Becomes(p, [r EXCEPT !.at = "matching sentences", !.agrees = TRUE,
                               !.ids = ItemWrites(r.dir)])
      BY <1>3, <3>1, <2>2 DEF BackfillSeesItems
    <3>3. [r EXCEPT !.at = "matching sentences", !.agrees = TRUE,
                    !.ids = ItemWrites(r.dir)]
            = BackfillAt(r, "matching sentences", TRUE, ItemWrites(r.dir),
                         r.keys)
      <4> HIDE DEF r
      <4> QED BY <2>1, BackfillIds
    <3> QED BY <2>1, <2>2, <3>2, <3>3
  <2>3. CASE ~ItemsAgree(r.dir)
    <3>1. ItemsAgree(r.dir) = FALSE BY <2>3 DEF ItemsAgree
    <3>2. Becomes(p, [r EXCEPT !.at = "matching sentences", !.agrees = FALSE,
                               !.ids = <<>>])
      BY <1>3, <3>1, <2>3 DEF BackfillSeesItems
    <3>3. [r EXCEPT !.at = "matching sentences", !.agrees = FALSE,
                    !.ids = <<>>]
            = BackfillAt(r, "matching sentences", FALSE, <<>>, r.keys)
      <4> HIDE DEF r
      <4> QED BY <2>1, BackfillIds
    <3> QED BY <2>1, <3>2, <3>3
  <2> QED BY <2>2, <2>3
<1>4. ASSUME BackfillSeesSentences(p)
      PROVE  /\ Backfills(r) /\ r.at = "matching sentences"
             /\ \/ /\ r.agrees /\ SentencesAgree(r.dir)
                   /\ Becomes(p, BackfillAt(r, "keying", r.agrees, r.ids,
                                            SentenceWrites(r.dir)))
                \/ Becomes(p, Idle)
  <2>1. Backfills(r) /\ r.at = "matching sentences"
    BY <1>1, <1>4 DEF BackfillSeesSentences, Is, BackfillSteps
  <2>2. [r EXCEPT !.at = "keying", !.keys = SentenceWrites(r.dir)]
             = BackfillAt(r, "keying", r.agrees, r.ids, SentenceWrites(r.dir))
    <3> HIDE DEF r
    <3> QED BY <2>1, BackfillKeys
  <2>3. CASE r.agrees /\ SentencesAgree(r.dir)
    BY <1>4, <2>1, <2>2, <2>3 DEF BackfillSeesSentences
  <2>4. CASE ~(r.agrees /\ SentencesAgree(r.dir))
    BY <1>4, <2>1, <2>4 DEF BackfillSeesSentences
  <2> QED BY <2>3, <2>4
<1> QED BY <1>3, <1>4

LEMMA RowsLoadReads ==
  ASSUME RowsInv, NEW p \in Scripts,
         \/ \E l \in Langs :
            \E dir \in Directories[l], incremental \in BOOLEAN :
              LoadParses(p, l, dir, incremental)
         \/ LoadSeesItems(p) \/ LoadSeesSentences(p) \/ LoadSeesOrder(p)
         \/ LoadChecksHashes(p)
  PROVE  RowsInv' /\ Kept(items, items', sentences, sentences')
<1> DEFINE r == run[p]
<1>1. ScriptIs(r) BY DEF RowsInv
<1>2. ScriptIs(Idle) BY DEF ScriptIs
<1>3. UNCHANGED <<items, sentences>>
  BY DEF LoadParses, LoadSeesItems, LoadSeesSentences, LoadSeesOrder,
         LoadChecksHashes
<1>4. SUFFICES \E s : Becomes(p, s) /\ ScriptIs(s)
  BY <1>3, RowsRead
<1>5. CASE \E l \in Langs : \E dir \in Directories[l], incremental \in BOOLEAN :
             LoadParses(p, l, dir, incremental)
  <2>1. \E s : Becomes(p, s) /\ (Loads(s) \/ s = Idle)
    BY <1>5, LoadOpens
  <2> QED BY <2>1 DEF ScriptIs
<1>6. {"sentences", "order", "hashes", "inserting"} \subseteq LoadSteps
  BY DEF LoadSteps
<1>7. CASE \/ LoadSeesItems(p) \/ LoadSeesSentences(p) \/ LoadSeesOrder(p)
           \/ LoadChecksHashes(p)
  <2>1. Loads(r) /\ \E at \in LoadSteps : \E rows, known, order :
          Becomes(p, LoadAt(r, at, rows, known, order)) \/ Becomes(p, Idle)
    BY <1>1, <1>6, <1>7, LoadReads
  <2> QED BY <1>2, <2>1, ScriptGoesOn
<1> QED BY <1>5, <1>7

LEMMA RowsBackfillReads ==
  ASSUME RowsInv, NEW p \in Scripts,
         \/ \E l \in Langs : \E dir \in Directories[l], apply \in BOOLEAN :
              BackfillStarts(p, l, dir, apply)
         \/ BackfillSeesItems(p) \/ BackfillSeesSentences(p)
  PROVE  RowsInv' /\ Kept(items, items', sentences, sentences')
<1> DEFINE r == run[p]
<1>1. ScriptIs(r) BY DEF RowsInv
<1>2. ScriptIs(Idle) BY DEF ScriptIs
<1>3. UNCHANGED <<items, sentences>>
  BY DEF BackfillStarts, BackfillSeesItems, BackfillSeesSentences
<1>4. SUFFICES \E s : Becomes(p, s) /\ ScriptIs(s)
  BY <1>3, RowsRead
<1>5. CASE \E l \in Langs : \E dir \in Directories[l], apply \in BOOLEAN :
             BackfillStarts(p, l, dir, apply)
  <2>1. PICK l \in Langs : \E dir \in Directories[l], apply \in BOOLEAN :
          BackfillStarts(p, l, dir, apply)
    BY <1>5
  <2>2. PICK dir \in Directories[l], apply \in BOOLEAN :
          BackfillStarts(p, l, dir, apply)
    BY <2>1
  <2> DEFINE s == [at |-> "matching items", lang |-> l, dir |-> dir,
                   apply |-> apply, agrees |-> TRUE, ids |-> <<>>,
                   keys |-> <<>>]
  <2>3. Becomes(p, s) BY <2>2 DEF BackfillStarts
  <2>4. Backfills(s) BY DEF Backfills, BackfillSteps
  <2> QED BY <2>3, <2>4 DEF ScriptIs
<1>6. {"matching sentences", "keying"} \subseteq BackfillSteps
  BY DEF BackfillSteps
<1>7. CASE BackfillSeesItems(p) \/ BackfillSeesSentences(p)
  <2>1. Backfills(r) /\ \E at \in BackfillSteps : \E agrees, ids, keys :
          Becomes(p, BackfillAt(r, at, agrees, ids, keys)) \/ Becomes(p, Idle)
    BY <1>1, <1>6, <1>7, BackfillReads
  <2> QED BY <1>2, <2>1, ScriptGoesOn
<1> QED BY <1>5, <1>7

LEMMA RowsRubyStarts ==
  ASSUME RowsInv, NEW p \in Scripts, NEW apply, RubyStarts(p, apply)
  PROVE  RowsInv' /\ Kept(items, items', sentences, sentences')
<1>1. \E s : Becomes(p, s) /\ (s = Idle \/ s.at = "adding ruby")
  <2>1. PICK failing \in Failures :
          LET computed == {n \in WithoutRuby : sentences[n].text \notin failing}
          IN  Becomes(p, IF computed = {} \/ ~apply THEN Idle
                         ELSE [at |-> "adding ruby", computed |-> computed])
    BY DEF RubyStarts
  <2> DEFINE computed == {n \in WithoutRuby : sentences[n].text \notin failing}
             c == [at |-> "adding ruby", computed |-> computed]
  <2>2. c.at = "adding ruby" OBVIOUS
  <2>3. Becomes(p, Idle) \/ Becomes(p, c) BY <2>1
  <2> QED BY <2>2, <2>3
<1>2. UNCHANGED <<items, sentences>> BY DEF RubyStarts
<1> QED BY <1>1, <1>2, RowsRead DEF ScriptIs

LEMMA RowsStops ==
  ASSUME RowsInv, NEW p \in Scripts, Stops(p)
  PROVE  RowsInv' /\ Kept(items, items', sentences, sentences')
<1>1. Becomes(p, Idle) /\ UNCHANGED <<items, sentences>> BY DEF Stops, Fails
<1> QED BY <1>1, RowsRead DEF ScriptIs

\* The steps that write: what is left to show is what the tables become.
LEMMA RowsWritten ==
  ASSUME RowsInv, NEW p \in Scripts, Becomes(p, Idle) \/ UNCHANGED run,
         RowsAre(items', sentences')
  PROVE  RowsInv'
<1>1. ScriptIs(Idle) BY DEF ScriptIs
<1>2. CASE Becomes(p, Idle)
  BY <1>1, <1>2, RunChanges DEF RowsInv
<1>3. CASE UNCHANGED run
  BY <1>3 DEF RowsInv
<1> QED BY <1>2, <1>3

\* What is left of the files of a load to insert.
LEMMA LoadNews ==
  ASSUME NEW r, Loads(r)
  PROVE  /\ IsList(NewItems(r)) /\ UniqueIds(NewItems(r))
         /\ \A e : e \in Entries(NewItems(r)) <=>
                     e \in Entries(r.dir.items) /\ e.id \notin DOMAIN r.rows
         /\ IsList(NewSentences(r)) /\ UniqueIds(NewSentences(r))
         /\ \A e : e \in Entries(NewSentences(r)) <=>
                     e \in Entries(r.dir.sentences) /\ e.id \notin r.known
<1>1. IsList(r.dir.items) /\ IsList(r.dir.sentences)
  BY FilesAssumption DEF Loads
<1>2. UniqueIds(r.dir.items) /\ UniqueIds(r.dir.sentences)
  BY DEF Loads, Valid, ItemsParse, SentencesParse
<1>3. /\ NewItems(r) = NewOf(r.dir.items, DOMAIN r.rows)
      /\ NewSentences(r) = NewOf(r.dir.sentences, r.known)
  BY DEF NewItems, NewSentences, NewOf
<1> QED BY <1>1, <1>2, <1>3, NewEntries

\* The tables after a load.
LEMMA LoadWrites ==
  ASSUME RowsInv, NEW p \in Scripts, LoadCommits(p)
  PROVE  LET r == run[p]
             new == NewItems(r)
             added == NewSentences(r)
         IN
         /\ Loads(r) /\ r.at = "inserting" /\ ~KeysTaken(r)
         /\ IsList(items') /\ Len(items') = Len(items) + Len(new)
         /\ \A n \in DOMAIN items : n \in DOMAIN items' /\ items'[n] = items[n]
         /\ \A n \in DOMAIN new :
              /\ Len(items) + n \in DOMAIN items' \ DOMAIN items
              /\ items'[Len(items) + n]
                   = ItemRow(r.lang, new[n], new[n].id, r.order + n)
         /\ \A n \in DOMAIN items' \ DOMAIN items :
              \E k \in DOMAIN new : n = Len(items) + k
         /\ IsList(sentences')
         /\ \A n \in DOMAIN sentences :
              n \in DOMAIN sentences' /\ sentences'[n] = sentences[n]
         /\ \A n \in DOMAIN added :
              /\ Len(sentences) + n \in DOMAIN sentences' \ DOMAIN sentences
              /\ \E ruby : sentences'[Len(sentences) + n]
                   = SentenceRow(r.lang, added[n], added[n].id, RowsOfFile(r),
                                 ruby)
         /\ \A n \in DOMAIN sentences' \ DOMAIN sentences :
              \E k \in DOMAIN added : n = Len(sentences) + k
         /\ Becomes(p, Idle)
<1> DEFINE r == run[p]
           new == NewItems(r)
           added == NewSentences(r)
<1>1. r.at = "inserting" /\ ~KeysTaken(r) /\ Becomes(p, Idle)
  BY DEF LoadCommits, Is
<1>2. Loads(r) BY <1>1, ScriptAt DEF RowsInv, LoadSteps
<1>3. IsList(new) /\ IsList(added) BY <1>2, LoadNews
<1>4. IsList(items) /\ IsList(sentences) BY DEF RowsInv, RowsAre
<1> DEFINE row(n) == ItemRow(r.lang, new[n], new[n].id, r.order + n)
           f == [n \in DOMAIN new |-> row(n)]
<1>5. items' = items \o f BY DEF LoadCommits
<1>6. PICK failing \in Failures :
        sentences' = sentences \o
          [n \in DOMAIN added |->
             SentenceRow(r.lang, added[n], added[n].id, RowsOfFile(r),
                         Ruby(r.lang, added[n].text, failing, p))]
  BY DEF LoadCommits
<1> DEFINE s(n) == SentenceRow(r.lang, added[n], added[n].id, RowsOfFile(r),
                               Ruby(r.lang, added[n].text, failing, p))
           g == [n \in DOMAIN added |-> s(n)]
<1>7. sentences' = sentences \o g BY <1>6
<1>8. /\ DOMAIN f = DOMAIN new /\ \A n \in DOMAIN new : f[n] = row(n)
      /\ DOMAIN g = DOMAIN added /\ \A n \in DOMAIN added : g[n] = s(n)
  OBVIOUS
<1>9. /\ f = [n \in DOMAIN new |-> f[n]] /\ g = [n \in DOMAIN added |-> g[n]]
  OBVIOUS
<1> HIDE DEF row, s, f, g, new, added
<1>10. IsList(f) /\ Len(f) = Len(new) /\ IsList(g)
  <2>1. /\ Len(new) \in Nat /\ DOMAIN new = 1..Len(new)
        /\ Len(added) \in Nat /\ DOMAIN added = 1..Len(added)
    BY <1>3, ListIs
  <2>2. /\ f = [n \in 1..Len(new) |-> f[n]]
        /\ g = [n \in 1..Len(added) |-> g[n]]
    BY <1>9, <2>1
  <2> QED BY <2>1, <2>2, ListMade
<1>11. /\ IsList(items') /\ Len(items') = Len(items) + Len(new)
       /\ \A n \in DOMAIN items : n \in DOMAIN items' /\ items'[n] = items[n]
       /\ \A n \in DOMAIN new :
            /\ Len(items) + n \in DOMAIN items' \ DOMAIN items
                                /\ items'[Len(items) + n] = row(n)
       /\ \A n \in DOMAIN items' \ DOMAIN items :
            \E k \in DOMAIN new : n = Len(items) + k
  <2>1. /\ IsList(items \o f) /\ Len(items \o f) = Len(items) + Len(f)
        /\ DOMAIN items \subseteq DOMAIN (items \o f)
        /\ \A n \in DOMAIN items : (items \o f)[n] = items[n]
        /\ \A n \in DOMAIN f :
             /\ Len(items) + n \in DOMAIN (items \o f)
             /\ Len(items) + n \notin DOMAIN items
             /\ (items \o f)[Len(items) + n] = f[n]
        /\ \A n \in DOMAIN (items \o f) \ DOMAIN items :
             \E k \in DOMAIN f : n = Len(items) + k
    BY <1>4, <1>10, Joined
  <2> QED BY <1>5, <1>8, <1>10, <2>1
<1>12. /\ IsList(sentences')
       /\ \A n \in DOMAIN sentences :
            n \in DOMAIN sentences' /\ sentences'[n] = sentences[n]
       /\ \A n \in DOMAIN added :
            /\ Len(sentences) + n \in DOMAIN sentences' \ DOMAIN sentences
            /\ sentences'[Len(sentences) + n] = s(n)
       /\ \A n \in DOMAIN sentences' \ DOMAIN sentences :
            \E k \in DOMAIN added : n = Len(sentences) + k
  <2>1. /\ IsList(sentences \o g)
        /\ Len(sentences \o g) = Len(sentences) + Len(g)
        /\ DOMAIN sentences \subseteq DOMAIN (sentences \o g)
        /\ \A n \in DOMAIN sentences : (sentences \o g)[n] = sentences[n]
        /\ \A n \in DOMAIN g :
             /\ Len(sentences) + n \in DOMAIN (sentences \o g)
             /\ Len(sentences) + n \notin DOMAIN sentences
             /\ (sentences \o g)[Len(sentences) + n] = g[n]
        /\ \A n \in DOMAIN (sentences \o g) \ DOMAIN sentences :
             \E k \in DOMAIN g : n = Len(sentences) + k
    BY <1>4, <1>10, Joined
  <2> QED BY <1>7, <1>8, <1>10, <2>1
<1>13. \A n : \E ruby : s(n) = SentenceRow(r.lang, added[n], added[n].id,
                                          RowsOfFile(r), ruby)
  BY DEF s
<1> QED BY <1>1, <1>2, <1>11, <1>12, <1>13 DEF new, added, row

LEMMA RowsLoadCommits ==
  ASSUME RowsInv, NEW p \in Scripts, LoadCommits(p)
  PROVE  RowsInv' /\ Kept(items, items', sentences, sentences')
<1> DEFINE r == run[p]
           new == NewItems(r)
           added == NewSentences(r)
<1>1. /\ Loads(r)
      /\ IsList(items')
      /\ \A n \in DOMAIN items : n \in DOMAIN items' /\ items'[n] = items[n]
      /\ \A n \in DOMAIN new :
           items'[Len(items) + n]
             = ItemRow(r.lang, new[n], new[n].id, r.order + n)
      /\ \A n \in DOMAIN items' \ DOMAIN items :
           \E k \in DOMAIN new : n = Len(items) + k
      /\ IsList(sentences')
      /\ \A n \in DOMAIN sentences :
           n \in DOMAIN sentences' /\ sentences'[n] = sentences[n]
      /\ \A n \in DOMAIN added :
           \E ruby : sentences'[Len(sentences) + n]
             = SentenceRow(r.lang, added[n], added[n].id, RowsOfFile(r), ruby)
      /\ \A n \in DOMAIN sentences' \ DOMAIN sentences :
           \E k \in DOMAIN added : n = Len(sentences) + k
      /\ Becomes(p, Idle)
  BY LoadWrites
<1> HIDE DEF r, new, added
<1>2. Kept(items, items', sentences, sentences')
  BY <1>1 DEF Kept, KeptItem, KeptSentence
<1>3. \A n \in DOMAIN items' : ItemShape(items'[n])
  <2> TAKE n \in DOMAIN items'
  <2>1. CASE n \in DOMAIN items
    BY <1>1, <2>1 DEF RowsInv, RowsAre
  <2>2. CASE n \notin DOMAIN items
    <3>1. PICK k \in DOMAIN new : n = Len(items) + k BY <1>1, <2>2
    <3>2. \E l, e, seed, order : items'[n] = ItemRow(l, e, seed, order)
      BY <1>1, <3>1
    <3> QED BY <3>2 DEF ItemRow, ItemShape
  <2> QED BY <2>1, <2>2
<1>4. \A n \in DOMAIN sentences' : SentenceShape(sentences'[n])
  <2> TAKE n \in DOMAIN sentences'
  <2>1. CASE n \in DOMAIN sentences
    BY <1>1, <2>1 DEF RowsInv, RowsAre
  <2>2. CASE n \notin DOMAIN sentences
    <3>1. PICK k \in DOMAIN added : n = Len(sentences) + k BY <1>1, <2>2
    <3>2. \E l, e, seed, ids, ruby :
            sentences'[n] = SentenceRow(l, e, seed, ids, ruby)
      BY <1>1, <3>1
    <3> QED BY <3>2 DEF SentenceRow, SentenceShape
  <2> QED BY <2>1, <2>2
<1>5. RowsAre(items', sentences') BY <1>1, <1>3, <1>4 DEF RowsAre
<1> QED BY <1>1, <1>2, <1>5, RowsWritten

LEMMA KeyedRows ==
  ASSUME NEW rows, IsList(rows), NEW ids
  PROVE  /\ IsList(Keyed(rows, ids)) /\ Len(Keyed(rows, ids)) = Len(rows)
         /\ DOMAIN Keyed(rows, ids) = DOMAIN rows
         /\ \A n \in DOMAIN rows :
              IF n \in DOMAIN ids /\ rows[n].seed = None
              THEN Keyed(rows, ids)[n] = [rows[n] EXCEPT !.seed = ids[n]]
              ELSE Keyed(rows, ids)[n] = rows[n]
<1> DEFINE t == Keyed(rows, ids)
<1>1. Len(rows) \in Nat /\ DOMAIN rows = 1..Len(rows) BY ListIs
<1>2. t = [n \in DOMAIN rows |->
             IF n \in DOMAIN ids /\ rows[n].seed = None
             THEN [rows[n] EXCEPT !.seed = ids[n]] ELSE rows[n]]
  BY DEF Keyed
<1> HIDE DEF t
<1>3. t = [n \in 1..Len(rows) |-> t[n]] BY <1>1, <1>2
<1>4. IsList(t) /\ Len(t) = Len(rows) /\ DOMAIN t = DOMAIN rows
  BY <1>1, <1>3, ListMade
<1> QED BY <1>2, <1>4 DEF t

\* What an id makes of a row.
LEMMA KeyedItem ==
  ASSUME NEW row, ItemShape(row), NEW id
  PROVE  [row EXCEPT !.seed = id]
           = [lang |-> row.lang, seed |-> id, lemma |-> row.lemma,
              reading |-> row.reading, order |-> row.order]
<1>1. PICK l, seed, lemma, reading, order :
        row = [lang |-> l, seed |-> seed, lemma |-> lemma,
               reading |-> reading, order |-> order]
  BY DEF ItemShape
<1>2. row.lang = l /\ row.lemma = lemma /\ row.reading = reading
      /\ row.order = order
  BY <1>1
<1>3. [row EXCEPT !.seed = id]
        = [lang |-> l, seed |-> id, lemma |-> lemma,
           reading |-> reading, order |-> order]
  BY <1>1
<1> QED BY <1>2, <1>3

LEMMA KeyedSentence ==
  ASSUME NEW s, SentenceShape(s), NEW id
  PROVE  /\ [s EXCEPT !.seed = id]
              = [lang |-> s.lang, source |-> s.source, seed |-> id,
                 text |-> s.text, ruby |-> s.ruby, uses |-> s.uses]
         /\ [s EXCEPT !.ruby = id]
              = [lang |-> s.lang, source |-> s.source, seed |-> s.seed,
                 text |-> s.text, ruby |-> id, uses |-> s.uses]
<1>1. PICK l, source, seed, text, ruby, uses :
        s = [lang |-> l, source |-> source, seed |-> seed, text |-> text,
             ruby |-> ruby, uses |-> uses]
  BY DEF SentenceShape
<1>2. /\ s.lang = l /\ s.source = source /\ s.seed = seed /\ s.text = text
      /\ s.ruby = ruby /\ s.uses = uses
  BY <1>1
<1>3. [s EXCEPT !.seed = id]
        = [lang |-> l, source |-> source, seed |-> id, text |-> text,
           ruby |-> ruby, uses |-> uses]
  BY <1>1
<1>4. [s EXCEPT !.ruby = id]
        = [lang |-> l, source |-> source, seed |-> seed, text |-> text,
           ruby |-> id, uses |-> uses]
  BY <1>1
<1> QED BY <1>2, <1>3, <1>4

\* The tables after a backfill of ids.
LEMMA BackfillKeysRows ==
  ASSUME RowsInv, NEW p \in Scripts, BackfillWrites(p)
  PROVE  LET r == run[p] IN
         /\ Backfills(r) /\ r.at = "keying"
         /\ RowsAre(items', sentences')
         /\ Kept(items, items', sentences, sentences')
         /\ DOMAIN items' = DOMAIN items /\ Len(items') = Len(items)
         /\ \A n \in DOMAIN items :
              items'[n].seed = IF n \in DOMAIN r.ids /\ items[n].seed = None
                               THEN r.ids[n] ELSE items[n].seed
         /\ DOMAIN sentences' = DOMAIN sentences
         /\ \A n \in DOMAIN sentences :
              sentences'[n].seed =
                IF n \in DOMAIN r.keys /\ sentences[n].seed = None
                THEN r.keys[n] ELSE sentences[n].seed
         /\ Becomes(p, Idle)
<1> DEFINE r == run[p]
<1>1. r.at = "keying" /\ Becomes(p, Idle) BY DEF BackfillWrites, Is
<1>2. Backfills(r) BY <1>1, ScriptAt DEF RowsInv, BackfillSteps
<1>3. /\ items' = Keyed(items, r.ids) /\ sentences' = Keyed(sentences, r.keys)
  BY DEF BackfillWrites
<1> HIDE DEF r
<1>4. /\ IsList(items) /\ \A n \in DOMAIN items : ItemShape(items[n])
      /\ IsList(sentences)
      /\ \A n \in DOMAIN sentences : SentenceShape(sentences[n])
  BY DEF RowsInv, RowsAre
<1>5. /\ IsList(items') /\ DOMAIN items' = DOMAIN items
      /\ Len(items') = Len(items)
      /\ IsList(sentences') /\ DOMAIN sentences' = DOMAIN sentences
  BY <1>3, <1>4, KeyedRows
<1>6. ASSUME NEW n \in DOMAIN items
      PROVE  /\ ItemShape(items'[n]) /\ KeptItem(items[n], items'[n])
             /\ items'[n].seed = IF n \in DOMAIN r.ids /\ items[n].seed = None
                                 THEN r.ids[n] ELSE items[n].seed
  <2>1. CASE n \in DOMAIN r.ids /\ items[n].seed = None
    <3>1. items'[n] = [items[n] EXCEPT !.seed = r.ids[n]]
      BY <1>3, <1>4, <2>1, KeyedRows
    <3>2. items'[n] = [lang |-> items[n].lang, seed |-> r.ids[n],
                       lemma |-> items[n].lemma, reading |-> items[n].reading,
                       order |-> items[n].order]
      BY <1>4, <3>1, KeyedItem
    <3> QED BY <2>1, <3>2 DEF ItemShape, KeptItem
  <2>2. CASE ~(n \in DOMAIN r.ids /\ items[n].seed = None)
    <3>1. items'[n] = items[n] BY <1>3, <1>4, <2>2, KeyedRows
    <3> QED BY <1>4, <2>2, <3>1 DEF KeptItem
  <2> QED BY <2>1, <2>2
<1>7. ASSUME NEW n \in DOMAIN sentences
      PROVE  /\ SentenceShape(sentences'[n])
             /\ KeptSentence(sentences[n], sentences'[n])
             /\ sentences'[n].seed =
                  IF n \in DOMAIN r.keys /\ sentences[n].seed = None
                  THEN r.keys[n] ELSE sentences[n].seed
  <2>1. CASE n \in DOMAIN r.keys /\ sentences[n].seed = None
    <3> DEFINE s == sentences[n]
    <3>1. sentences'[n] = [s EXCEPT !.seed = r.keys[n]]
      BY <1>3, <1>4, <2>1, KeyedRows
    <3>2. sentences'[n] = [lang |-> s.lang, source |-> s.source,
                           seed |-> r.keys[n], text |-> s.text,
                           ruby |-> s.ruby, uses |-> s.uses]
      BY <1>4, <3>1, KeyedSentence
    <3> QED BY <2>1, <3>2 DEF SentenceShape, KeptSentence
  <2>2. CASE ~(n \in DOMAIN r.keys /\ sentences[n].seed = None)
    <3>1. sentences'[n] = sentences[n] BY <1>3, <1>4, <2>2, KeyedRows
    <3> QED BY <1>4, <2>2, <3>1 DEF KeptSentence
  <2> QED BY <2>1, <2>2
<1>8. RowsAre(items', sentences') BY <1>5, <1>6, <1>7 DEF RowsAre
<1>9. Kept(items, items', sentences, sentences')
  BY <1>5, <1>6, <1>7 DEF Kept
<1> QED BY <1>1, <1>2, <1>5, <1>6, <1>7, <1>8, <1>9 DEF r

\* The tables after a backfill of furigana.
LEMMA RubyAdds ==
  ASSUME RowsInv, NEW p \in Scripts, RubyWrites(p)
  PROVE  /\ RowsAre(items', sentences')
         /\ Kept(items, items', sentences, sentences')
         /\ items' = items /\ DOMAIN sentences' = DOMAIN sentences
         /\ \A n \in DOMAIN sentences : sentences'[n].seed = sentences[n].seed
         /\ Becomes(p, Idle)
<1> DEFINE c == run[p].computed
<1>1. /\ Becomes(p, Idle) /\ items' = items
      /\ sentences' = [n \in DOMAIN sentences |->
           IF n \in c /\ sentences[n].ruby = None
           THEN [sentences[n] EXCEPT !.ruby = p] ELSE sentences[n]]
  BY DEF RubyWrites
<1> HIDE DEF c
<1>2. /\ RowsAre(items, sentences) /\ IsList(sentences)
      /\ \A n \in DOMAIN sentences : SentenceShape(sentences[n])
  BY DEF RowsInv, RowsAre
<1>3. Len(sentences) \in Nat /\ DOMAIN sentences = 1..Len(sentences)
  BY <1>2, ListIs
<1>4. DOMAIN sentences' = DOMAIN sentences
      /\ sentences' = [n \in 1..Len(sentences) |-> sentences'[n]]
  BY <1>1, <1>3
<1>5. IsList(sentences') BY <1>3, <1>4, ListMade
<1>6. ASSUME NEW n \in DOMAIN sentences
      PROVE  /\ SentenceShape(sentences'[n])
             /\ KeptSentence(sentences[n], sentences'[n])
             /\ sentences'[n].seed = sentences[n].seed
  <2>1. CASE n \in c /\ sentences[n].ruby = None
    <3> DEFINE s == sentences[n]
    <3>1. sentences'[n] = [s EXCEPT !.ruby = p] BY <1>1, <2>1
    <3>2. sentences'[n] = [lang |-> s.lang, source |-> s.source,
                           seed |-> s.seed, text |-> s.text,
                           ruby |-> p, uses |-> s.uses]
      BY <1>2, <3>1, KeyedSentence
    <3> QED BY <2>1, <3>2 DEF SentenceShape, KeptSentence
  <2>2. CASE ~(n \in c /\ sentences[n].ruby = None)
    <3>1. sentences'[n] = sentences[n] BY <1>1, <2>2
    <3> QED BY <1>2, <3>1 DEF KeptSentence
  <2> QED BY <2>1, <2>2
<1>7. RowsAre(items', sentences') BY <1>1, <1>2, <1>4, <1>5, <1>6 DEF RowsAre
<1>8. Kept(items, items', sentences, sentences')
  BY <1>1, <1>4, <1>6 DEF Kept, KeptItem
<1> QED BY <1>1, <1>4, <1>6, <1>7, <1>8

\* The tables after a sentence of the worker.
LEMMA WorkerAdds ==
  ASSUME RowsInv, NEW l, NEW text, WorkerStores(l, text)
  PROVE  /\ RowsAre(items', sentences')
         /\ Kept(items, items', sentences, sentences')
         /\ items' = items /\ run' = run
         /\ \A n \in DOMAIN sentences :
              n \in DOMAIN sentences' /\ sentences'[n] = sentences[n]
         /\ \A n \in DOMAIN sentences' \ DOMAIN sentences :
              /\ sentences'[n].source = "generated"
              /\ sentences'[n].lang = l /\ sentences'[n].seed = None
<1>1. /\ items' = items /\ run' = run
      /\ \E ruby : sentences' = Append(sentences,
              [lang |-> l, source |-> "generated", seed |-> None,
               text |-> text, uses |-> <<>>, ruby |-> ruby])
  BY DEF WorkerStores
<1>2. PICK s : /\ sentences' = Append(sentences, s)
               /\ \E ruby : s = [lang |-> l, source |-> "generated",
                                 seed |-> None, text |-> text, uses |-> <<>>,
                                 ruby |-> ruby]
  BY <1>1
<1>3. /\ SentenceShape(s) /\ s.source = "generated"
      /\ s.lang = l /\ s.seed = None
  BY <1>2 DEF SentenceShape
<1>4. /\ RowsAre(items, sentences) /\ IsList(sentences)
      /\ \A n \in DOMAIN sentences : SentenceShape(sentences[n])
  BY DEF RowsInv, RowsAre
<1>5. /\ IsList(sentences')
      /\ \A n \in DOMAIN sentences :
           n \in DOMAIN sentences' /\ sentences'[n] = sentences[n]
      /\ \A n \in DOMAIN sentences' \ DOMAIN sentences : sentences'[n] = s
  <2> DEFINE E == Entries(sentences) \cup {s}
  <2>1. /\ sentences = [n \in 1..Len(sentences) |-> sentences[n]]
        /\ Len(sentences) \in Nat /\ DOMAIN sentences = 1..Len(sentences)
    BY <1>4, ListIs
  <2>2. \A n \in 1..Len(sentences) : sentences[n] \in E BY <2>1 DEF Entries
  <2>3. s \in E OBVIOUS
  <2> HIDE DEF E
  <2>4. sentences \in Seq(E) BY <2>1, <2>2
  <2>5. /\ Len(sentences') = Len(sentences) + 1
        /\ sentences' \in Seq(E) /\ sentences'[Len(sentences) + 1] = s
        /\ \A n \in 1..Len(sentences) : sentences'[n] = sentences[n]
    BY <1>2, <2>3, <2>4
  <2>6. /\ DOMAIN sentences' = 1..(Len(sentences) + 1)
        /\ sentences' = [n \in 1..(Len(sentences) + 1) |-> sentences'[n]]
    BY <2>5
  <2>7. IsList(sentences') BY <2>1, <2>6, ListMade
  <2> QED BY <2>1, <2>5, <2>6, <2>7
<1>6. \A n \in DOMAIN sentences' : SentenceShape(sentences'[n])
  BY <1>3, <1>4, <1>5
<1>7. RowsAre(items', sentences')
  BY <1>1, <1>4, <1>5, <1>6 DEF RowsAre
<1>8. Kept(items, items', sentences, sentences')
  BY <1>1, <1>5 DEF Kept, KeptItem, KeptSentence
<1> QED BY <1>1, <1>3, <1>5, <1>7, <1>8

LEMMA RowsInit == SeedInit => RowsInv
<1> SUFFICES ASSUME SeedInit PROVE RowsInv
  OBVIOUS
<1>1. /\ run = [p \in Scripts |-> run[p]]
      /\ \A p \in Scripts : ScriptIs(run[p])
  BY DEF SeedInit, ScriptIs
<1>2. CASE items = <<>> /\ sentences = <<>>
  <2>1. RowsAre(<<>>, <<>>) BY DEF RowsAre, IsList
  <2> QED BY <1>1, <1>2, <2>1 DEF RowsInv
<1>3. ASSUME NEW dir \in Legacy, Unkeyed(dir)
      PROVE  RowsInv
  <2>1. IsList(dir.items) /\ IsList(dir.sentences)
    BY LegacyAssumption, FilesAssumption DEF Langs
  <2>2. /\ Len(dir.items) \in Nat /\ DOMAIN dir.items = 1..Len(dir.items)
        /\ Len(dir.sentences) \in Nat
        /\ DOMAIN dir.sentences = 1..Len(dir.sentences)
    BY <2>1, ListIs
  <2>3. /\ items = [n \in 1..Len(dir.items) |-> items[n]]
        /\ \A n \in 1..Len(dir.items) :
             items[n] = ItemRow(Japanese, dir.items[n], None, n)
        /\ sentences = [n \in 1..Len(dir.sentences) |-> sentences[n]]
        /\ \A n \in 1..Len(dir.sentences) : \E ids :
             sentences[n] = SentenceRow(Japanese, dir.sentences[n], None, ids,
                                        None)
    <3> DEFINE ids == [id \in Ids(dir.items) |->
                         CHOOSE n \in DOMAIN dir.items : dir.items[n].id = id]
               row(n) == ItemRow(Japanese, dir.items[n], None, n)
               s(n) == SentenceRow(Japanese, dir.sentences[n], None, ids, None)
    <3>1. /\ items = [n \in 1..Len(dir.items) |-> row(n)]
          /\ sentences = [n \in 1..Len(dir.sentences) |-> s(n)]
      BY <1>3, <2>2 DEF Unkeyed
    <3>2. \A n : \E x : s(n) = SentenceRow(Japanese, dir.sentences[n], None, x,
                                           None)
      OBVIOUS
    <3> HIDE DEF row, s
    <3>3. /\ items = [n \in 1..Len(dir.items) |-> items[n]]
          /\ \A n \in 1..Len(dir.items) : items[n] = row(n)
          /\ sentences = [n \in 1..Len(dir.sentences) |-> sentences[n]]
          /\ \A n \in 1..Len(dir.sentences) : sentences[n] = s(n)
      BY <3>1
    <3> QED BY <3>2, <3>3 DEF row
  <2>4. IsList(items) /\ IsList(sentences) BY <2>2, <2>3, ListMade
  <2>5. \A n \in DOMAIN items : ItemShape(items[n])
    <3> TAKE n \in DOMAIN items
    <3>1. \E l, e, seed, order : items[n] = ItemRow(l, e, seed, order)
      BY <2>3
    <3> QED BY <3>1 DEF ItemRow, ItemShape
  <2>6. \A n \in DOMAIN sentences : SentenceShape(sentences[n])
    <3> TAKE n \in DOMAIN sentences
    <3>1. \E l, e, seed, ids, ruby :
            sentences[n] = SentenceRow(l, e, seed, ids, ruby)
      BY <2>3
    <3> QED BY <3>1 DEF SentenceRow, SentenceShape
  <2> QED BY <1>1, <2>4, <2>5, <2>6 DEF RowsInv, RowsAre
<1> QED BY <1>2, <1>3 DEF SeedInit

LEMMA RowsNext ==
  ASSUME RowsInv, SeedNext
  PROVE  RowsInv' /\ Kept(items, items', sentences, sentences')
<1>1. ASSUME NEW p \in Scripts, Load(p)
      PROVE  RowsInv' /\ Kept(items, items', sentences, sentences')
  BY <1>1, RowsLoadReads, RowsLoadCommits DEF Load
<1>2. ASSUME NEW p \in Scripts, Backfill(p)
      PROVE  RowsInv' /\ Kept(items, items', sentences, sentences')
  <2>1. CASE BackfillWrites(p)
    BY <2>1, BackfillKeysRows, RowsWritten
  <2>2. CASE ~BackfillWrites(p)
    BY <1>2, <2>2, RowsBackfillReads DEF Backfill
  <2> QED BY <2>1, <2>2
<1>3. ASSUME NEW p \in Scripts,
             (\E apply \in BOOLEAN : RubyStarts(p, apply))
               \/ RubyWrites(p) \/ Stops(p)
      PROVE  RowsInv' /\ Kept(items, items', sentences, sentences')
  BY <1>3, RowsRubyStarts, RubyAdds, RowsWritten, RowsStops
<1>4. ASSUME NEW l \in Langs, NEW text \in WorkerTexts[l], WorkerStores(l, text)
      PROVE  RowsInv' /\ Kept(items, items', sentences, sentences')
  <2>1. /\ RowsAre(items', sentences') /\ UNCHANGED run
        /\ Kept(items, items', sentences, sentences')
    BY <1>4, WorkerAdds
  <2> QED BY <2>1 DEF RowsInv
<1> QED BY <1>1, <1>2, <1>3, <1>4 DEF SeedNext

LEMMA RowsAlways == SeedSpec => []RowsInv
<1>1. RowsInv /\ [SeedNext]_seedVars => RowsInv'
  <2>1. ASSUME RowsInv, UNCHANGED seedVars PROVE RowsInv'
    BY <2>1 DEF RowsInv, seedVars
  <2> QED BY <2>1, RowsNext
<1> QED BY <1>1, RowsInit, PTL DEF SeedSpec

\* A row that a step keeps is the same but for what was missing.
LEMMA KeptIsSame ==
  /\ \A row, row2 : ItemShape(row) /\ ItemShape(row2) /\ KeptItem(row, row2)
       => /\ [row2 EXCEPT !.seed = None] = [row EXCEPT !.seed = None]
          /\ row.seed \in {None, row2.seed}
  /\ \A s, s2 :
       SentenceShape(s) /\ SentenceShape(s2) /\ KeptSentence(s, s2)
       => /\ [s2 EXCEPT !.seed = None, !.ruby = None]
               = [s EXCEPT !.seed = None, !.ruby = None]
          /\ s.seed \in {None, s2.seed} /\ s.ruby \in {None, s2.ruby}
<1>1. ASSUME NEW row, NEW row2, ItemShape(row), ItemShape(row2),
             KeptItem(row, row2)
      PROVE  /\ [row2 EXCEPT !.seed = None] = [row EXCEPT !.seed = None]
             /\ row.seed \in {None, row2.seed}
  BY <1>1, KeyedItem DEF KeptItem
<1>2. ASSUME NEW s, SentenceShape(s)
      PROVE  [s EXCEPT !.seed = None, !.ruby = None]
               = [lang |-> s.lang, source |-> s.source, seed |-> None,
                  text |-> s.text, ruby |-> None, uses |-> s.uses]
  <2> DEFINE t == [s EXCEPT !.seed = None]
  <2>1. t = [lang |-> s.lang, source |-> s.source, seed |-> None,
             text |-> s.text, ruby |-> s.ruby, uses |-> s.uses]
    BY <1>2, KeyedSentence
  <2>2. [s EXCEPT !.seed = None, !.ruby = None] = [t EXCEPT !.ruby = None]
    OBVIOUS
  <2> HIDE DEF t
  <2>3. [t EXCEPT !.ruby = None]
          = [lang |-> s.lang, source |-> s.source, seed |-> None,
             text |-> s.text, ruby |-> None, uses |-> s.uses]
    BY <2>1
  <2> QED BY <2>2, <2>3
<1>3. ASSUME NEW s, NEW s2, SentenceShape(s), SentenceShape(s2),
             KeptSentence(s, s2)
      PROVE  /\ [s2 EXCEPT !.seed = None, !.ruby = None]
                  = [s EXCEPT !.seed = None, !.ruby = None]
             /\ s.seed \in {None, s2.seed} /\ s.ruby \in {None, s2.ruby}
  BY <1>2, <1>3 DEF KeptSentence
<1> QED BY <1>1, <1>3

\* A row of the tables is never removed or changed, only completed: whatever
\* the files hold, and however loads, backfills and the worker overlap.
THEOREM RowsAreCompleted == SeedSpec => RowsStay
<1>1. ASSUME RowsInv, RowsInv', Kept(items, items', sentences, sentences')
      PROVE  /\ \A n \in DOMAIN items :
                  /\ n \in DOMAIN items'
                  /\ [items'[n] EXCEPT !.seed = None]
                         = [items[n] EXCEPT !.seed = None]
                  /\ items[n].seed \in {None, items'[n].seed}
             /\ \A n \in DOMAIN sentences :
                  /\ n \in DOMAIN sentences'
                  /\ [sentences'[n] EXCEPT !.seed = None, !.ruby = None]
                         = [sentences[n] EXCEPT !.seed = None, !.ruby = None]
                  /\ sentences[n].seed \in {None, sentences'[n].seed}
                  /\ sentences[n].ruby \in {None, sentences'[n].ruby}
  <2>1. /\ \A n \in DOMAIN items : ItemShape(items[n])
        /\ \A n \in DOMAIN items' : ItemShape(items'[n])
        /\ \A n \in DOMAIN sentences : SentenceShape(sentences[n])
        /\ \A n \in DOMAIN sentences' : SentenceShape(sentences'[n])
    BY <1>1 DEF RowsInv, RowsAre
  <2> QED BY <1>1, <2>1, KeptIsSame DEF Kept
<1>2. RowsInv /\ RowsInv' /\ SeedNext =>
        Kept(items, items', sentences, sentences')
  BY RowsNext
<1>3. SeedSpec => []RowsInv BY RowsAlways
<1>4. RowsInv /\ RowsInv' /\ [SeedNext]_seedVars =>
        [/\ \A n \in DOMAIN items :
              /\ n \in DOMAIN items'
              /\ [items'[n] EXCEPT !.seed = None]
                     = [items[n] EXCEPT !.seed = None]
              /\ items[n].seed \in {None, items'[n].seed}
         /\ \A n \in DOMAIN sentences :
              /\ n \in DOMAIN sentences'
              /\ [sentences'[n] EXCEPT !.seed = None, !.ruby = None]
                     = [sentences[n] EXCEPT !.seed = None, !.ruby = None]
              /\ sentences[n].seed \in {None, sentences'[n].seed}
              /\ sentences[n].ruby \in {None, sentences'[n].ruby}
        ]_seedVars
  BY <1>1, <1>2
<1> QED BY <1>3, <1>4, PTL DEF SeedSpec, RowsStay

-----------------------------------------------------------------------------
(* What a script has read, when rows have been added and completed *)

Grown(its, its2, ss, ss2) ==
  /\ Kept(its, its2, ss, ss2)
  /\ IsList(its) /\ IsList(its2) /\ Len(its) <= Len(its2)
  /\ \A n \in DOMAIN its2 \ DOMAIN its : its2[n].seed # None
  /\ \A k \in Seeds(ss2) \ DOMAIN ss : ss2[k].seed # None

LEMMA GrownIds ==
  ASSUME NEW its, NEW its2, NEW ss, NEW ss2, Grown(its, its2, ss, ss2)
  PROVE  /\ SeedIds(its) \subseteq SeedIds(its2)
         /\ SeedIds(ss) \subseteq SeedIds(ss2)
         /\ Seeds(ss) \subseteq Seeds(ss2)
         /\ Keyless(its2, ss2) => Keyless(its, ss)
<1>1. ASSUME NEW id \in SeedIds(its) PROVE id \in SeedIds(its2)
  <2>1. PICK n \in DOMAIN its : its[n].seed = id /\ id # None
    BY <1>1 DEF SeedIds
  <2>2. n \in DOMAIN its2 /\ its2[n].seed = id
    BY <2>1 DEF Grown, Kept, KeptItem
  <2> QED BY <2>1, <2>2 DEF SeedIds
<1>2. ASSUME NEW id \in SeedIds(ss) PROVE id \in SeedIds(ss2)
  <2>1. PICK n \in DOMAIN ss : ss[n].seed = id /\ id # None
    BY <1>2 DEF SeedIds
  <2>2. n \in DOMAIN ss2 /\ ss2[n].seed = id
    BY <2>1 DEF Grown, Kept, KeptSentence
  <2> QED BY <2>1, <2>2 DEF SeedIds
<1>3. Seeds(ss) \subseteq Seeds(ss2)
  BY DEF Grown, Kept, KeptSentence, Seeds
<1>4. ASSUME NEW n \in DOMAIN its2, its2[n].seed = None PROVE Keyless(its, ss)
  <2>1. n \in DOMAIN its /\ its[n].seed = None
    BY <1>4 DEF Grown, Kept, KeptItem
  <2> QED BY <2>1 DEF Keyless
<1>5. ASSUME NEW k \in Seeds(ss2), ss2[k].seed = None PROVE Keyless(its, ss)
  <2>1. k \in DOMAIN ss BY <1>5 DEF Grown
  <2>2. k \in Seeds(ss) /\ ss[k].seed = None
    BY <1>5, <2>1 DEF Grown, Kept, KeptSentence, Seeds
  <2> QED BY <2>2 DEF Keyless
<1> QED BY <1>1, <1>2, <1>3, <1>4, <1>5 DEF Keyless

LEMMA GrownKeepsLoads ==
  ASSUME NEW its, NEW its2, NEW ss, NEW ss2, Grown(its, its2, ss, ss2),
         NEW r, Loading(r, its, ss)
  PROVE  Loading(r, its2, ss2)
<1>1. /\ SeedIds(its) \subseteq SeedIds(its2)
      /\ SeedIds(ss) \subseteq SeedIds(ss2)
  BY GrownIds
<1>2. ASSUME NEW id \in DOMAIN r.rows
      PROVE  r.rows[id] \in DOMAIN its2 /\ its2[r.rows[id]].seed = id
  <2>1. /\ r.rows[id] \in DOMAIN its /\ its[r.rows[id]].seed = id
        /\ id \in SeedIds(its)
    BY DEF Loading
  <2>2. id # None BY <2>1 DEF SeedIds
  <2> QED BY <2>1, <2>2 DEF Grown, Kept, KeptItem
<1>3. r.order \in 0..Len(its2)
  <2>1. Len(its) \in Nat /\ Len(its2) \in Nat /\ Len(its) <= Len(its2)
    BY ListIs DEF Grown
  <2> QED BY <2>1 DEF Loading
<1> QED BY <1>1, <1>2, <1>3 DEF Loading

LEMMA GrownKeepsBackfills ==
  ASSUME NEW its, NEW its2, NEW ss, NEW ss2, Grown(its, its2, ss, ss2),
         NEW r, Backfilling(r, its, ss)
  PROVE  Backfilling(r, its2, ss2)
<1>1. ASSUME IdsFit(r, its) PROVE IdsFit(r, its2)
  <2> SUFFICES ASSUME NEW n \in DOMAIN r.ids
               PROVE  /\ n \in DOMAIN its2
                      /\ \E e \in ItemEntries(its2[n].lang) :
                           /\ e.id = r.ids[n] /\ e.lemma = its2[n].lemma
                           /\ e.reading = its2[n].reading
    BY DEF IdsFit
  <2>1. n \in DOMAIN its BY <1>1 DEF IdsFit
  <2>2. /\ n \in DOMAIN its2 /\ its2[n].lang = its[n].lang
        /\ its2[n].lemma = its[n].lemma /\ its2[n].reading = its[n].reading
    BY <2>1 DEF Grown, Kept, KeptItem
  <2> QED BY <1>1, <2>2 DEF IdsFit
<1>2. ASSUME IdsReach(r, its) PROVE IdsReach(r, its2)
  <2> SUFFICES ASSUME NEW n \in DOMAIN its2, its2[n].seed = None
               PROVE  n \in DOMAIN r.ids
    BY DEF IdsReach
  <2>1. n \in DOMAIN its /\ its[n].seed = None
    BY DEF Grown, Kept, KeptItem
  <2> QED BY <1>2, <2>1 DEF IdsReach
<1>3. ASSUME KeysFit(r, ss) PROVE KeysFit(r, ss2)
  <2> SUFFICES ASSUME NEW k \in DOMAIN r.keys
               PROVE  /\ k \in Seeds(ss2)
                      /\ \E e \in SentenceEntries(ss2[k].lang) :
                           e.id = r.keys[k] /\ e.text = ss2[k].text
    BY DEF KeysFit
  <2>1. k \in Seeds(ss) BY <1>3 DEF KeysFit
  <2>2. /\ k \in Seeds(ss2) /\ ss2[k].lang = ss[k].lang
        /\ ss2[k].text = ss[k].text
    BY <2>1 DEF Grown, Kept, KeptSentence, Seeds
  <2> QED BY <1>3, <2>2 DEF KeysFit
<1>4. ASSUME KeysReach(r, ss) PROVE KeysReach(r, ss2)
  <2> SUFFICES ASSUME NEW k \in Seeds(ss2), ss2[k].seed = None
               PROVE  k \in DOMAIN r.keys
    BY DEF KeysReach
  <2>1. k \in DOMAIN ss BY DEF Grown
  <2>2. k \in Seeds(ss) /\ ss[k].seed = None
    BY <2>1 DEF Grown, Kept, KeptSentence, Seeds
  <2> QED BY <1>4, <2>2 DEF KeysReach
<1>5. Keyless(its2, ss2) => Keyless(its, ss) BY GrownIds
<1> QED BY <1>1, <1>2, <1>3, <1>4, <1>5 DEF Backfilling

\* A load that cannot insert, or goes on from the greatest order, when no item
\* is added.
LEMMA GrownKeepsAhead ==
  ASSUME NEW its, NEW its2, NEW ss, NEW ss2, Grown(its, its2, ss, ss2),
         DOMAIN its2 = DOMAIN its, NEW r, Ahead(r, its)
  PROVE  Ahead(r, its2)
<1>1. SeedIds(its) \subseteq SeedIds(its2) BY GrownIds
<1>2. \A n \in DOMAIN its : /\ its2[n].lang = its[n].lang
                            /\ its2[n].order = its[n].order
  BY DEF Grown, Kept, KeptItem
<1> QED BY <1>1, <1>2 DEF Ahead

\* What a script knows stays true of tables that have grown, if it does for
\* the order that a load goes on from.
LEMMA GrownKeepsScripts ==
  ASSUME NEW its, NEW its2, NEW ss, NEW ss2, Grown(its, its2, ss, ss2),
         NEW r, ScriptFits(r, its, ss),
         r.at \in LoadSteps /\ Loading(r, its, ss) /\ Ahead(r, its)
           => Ahead(r, its2)
  PROVE  ScriptFits(r, its2, ss2)
<1>1. Keyless(its2, ss2) => Keyless(its, ss) BY GrownIds
<1>2. ASSUME r.at \in LoadSteps
      PROVE  Loading(r, its2, ss2) /\ LoadReady(r, its2, ss2)
  <2>1. Loading(r, its, ss) /\ LoadReady(r, its, ss)
    BY <1>2 DEF ScriptFits
  <2> QED BY <1>1, <1>2, <2>1, GrownKeepsLoads DEF LoadReady
<1>3. ASSUME r.at \in BackfillSteps
      PROVE  Backfilling(r, its2, ss2)
  BY <1>3, GrownKeepsBackfills DEF ScriptFits
<1> QED BY <1>2, <1>3 DEF ScriptFits

\* A step of a script, or of the worker: it is left to show that the tables are
\* as they should be and that the script is where it should be.
LEMMA SeedStep ==
  ASSUME SeedInv, RowsInv', Tables(items', sentences'),
         Grown(items, items', sentences, sentences'),
         \A r : Loads(r) /\ Loading(r, items, sentences) /\ Ahead(r, items)
                  => Ahead(r, items'),
         \/ UNCHANGED run
         \/ \E p \in Scripts : \E r :
              Becomes(p, r) /\ ScriptFits(r, items', sentences')
  PROVE  SeedInv'
<1>1. \A p \in Scripts : ScriptIs(run[p]) BY DEF SeedInv, RowsInv
<1>2. ASSUME NEW q \in Scripts
      PROVE  ScriptFits(run[q], items', sentences')
  <2>1. ScriptFits(run[q], items, sentences) BY DEF SeedInv
  <2>2. run[q].at \in LoadSteps => Loads(run[q]) BY <1>1, ScriptAt
  <2> QED BY <2>1, <2>2, GrownKeepsScripts
<1>3. CASE UNCHANGED run
  BY <1>2, <1>3 DEF SeedInv
<1>4. CASE \E p \in Scripts : \E r :
             Becomes(p, r) /\ ScriptFits(r, items', sentences')
  <2>1. PICK p \in Scripts : \E r : /\ Becomes(p, r)
                                    /\ ScriptFits(r, items', sentences')
    BY <1>4
  <2>2. PICK r : Becomes(p, r) /\ ScriptFits(r, items', sentences')
    BY <2>1
  <2>3. run'[p] = r /\ \A q \in Scripts \ {p} : run'[q] = run[q]
    BY <2>2, RunChanges DEF SeedInv
  <2>4. \A q \in Scripts : ScriptFits(run'[q], items', sentences')
    BY <1>2, <2>2, <2>3
  <2> QED BY <2>4 DEF SeedInv
<1> QED BY <1>3, <1>4

-----------------------------------------------------------------------------
(* What the history of the files says *)

LEMMA FileEntries ==
  ASSUME NEW l \in Langs, NEW dir \in Directories[l]
  PROVE  /\ \A e \in Entries(dir.items) :
              e \in ItemEntries(l) /\ e.id \in Ids(dir.items) /\ e.id # None
         /\ \A id \in Ids(dir.items) : \E e \in Entries(dir.items) : e.id = id
         /\ \A e \in Entries(dir.sentences) :
              /\ e \in SentenceEntries(l) /\ e.id \in Ids(dir.sentences)
              /\ e.id # None
         /\ \A id \in Ids(dir.sentences) :
              \E e \in Entries(dir.sentences) : e.id = id
<1>1. None \notin Ids(dir.items) \cup Ids(dir.sentences)
  BY FilesAssumption
<1> QED BY <1>1 DEF Entries, Ids, ItemEntries, SentenceEntries

LEMMA SameItem ==
  ASSUME OneHistory, NEW l \in Langs, NEW k \in Langs,
         NEW e \in ItemEntries(l), NEW f \in ItemEntries(k)
  PROVE  /\ e.id = f.id => l = k /\ e.lemma = f.lemma
         /\ e.lemma = f.lemma /\ (l = k \/ e.reading = f.reading)
              => e.id = f.id
BY DEF OneHistory

LEMMA SameSentence ==
  ASSUME OneHistory, NEW l \in Langs, NEW k \in Langs,
         NEW e \in SentenceEntries(l), NEW f \in SentenceEntries(k)
  PROVE  /\ e.id = f.id =>
              /\ l = k /\ e.text = f.text /\ DOMAIN e.uses = DOMAIN f.uses
              /\ \A i \in DOMAIN e.uses : e.uses[i].item = f.uses[i].item
         /\ l = k /\ Normal[l][e.text] = Normal[l][f.text] => e.id = f.id
BY DEF OneHistory

\* A row of the table that has the id of an entry is the row of that entry.
LEMMA RowOfItem ==
  ASSUME OneHistory, NEW its, ItemsFit(its), NEW n \in DOMAIN its,
         NEW l \in Langs, NEW e \in ItemEntries(l), its[n].seed = e.id,
         e.id # None
  PROVE  its[n].lang = l /\ its[n].lemma = e.lemma /\ IsItem(its[n], l, e.id)
<1>1. ItemFits(its[n]) BY DEF ItemsFit
<1>2. PICK f \in ItemEntries(its[n].lang) :
        its[n].lemma = f.lemma /\ its[n].seed \in {None, f.id}
  BY <1>1 DEF ItemFits
<1>3. its[n].lang \in Langs BY <1>1 DEF ItemFits
<1>4. f.id = e.id BY <1>2
<1>5. its[n].lang = l /\ f.lemma = e.lemma
  BY <1>3, <1>4, SameItem
<1> QED BY <1>2, <1>5 DEF IsItem

\* A row with the content of an entry has its id, unless it has none.
LEMMA ItemOfRow ==
  ASSUME OneHistory, NEW its, ItemsFit(its), NEW n \in DOMAIN its,
         NEW e \in ItemEntries(its[n].lang), its[n].lemma = e.lemma
  PROVE  \/ its[n].seed = e.id
         \/ its[n].seed = None /\ its[n].lang = Japanese
<1>1. ItemFits(its[n]) BY DEF ItemsFit
<1>2. PICK f \in ItemEntries(its[n].lang) :
        its[n].lemma = f.lemma /\ its[n].seed \in {None, f.id}
  BY <1>1 DEF ItemFits
<1>3. its[n].lang \in Langs BY <1>1 DEF ItemFits
<1> DEFINE l == its[n].lang
<1>4. f.id = e.id
  <2>1. l \in Langs /\ f \in ItemEntries(l) /\ e \in ItemEntries(l)
    BY <1>3
  <2>2. e.lemma = f.lemma BY <1>2
  <2> HIDE DEF l
  <2> QED BY <2>1, <2>2, SameItem
<1> QED BY <1>1, <1>2, <1>4 DEF ItemFits

\* The same of the sentences.
LEMMA RowOfSentence ==
  ASSUME OneHistory, NEW its, NEW ss, SentencesFit(its, ss),
         NEW k \in DOMAIN ss,
         NEW l \in Langs, NEW e \in SentenceEntries(l), ss[k].seed = e.id,
         e.id # None
  PROVE  /\ k \in Seeds(ss) /\ ss[k].lang = l /\ ss[k].text = e.text
         /\ DOMAIN ss[k].uses = DOMAIN e.uses
         /\ \A i \in DOMAIN e.uses :
              /\ ss[k].uses[i].item \in DOMAIN its
              /\ IsItem(its[ss[k].uses[i].item], l, e.uses[i].item)
<1>1. ss[k].lang \in Langs /\ k \in Seeds(ss) /\ SeedFits(ss[k], its)
  BY DEF SentencesFit, Seeds
<1>2. PICK f \in SentenceEntries(ss[k].lang) :
        /\ ss[k].text = f.text /\ ss[k].seed \in {None, f.id}
        /\ UsesFit(ss[k], f, its)
  BY <1>1 DEF SeedFits
<1>3. f.id = e.id BY <1>2
<1>4. /\ ss[k].lang = l /\ f.text = e.text /\ DOMAIN f.uses = DOMAIN e.uses
      /\ \A i \in DOMAIN e.uses : f.uses[i].item = e.uses[i].item
  BY <1>1, <1>3, SameSentence
<1> QED BY <1>1, <1>2, <1>4 DEF UsesFit

LEMMA SentenceOfRow ==
  ASSUME OneHistory, NEW its, NEW ss, SentencesFit(its, ss),
         NEW k \in Seeds(ss), NEW e \in SentenceEntries(ss[k].lang),
         Normal[ss[k].lang][ss[k].text] = Normal[ss[k].lang][e.text]
  PROVE  \/ ss[k].seed = e.id
         \/ ss[k].seed = None /\ ss[k].lang = Japanese
<1>1. ss[k].lang \in Langs /\ SeedFits(ss[k], its)
  BY DEF SentencesFit, Seeds
<1>2. PICK f \in SentenceEntries(ss[k].lang) :
        ss[k].text = f.text /\ ss[k].seed \in {None, f.id}
  BY <1>1 DEF SeedFits
<1> DEFINE l == ss[k].lang
<1>3. f.id = e.id
  <2>1. l \in Langs /\ f \in SentenceEntries(l) /\ e \in SentenceEntries(l)
    BY <1>1
  <2>2. Normal[l][f.text] = Normal[l][e.text] BY <1>2
  <2> HIDE DEF l
  <2> QED BY <2>1, <2>2, SameSentence
<1> QED BY <1>1, <1>2, <1>3 DEF SeedFits

-----------------------------------------------------------------------------
(* A load that commits *)

\* The rows that a load has added, and the entries that they come from.
NewItemRows == DOMAIN items' \ DOMAIN items
NewSentenceRows == DOMAIN sentences' \ DOMAIN sentences

LEMMA LoadAddsItems ==
  ASSUME RowsInv, NEW p \in Scripts, LoadCommits(p)
  PROVE  LET r == run[p] IN
         /\ \A n \in NewItemRows :
              /\ items'[n].lang = r.lang
              /\ items'[n].order = r.order + (n - Len(items))
              /\ \E e \in ItemEntries(r.lang) :
                   /\ e.id \in NewIds(r) /\ items'[n].seed = e.id
                   /\ items'[n].lemma = e.lemma
                   /\ items'[n].reading = e.reading
         /\ \A m, n \in NewItemRows : items'[m].seed = items'[n].seed => m = n
         /\ \A id \in NewIds(r) : \E n \in NewItemRows : items'[n].seed = id
         /\ NewIds(r) \cap SeedIds(items) = {}
<1> DEFINE r == run[p]
           new == NewItems(r)
<1>1. /\ Loads(r) /\ ~KeysTaken(r)
      /\ \A n \in DOMAIN new :
           /\ Len(items) + n \in DOMAIN items' \ DOMAIN items
           /\ items'[Len(items) + n]
                = ItemRow(r.lang, new[n], new[n].id, r.order + n)
      /\ \A n \in DOMAIN items' \ DOMAIN items :
           \E k \in DOMAIN new : n = Len(items) + k
  BY LoadWrites
<1> HIDE DEF r
<1>2. /\ IsList(new) /\ UniqueIds(new)
      /\ \A e : e \in Entries(new) <=>
                  e \in Entries(r.dir.items) /\ e.id \notin DOMAIN r.rows
  BY <1>1, LoadNews
<1>3. /\ r.lang \in Langs /\ r.dir \in Directories[r.lang] BY <1>1 DEF Loads
<1>4. /\ \A e \in Entries(r.dir.items) :
           e \in ItemEntries(r.lang) /\ e.id \in Ids(r.dir.items)
      /\ \A id \in Ids(r.dir.items) :
           \E e \in Entries(r.dir.items) : e.id = id
  BY <1>3, FileEntries
<1>5. Ids(new) = NewIds(r)
  <2>1. \A id : id \in Ids(new) <=> \E e \in Entries(new) : e.id = id
    BY DEF Ids, Entries
  <2> HIDE DEF new
  <2>2. \A id : id \in Ids(new) <=> id \in NewIds(r)
    BY <1>2, <1>4, <2>1 DEF NewIds
  <2> QED BY <2>2
<1>6. NewIds(r) \cap SeedIds(items) = {}
  BY <1>1, <1>5 DEF KeysTaken
<1> HIDE DEF new
<1>7. Len(items) \in Nat /\ DOMAIN new \subseteq Nat
  BY <1>2, ListIs DEF RowsInv, RowsAre
<1>8. ASSUME NEW k \in DOMAIN new
      PROVE  /\ Len(items) + k \in NewItemRows
             /\ items'[Len(items) + k].lang = r.lang
             /\ items'[Len(items) + k].order = r.order + k
             /\ items'[Len(items) + k].seed = new[k].id
             /\ items'[Len(items) + k].lemma = new[k].lemma
             /\ items'[Len(items) + k].reading = new[k].reading
             /\ new[k] \in ItemEntries(r.lang) /\ new[k].id \in NewIds(r)
  <2>1. new[k] \in Entries(new) BY DEF Entries
  <2>2. new[k] \in ItemEntries(r.lang) /\ new[k].id \in NewIds(r)
    BY <1>2, <1>4, <2>1 DEF NewIds
  <2>3. items'[Len(items) + k]
          = ItemRow(r.lang, new[k], new[k].id, r.order + k)
    BY <1>1
  <2> QED BY <1>1, <2>2, <2>3 DEF NewItemRows, ItemRow
<1>9. \A n \in NewItemRows : \E k \in DOMAIN new :
        n = Len(items) + k /\ n - Len(items) = k
  BY <1>1, <1>7 DEF NewItemRows
<1>10. ASSUME NEW n \in NewItemRows
       PROVE  /\ items'[n].lang = r.lang
              /\ items'[n].order = r.order + (n - Len(items))
              /\ \E e \in ItemEntries(r.lang) :
                   /\ e.id \in NewIds(r) /\ items'[n].seed = e.id
                   /\ items'[n].lemma = e.lemma
                   /\ items'[n].reading = e.reading
  BY <1>8, <1>9
<1>11. ASSUME NEW m \in NewItemRows, NEW n \in NewItemRows,
              items'[m].seed = items'[n].seed
       PROVE  m = n
  <2>1. PICK i \in DOMAIN new : m = Len(items) + i BY <1>9
  <2>2. PICK k \in DOMAIN new : n = Len(items) + k BY <1>9
  <2>3. new[i].id = new[k].id BY <1>8, <1>11, <2>1, <2>2
  <2>4. i = k BY <1>2, <2>3 DEF UniqueIds
  <2> QED BY <2>1, <2>2, <2>4
<1>12. ASSUME NEW id \in NewIds(r)
       PROVE  \E n \in NewItemRows : items'[n].seed = id
  <2>1. PICK k \in DOMAIN new : new[k].id = id BY <1>5 DEF Ids
  <2> QED BY <1>8, <2>1
<1> QED BY <1>6, <1>10, <1>11, <1>12 DEF r

LEMMA LoadAddsSentences ==
  ASSUME RowsInv, NEW p \in Scripts, LoadCommits(p)
  PROVE  LET r == run[p] IN
         /\ \A k \in NewSentenceRows :
              /\ sentences'[k].lang = r.lang /\ sentences'[k].source = "seed"
              /\ \E e \in Entries(r.dir.sentences) :
                   /\ e.id \notin SeedIds(sentences)
                   /\ sentences'[k].seed = e.id /\ sentences'[k].text = e.text
                   /\ DOMAIN sentences'[k].uses = DOMAIN e.uses
                   /\ \A i \in DOMAIN e.uses :
                        sentences'[k].uses[i].item
                          = RowsOfFile(r)[e.uses[i].item]
         /\ \A m, n \in NewSentenceRows :
              sentences'[m].seed = sentences'[n].seed => m = n
         /\ \A e \in Entries(r.dir.sentences) : e.id \notin r.known =>
              \E k \in NewSentenceRows :
                /\ sentences'[k].lang = r.lang
                /\ sentences'[k].seed = e.id /\ sentences'[k].text = e.text
                /\ DOMAIN sentences'[k].uses = DOMAIN e.uses
                /\ \A i \in DOMAIN e.uses :
                     sentences'[k].uses[i].item
                       = RowsOfFile(r)[e.uses[i].item]
<1> DEFINE r == run[p]
           new == NewSentences(r)
<1>1. /\ Loads(r) /\ ~KeysTaken(r)
      /\ \A n \in DOMAIN new :
           /\ Len(sentences) + n \in DOMAIN sentences' \ DOMAIN sentences
           /\ \E ruby : sentences'[Len(sentences) + n]
                = SentenceRow(r.lang, new[n], new[n].id, RowsOfFile(r), ruby)
      /\ \A n \in DOMAIN sentences' \ DOMAIN sentences :
           \E k \in DOMAIN new : n = Len(sentences) + k
  BY LoadWrites
<1> HIDE DEF r
<1>2. /\ IsList(new) /\ UniqueIds(new)
      /\ \A e : e \in Entries(new) <=>
                  e \in Entries(r.dir.sentences) /\ e.id \notin r.known
  BY <1>1, LoadNews
<1>3. Ids(new) \cap SeedIds(sentences) = {} BY <1>1 DEF KeysTaken
<1> HIDE DEF new
<1>4. ASSUME NEW k \in DOMAIN new
      PROVE  /\ Len(sentences) + k \in NewSentenceRows
             /\ new[k] \in Entries(r.dir.sentences)
             /\ new[k].id \notin SeedIds(sentences)
             /\ sentences'[Len(sentences) + k].lang = r.lang
             /\ sentences'[Len(sentences) + k].source = "seed"
             /\ sentences'[Len(sentences) + k].seed = new[k].id
             /\ sentences'[Len(sentences) + k].text = new[k].text
             /\ DOMAIN sentences'[Len(sentences) + k].uses = DOMAIN new[k].uses
             /\ \A i \in DOMAIN new[k].uses :
                  sentences'[Len(sentences) + k].uses[i].item
                    = RowsOfFile(r)[new[k].uses[i].item]
  <2>1. new[k] \in Entries(new) /\ new[k].id \in Ids(new)
    BY DEF Entries, Ids
  <2>2. PICK ruby : sentences'[Len(sentences) + k]
          = SentenceRow(r.lang, new[k], new[k].id, RowsOfFile(r), ruby)
    BY <1>1
  <2> DEFINE s == sentences'[Len(sentences) + k]
             e == new[k]
             rows == RowsOfFile(r)
  <2>3. s = SentenceRow(r.lang, e, e.id, rows, ruby) BY <2>2
  <2> HIDE DEF s, e, rows
  <2>4. /\ s.lang = r.lang /\ s.source = "seed" /\ s.seed = e.id
        /\ s.text = e.text
        /\ s.uses = [i \in DOMAIN e.uses |->
                       [item |-> rows[e.uses[i].item],
                        tappable |-> e.uses[i].tappable,
                        area |-> e.uses[i].area]]
    BY <2>3 DEF SentenceRow
  <2>5. DOMAIN s.uses = DOMAIN e.uses
        /\ \A i \in DOMAIN e.uses : s.uses[i].item = rows[e.uses[i].item]
    BY <2>4
  <2> QED BY <1>1, <1>2, <1>3, <2>1, <2>4, <2>5 DEF NewSentenceRows, s, e, rows
<1>5. \A n \in NewSentenceRows : \E k \in DOMAIN new : n = Len(sentences) + k
  BY <1>1 DEF NewSentenceRows
<1>6. ASSUME NEW n \in NewSentenceRows
      PROVE  /\ sentences'[n].lang = r.lang /\ sentences'[n].source = "seed"
             /\ \E e \in Entries(r.dir.sentences) :
                  /\ e.id \notin SeedIds(sentences)
                  /\ sentences'[n].seed = e.id /\ sentences'[n].text = e.text
                  /\ DOMAIN sentences'[n].uses = DOMAIN e.uses
                  /\ \A i \in DOMAIN e.uses :
                       sentences'[n].uses[i].item
                         = RowsOfFile(r)[e.uses[i].item]
  BY <1>4, <1>5
<1>7. ASSUME NEW m \in NewSentenceRows, NEW n \in NewSentenceRows,
             sentences'[m].seed = sentences'[n].seed
      PROVE  m = n
  <2>1. PICK i \in DOMAIN new : m = Len(sentences) + i BY <1>5
  <2>2. PICK k \in DOMAIN new : n = Len(sentences) + k BY <1>5
  <2>3. new[i].id = new[k].id BY <1>4, <1>7, <2>1, <2>2
  <2>4. i = k BY <1>2, <2>3 DEF UniqueIds
  <2> QED BY <2>1, <2>2, <2>4
<1>8. ASSUME NEW e \in Entries(r.dir.sentences), e.id \notin r.known
      PROVE  \E k \in NewSentenceRows :
               /\ sentences'[k].lang = r.lang
               /\ sentences'[k].seed = e.id /\ sentences'[k].text = e.text
               /\ DOMAIN sentences'[k].uses = DOMAIN e.uses
               /\ \A i \in DOMAIN e.uses :
                    sentences'[k].uses[i].item
                      = RowsOfFile(r)[e.uses[i].item]
  <2>1. e \in Entries(new) BY <1>2, <1>8
  <2>2. PICK k \in DOMAIN new : new[k] = e BY <2>1 DEF Entries
  <2> QED BY <1>4, <2>2
<1> QED BY <1>6, <1>7, <1>8 DEF r

LEMMA LoadKnowsTables ==
  ASSUME SeedInv, NEW p \in Scripts, LoadCommits(p)
  PROVE  LET r == run[p] IN
         /\ Loads(r) /\ Loading(r, items, sentences) /\ Ahead(r, items)
         /\ r.lang = Japanese => ~Keyless(items, sentences)
<1>1. Loads(run[p]) /\ run[p].at = "inserting" BY LoadWrites DEF SeedInv
<1>2. /\ Loading(run[p], items, sentences)
      /\ LoadReady(run[p], items, sentences)
  BY <1>1 DEF SeedInv, ScriptFits, LoadSteps
<1> QED BY <1>1, <1>2 DEF LoadReady

LEMMA LoadGrows ==
  ASSUME SeedInv, NEW p \in Scripts, LoadCommits(p)
  PROVE  Grown(items, items', sentences, sentences')
<1> DEFINE r == run[p]
<1>0. RowsInv BY DEF SeedInv
<1>1. Kept(items, items', sentences, sentences') BY <1>0, RowsLoadCommits
<1>2. /\ Loads(r) /\ IsList(items')
      /\ Len(items') = Len(items) + Len(NewItems(r))
  BY <1>0, LoadWrites
<1>3. IsList(items) /\ Len(items) <= Len(items')
  <2>1. IsList(items) /\ IsList(NewItems(r))
    BY <1>0, <1>2, LoadNews DEF RowsInv, RowsAre
  <2>2. Len(items) \in Nat /\ Len(NewItems(r)) \in Nat BY <2>1, ListIs
  <2> QED BY <1>2, <2>1, <2>2
<1>4. r.lang \in Langs /\ r.dir \in Directories[r.lang] BY <1>2 DEF Loads
<1>5. ASSUME NEW n \in DOMAIN items' \ DOMAIN items
      PROVE  items'[n].seed # None
  <2>1. items'[n].seed \in NewIds(r)
    BY <1>0, LoadAddsItems DEF NewItemRows
  <2>2. None \notin Ids(r.dir.items) BY <1>4, FilesAssumption
  <2> QED BY <2>1, <2>2 DEF NewIds
<1>6. ASSUME NEW k \in Seeds(sentences') \ DOMAIN sentences
      PROVE  sentences'[k].seed # None
  <2>1. k \in NewSentenceRows BY DEF NewSentenceRows, Seeds
  <2>2. \E e \in Entries(r.dir.sentences) : sentences'[k].seed = e.id
    BY <1>0, <2>1, LoadAddsSentences
  <2> QED BY <1>4, <2>2, FileEntries
<1> QED BY <1>1, <1>2, <1>3, <1>5, <1>6 DEF Grown

\* A load knows the row of every item of its files.
LEMMA LoadFindsRows ==
  ASSUME SeedInv, NEW p \in Scripts, LoadCommits(p)
  PROVE  LET r == run[p] IN
         \A id \in Ids(r.dir.items) :
           /\ RowsOfFile(r)[id] \in DOMAIN items'
           /\ items'[RowsOfFile(r)[id]].seed = id
<1> DEFINE r == run[p]
           new == NewItems(r)
<1>0. RowsInv BY DEF SeedInv
<1>1. /\ Loads(r)
      /\ \A n \in DOMAIN items : n \in DOMAIN items' /\ items'[n] = items[n]
      /\ \A n \in DOMAIN new :
           /\ Len(items) + n \in DOMAIN items' \ DOMAIN items
           /\ items'[Len(items) + n]
                = ItemRow(r.lang, new[n], new[n].id, r.order + n)
  BY <1>0, LoadWrites
<1>2. Loading(r, items, sentences) BY LoadKnowsTables
<1>3. RowsOfFile(r) =
        [id \in Ids(r.dir.items) |->
           IF id \in DOMAIN r.rows THEN r.rows[id]
           ELSE Len(items) + CHOOSE n \in DOMAIN new : new[n].id = id]
  BY DEF RowsOfFile
<1> HIDE DEF r, new
<1>4. ASSUME NEW id \in Ids(r.dir.items)
      PROVE  /\ RowsOfFile(r)[id] \in DOMAIN items'
             /\ items'[RowsOfFile(r)[id]].seed = id
  <2>1. CASE id \in DOMAIN r.rows
    <3>1. RowsOfFile(r)[id] = r.rows[id] BY <1>3, <2>1
    <3> QED BY <1>1, <1>2, <2>1, <3>1 DEF Loading
  <2>2. CASE id \notin DOMAIN r.rows
    <3> DEFINE n == CHOOSE m \in DOMAIN new : new[m].id = id
    <3>1. RowsOfFile(r)[id] = Len(items) + n BY <1>3, <2>2
    <3>2. \E m \in DOMAIN new : new[m].id = id
      <4>1. PICK e \in Entries(r.dir.items) : e.id = id
        BY <1>1, FileEntries DEF Loads
      <4>2. e \in Entries(new) BY <1>1, <2>2, <4>1, LoadNews DEF new
      <4> QED BY <4>1, <4>2 DEF Entries
    <3>3. n \in DOMAIN new /\ new[n].id = id BY <3>2
    <3> HIDE DEF n
    <3>4. items'[Len(items) + n]
            = ItemRow(r.lang, new[n], id, r.order + n)
      BY <1>1, <3>3
    <3> QED BY <1>1, <3>1, <3>3, <3>4 DEF ItemRow
  <2> QED BY <2>1, <2>2
<1> QED BY <1>4 DEF r

\* Items are right after a load, and none is there twice: if a row had the
\* content of a new entry, it would have its id, which is then taken, or none,
\* and then the load would have met an old sentence.
LEMMA LoadKeepsItems ==
  ASSUME OneHistory, SeedInv, NEW p \in Scripts, LoadCommits(p)
  PROVE  ItemsFit(items') /\ ItemsOnce(items')
<1> DEFINE r == run[p]
           len == Len(items)
<1>0. RowsInv /\ ItemsFit(items) /\ ItemsOnce(items) BY DEF SeedInv, Tables
<1>1. /\ Loads(r) /\ Loading(r, items, sentences) /\ Ahead(r, items)
      /\ r.lang = Japanese => ~Keyless(items, sentences)
  BY LoadKnowsTables
<1>2. /\ \A n \in DOMAIN items : n \in DOMAIN items' /\ items'[n] = items[n]
      /\ IsList(items') /\ IsList(items) /\ len <= Len(items')
  BY <1>0, LoadWrites, LoadGrows DEF Grown
<1>3. /\ \A n \in NewItemRows :
           /\ items'[n].lang = r.lang
           /\ items'[n].order = r.order + (n - Len(items))
           /\ \E e \in ItemEntries(r.lang) :
                /\ e.id \in NewIds(r) /\ items'[n].seed = e.id
                /\ items'[n].lemma = e.lemma
                /\ items'[n].reading = e.reading
      /\ \A m, n \in NewItemRows : items'[m].seed = items'[n].seed => m = n
      /\ NewIds(r) \cap SeedIds(items) = {}
  BY <1>0, LoadAddsItems
<1>4. r.lang \in Langs /\ None \notin NewIds(r)
  BY <1>1, FilesAssumption DEF Loads, NewIds
<1>5. /\ len \in Nat /\ DOMAIN items = 1..len
      /\ Len(items') \in Nat /\ DOMAIN items' = 1..Len(items')
      /\ r.order \in 0..len
  BY <1>1, <1>2, ListIs DEF Loading
<1>6. \A n \in NewItemRows : n \in Nat /\ n - len \in 1..(Len(items') - len)
  BY <1>2, <1>5 DEF NewItemRows
<1> HIDE DEF r
<1>7. ASSUME NEW n \in DOMAIN items'
      PROVE  ItemFits(items'[n]) /\ items'[n].order \in 1..Len(items')
  <2>1. CASE n \in DOMAIN items
    <3>1. ItemFits(items[n]) /\ items[n].order \in 1..len
      BY <1>0, <2>1 DEF ItemsFit
    <3> QED BY <1>2, <1>5, <2>1, <3>1
  <2>2. CASE n \notin DOMAIN items
    <3>1. n \in NewItemRows BY <2>2 DEF NewItemRows
    <3>2. r.order + (n - len) \in 1..Len(items')
      BY <1>2, <1>5, <1>6, <3>1
    <3>3. items'[n].seed # None BY <1>3, <1>4, <3>1
    <3> QED BY <1>3, <1>4, <3>1, <3>2, <3>3 DEF ItemFits
  <2> QED BY <2>1, <2>2
<1>8. ASSUME NEW m \in DOMAIN items, NEW n \in NewItemRows,
             items'[m].lang = items'[n].lang
      PROVE  /\ items'[m].lemma # items'[n].lemma
             /\ items'[m].order # items'[n].order
  <2>1. items'[m] = items[m] /\ items[m].lang = r.lang BY <1>2, <1>3, <1>8
  <2>2. PICK e \in ItemEntries(r.lang) :
          e.id \in NewIds(r) /\ items'[n].lemma = e.lemma
    BY <1>3
  <2>3. ASSUME items[m].lemma = e.lemma PROVE FALSE
    <3>1. \/ items[m].seed = e.id
          \/ items[m].seed = None /\ items[m].lang = Japanese
      BY <1>0, <2>1, <2>3, ItemOfRow
    <3>2. items[m].seed # e.id
      <4>1. e.id # None BY <1>4, <2>2
      <4> QED BY <1>3, <2>2, <4>1 DEF SeedIds
    <3>3. items[m].seed # None \/ items[m].lang # Japanese
      BY <1>1, <2>1 DEF Keyless
    <3> QED BY <3>1, <3>2, <3>3
  <2>4. items'[m].order # items'[n].order
    <3>1. items[m].order <= r.order BY <1>1, <1>3, <2>1, <2>2 DEF Ahead
    <3>2. items[m].order \in 1..len BY <1>0 DEF ItemsFit
    <3>3. items'[n].order = r.order + (n - len) /\ n - len >= 1 /\ n \in Nat
      BY <1>3, <1>6
    <3> QED BY <1>5, <2>1, <3>1, <3>2, <3>3
  <2> QED BY <2>1, <2>2, <2>3, <2>4
<1>9. ASSUME NEW m \in NewItemRows, NEW n \in NewItemRows,
             \/ items'[m].lemma = items'[n].lemma
             \/ items'[m].order = items'[n].order
      PROVE  m = n
  <2>1. CASE items'[m].lemma = items'[n].lemma
    <3>1. PICK e \in ItemEntries(r.lang) :
            items'[m].seed = e.id /\ items'[m].lemma = e.lemma
      BY <1>3
    <3>2. PICK f \in ItemEntries(r.lang) :
            items'[n].seed = f.id /\ items'[n].lemma = f.lemma
      BY <1>3
    <3>3. e.id = f.id
      <4>1. e.lemma = f.lemma BY <2>1, <3>1, <3>2
      <4> QED BY <1>4, <4>1, SameItem
    <3>4. items'[m].seed = items'[n].seed BY <3>1, <3>2, <3>3
    <3> QED BY <1>3, <3>4
  <2>2. CASE items'[m].order = items'[n].order
    <3>1. r.order + (m - len) = r.order + (n - len) BY <1>3, <2>2
    <3>2. r.order \in Nat /\ m \in Nat /\ n \in Nat BY <1>5, <1>6
    <3> QED BY <1>5, <3>1, <3>2
  <2> QED BY <1>9, <2>1, <2>2
<1>10. ItemsOnce(items')
  <2> SUFFICES ASSUME NEW m \in DOMAIN items', NEW n \in DOMAIN items',
                      items'[m].lang = items'[n].lang,
                      \/ items'[m].lemma = items'[n].lemma
                      \/ items'[m].order = items'[n].order
               PROVE  m = n
    BY DEF ItemsOnce
  <2>1. CASE m \in DOMAIN items /\ n \in DOMAIN items
    BY <1>0, <1>2, <2>1 DEF ItemsOnce
  <2>2. CASE m \in DOMAIN items /\ n \notin DOMAIN items
    <3>1. n \in NewItemRows BY <2>2 DEF NewItemRows
    <3> QED BY <1>8, <2>2, <3>1
  <2>3. CASE m \notin DOMAIN items /\ n \in DOMAIN items
    <3>1. m \in NewItemRows BY <2>3 DEF NewItemRows
    <3> QED BY <1>8, <2>3, <3>1
  <2>4. CASE m \notin DOMAIN items /\ n \notin DOMAIN items
    <3>1. m \in NewItemRows /\ n \in NewItemRows BY <2>4 DEF NewItemRows
    <3> QED BY <1>9, <3>1
  <2> QED BY <2>1, <2>2, <2>3, <2>4
<1> QED BY <1>7, <1>10 DEF ItemsFit

\* The items that the sentences of a file name are those of the file.
LEMMA UsesNamed ==
  ASSUME NEW l, NEW dir, Valid(dir, l), NEW e \in Entries(dir.sentences),
         NEW i \in DOMAIN e.uses
  PROVE  e.uses[i].item \in Ids(dir.items)
<1>1. PICK n \in DOMAIN dir.sentences : dir.sentences[n] = e BY DEF Entries
<1>2. SentencesParse(dir) BY DEF Valid
<1> QED BY <1>1, <1>2 DEF SentencesParse

LEMMA KeptKeepsSeeds ==
  ASSUME NEW its, NEW its2, NEW ss, NEW ss2, Kept(its, its2, ss, ss2),
         NEW s, SeedFits(s, its)
  PROVE  SeedFits(s, its2)
<1>1. PICK e \in SentenceEntries(s.lang) :
        s.text = e.text /\ s.seed \in {None, e.id} /\ UsesFit(s, e, its)
  BY DEF SeedFits
<1>2. ASSUME NEW i \in DOMAIN e.uses
      PROVE  /\ s.uses[i].item \in DOMAIN its2
             /\ IsItem(its2[s.uses[i].item], s.lang, e.uses[i].item)
  <2> DEFINE n == s.uses[i].item
  <2>1. n \in DOMAIN its /\ IsItem(its[n], s.lang, e.uses[i].item)
    BY <1>1 DEF UsesFit
  <2> HIDE DEF n
  <2>2. /\ n \in DOMAIN its2 /\ its2[n].lang = its[n].lang
        /\ its2[n].lemma = its[n].lemma
    BY <2>1 DEF Kept, KeptItem
  <2>3. IsItem(its2[n], s.lang, e.uses[i].item) BY <2>1, <2>2 DEF IsItem
  <2> QED BY <2>2, <2>3 DEF n
<1>3. UsesFit(s, e, its2) BY <1>1, <1>2 DEF UsesFit
<1> QED BY <1>1, <1>3 DEF SeedFits

LEMMA LoadKeepsSentences ==
  ASSUME OneHistory, SeedInv, NEW p \in Scripts, LoadCommits(p)
  PROVE  SentencesFit(items', sentences') /\ SentencesOnce(sentences')
<1> DEFINE r == run[p]
<1>0. RowsInv /\ SentencesFit(items, sentences) /\ SentencesOnce(sentences)
  BY DEF SeedInv, Tables
<1>1. /\ Loads(r)
      /\ r.lang = Japanese => ~Keyless(items, sentences)
  BY LoadKnowsTables
<1>2. /\ \A n \in DOMAIN sentences :
           n \in DOMAIN sentences' /\ sentences'[n] = sentences[n]
      /\ Kept(items, items', sentences, sentences')
  BY <1>0, LoadWrites, LoadGrows DEF Grown
<1>3. /\ \A k \in NewSentenceRows :
           /\ sentences'[k].lang = r.lang /\ sentences'[k].source = "seed"
           /\ \E e \in Entries(r.dir.sentences) :
                /\ e.id \notin SeedIds(sentences)
                /\ sentences'[k].seed = e.id /\ sentences'[k].text = e.text
                /\ DOMAIN sentences'[k].uses = DOMAIN e.uses
                /\ \A i \in DOMAIN e.uses :
                     sentences'[k].uses[i].item
                       = RowsOfFile(r)[e.uses[i].item]
      /\ \A m, n \in NewSentenceRows :
           sentences'[m].seed = sentences'[n].seed => m = n
  BY <1>0, LoadAddsSentences
<1>4. /\ r.lang \in Langs /\ r.dir \in Directories[r.lang]
      /\ Valid(r.dir, r.lang)
  BY <1>1 DEF Loads
<1>5. /\ \A e \in Entries(r.dir.sentences) :
           e \in SentenceEntries(r.lang) /\ e.id # None
      /\ \A id \in Ids(r.dir.items) : \E x \in ItemEntries(r.lang) :
           x.id = id /\ id # None
  BY <1>4, FileEntries
<1>6. ItemsFit(items') BY LoadKeepsItems
<1>7. \A id \in Ids(r.dir.items) :
        /\ RowsOfFile(r)[id] \in DOMAIN items'
        /\ items'[RowsOfFile(r)[id]].seed = id
  BY LoadFindsRows
<1> HIDE DEF r
<1>8. \A id \in Ids(r.dir.items) :
        /\ RowsOfFile(r)[id] \in DOMAIN items'
        /\ IsItem(items'[RowsOfFile(r)[id]], r.lang, id)
  <2> TAKE id \in Ids(r.dir.items)
  <2>1. PICK x \in ItemEntries(r.lang) : x.id = id /\ id # None BY <1>5
  <2> DEFINE n == RowsOfFile(r)[id]
  <2>2. n \in DOMAIN items' /\ items'[n].seed = x.id BY <1>7, <2>1
  <2> HIDE DEF n
  <2>3. IsItem(items'[n], r.lang, id) BY <1>4, <1>6, <2>1, <2>2, RowOfItem
  <2> QED BY <2>2, <2>3 DEF n
<1>9. ASSUME NEW k \in DOMAIN sentences'
      PROVE  /\ sentences'[k].lang \in Langs
             /\ IF sentences'[k].source = "seed"
                THEN SeedFits(sentences'[k], items')
                ELSE sentences'[k].seed = None
  <2>1. CASE k \in DOMAIN sentences
    <3>1. /\ sentences'[k] = sentences[k] /\ sentences[k].lang \in Langs
          /\ IF sentences[k].source = "seed" THEN SeedFits(sentences[k], items)
             ELSE sentences[k].seed = None
      BY <1>0, <1>2, <2>1 DEF SentencesFit
    <3> QED BY <1>2, <3>1, KeptKeepsSeeds
  <2>2. CASE k \notin DOMAIN sentences
    <3> DEFINE s == sentences'[k]
    <3>1. k \in NewSentenceRows BY <2>2 DEF NewSentenceRows
    <3>2. PICK e \in Entries(r.dir.sentences) :
            /\ s.seed = e.id /\ s.text = e.text /\ DOMAIN s.uses = DOMAIN e.uses
            /\ \A i \in DOMAIN e.uses :
                 s.uses[i].item = RowsOfFile(r)[e.uses[i].item]
      BY <1>3, <3>1
    <3>3. s.lang = r.lang /\ s.source = "seed" BY <1>3, <3>1
    <3> HIDE DEF s
    <3>4. ASSUME NEW i \in DOMAIN e.uses
          PROVE  /\ s.uses[i].item \in DOMAIN items'
                 /\ IsItem(items'[s.uses[i].item], s.lang, e.uses[i].item)
      <4>1. e.uses[i].item \in Ids(r.dir.items) BY <1>4, UsesNamed
      <4> QED BY <1>8, <3>2, <3>3, <4>1
    <3>5. UsesFit(s, e, items') BY <3>2, <3>4 DEF UsesFit
    <3>6. e \in SentenceEntries(s.lang) /\ s.seed # None
      BY <1>5, <3>2, <3>3
    <3>7. SeedFits(s, items') BY <3>2, <3>5, <3>6 DEF SeedFits
    <3> QED BY <1>4, <3>3, <3>7 DEF s
  <2> QED BY <2>1, <2>2
<1>10. ASSUME NEW m \in Seeds(sentences), NEW n \in NewSentenceRows,
              sentences'[m].lang = sentences'[n].lang
       PROVE  Normal[sentences'[m].lang][sentences'[m].text]
                # Normal[sentences'[n].lang][sentences'[n].text]
  <2>1. sentences'[m] = sentences[m] /\ sentences[m].lang = r.lang
    BY <1>2, <1>3, <1>10 DEF Seeds
  <2>2. PICK e \in Entries(r.dir.sentences) :
          e.id \notin SeedIds(sentences) /\ sentences'[n].text = e.text
    BY <1>3
  <2>3. e \in SentenceEntries(sentences[m].lang) /\ e.id # None
    BY <1>5, <2>1
  <2>4. ASSUME Normal[sentences[m].lang][sentences[m].text]
                 = Normal[sentences[m].lang][e.text]
        PROVE  FALSE
    <3>1. \/ sentences[m].seed = e.id
          \/ sentences[m].seed = None /\ sentences[m].lang = Japanese
      BY <1>0, <2>3, <2>4, SentenceOfRow
    <3>2. sentences[m].seed # e.id
      <4>1. m \in DOMAIN sentences BY DEF Seeds
      <4> QED BY <2>2, <2>3, <4>1 DEF SeedIds
    <3>3. sentences[m].seed # None \/ sentences[m].lang # Japanese
      BY <1>1, <2>1 DEF Keyless
    <3> QED BY <3>1, <3>2, <3>3
  <2> QED BY <1>10, <2>1, <2>2, <2>4
<1>11. ASSUME NEW m \in NewSentenceRows, NEW n \in NewSentenceRows,
              Normal[sentences'[m].lang][sentences'[m].text]
                = Normal[sentences'[n].lang][sentences'[n].text]
       PROVE  m = n
  <2>1. PICK e \in Entries(r.dir.sentences) :
          sentences'[m].seed = e.id /\ sentences'[m].text = e.text
    BY <1>3
  <2>2. PICK f \in Entries(r.dir.sentences) :
          sentences'[n].seed = f.id /\ sentences'[n].text = f.text
    BY <1>3
  <2>3. Normal[r.lang][e.text] = Normal[r.lang][f.text]
    BY <1>3, <1>11, <2>1, <2>2
  <2>4. e.id = f.id
    <3>1. e \in SentenceEntries(r.lang) /\ f \in SentenceEntries(r.lang)
      BY <1>5
    <3> QED BY <1>4, <2>3, <3>1, SameSentence
  <2>5. sentences'[m].seed = sentences'[n].seed BY <2>1, <2>2, <2>4
  <2> QED BY <1>3, <2>5
<1>12. \A k \in Seeds(sentences') :
         k \in Seeds(sentences) \/ k \in NewSentenceRows
  BY <1>2 DEF Seeds, NewSentenceRows
<1>13. \A m, n \in Seeds(sentences) :
         /\ sentences'[m].lang = sentences'[n].lang
         /\ Normal[sentences'[m].lang][sentences'[m].text]
              = Normal[sentences'[n].lang][sentences'[n].text]
         => m = n
  BY <1>0, <1>2 DEF SentencesOnce, Seeds
<1>14. SentencesOnce(sentences')
  <2> SUFFICES ASSUME NEW m \in Seeds(sentences'), NEW n \in Seeds(sentences'),
                      sentences'[m].lang = sentences'[n].lang,
                      Normal[sentences'[m].lang][sentences'[m].text]
                        = Normal[sentences'[n].lang][sentences'[n].text]
               PROVE  m = n
    BY DEF SentencesOnce
  <2>1. CASE m \in Seeds(sentences) /\ n \in Seeds(sentences)
    BY <1>13, <2>1
  <2>2. CASE m \in Seeds(sentences) /\ n \notin Seeds(sentences)
    BY <1>10, <1>12, <2>2
  <2>3. CASE m \notin Seeds(sentences) /\ n \in Seeds(sentences)
    BY <1>10, <1>12, <2>3
  <2>4. CASE m \notin Seeds(sentences) /\ n \notin Seeds(sentences)
    BY <1>11, <1>12, <2>4
  <2> QED BY <2>1, <2>2, <2>3, <2>4
<1> QED BY <1>9, <1>14 DEF SentencesFit

\* As long as rows have no ids, nothing was there but what is old.
LEMMA LoadKeepsOld ==
  ASSUME OneHistory, SeedInv, NEW p \in Scripts, LoadCommits(p)
  PROVE  Old(items', sentences')
<1> DEFINE r == run[p]
<1>0. RowsInv /\ Old(items, sentences) /\ SentencesFit(items, sentences)
  BY DEF SeedInv, Tables
<1>1. /\ Loads(r) /\ Loading(r, items, sentences)
  BY LoadKnowsTables
<1>2. /\ \A n \in DOMAIN items : n \in DOMAIN items' /\ items'[n] = items[n]
      /\ \A n \in DOMAIN sentences :
           n \in DOMAIN sentences' /\ sentences'[n] = sentences[n]
  BY <1>0, LoadWrites
<1>3. \A e \in Entries(r.dir.sentences) : e.id \notin r.known =>
        \E k \in NewSentenceRows : TRUE
  BY <1>0, LoadAddsSentences
<1>4. \A k \in NewSentenceRows : sentences'[k].source = "seed"
  BY <1>0, LoadAddsSentences
<1> HIDE DEF r
<1>5. Seeds(sentences) \subseteq Seeds(sentences') BY <1>2 DEF Seeds
<1>6. Seeds(sentences') # {}
  <2>1. r.dir.sentences # <<>> /\ IsList(r.dir.sentences)
    BY <1>1, FilesAssumption DEF Loads, OneHistory
  <2>2. PICK e \in Entries(r.dir.sentences) : TRUE
    <3> DEFINE q == r.dir.sentences
    <3>1. Len(q) \in Nat /\ DOMAIN q = 1..Len(q)
          /\ q = [n \in 1..Len(q) |-> q[n]]
      BY <2>1, ListIs
    <3>2. Len(q) # 0
      <4> DEFINE E == Entries(q)
      <4>1. q \in Seq(E) /\ q # <<>> BY <2>1 DEF IsList
      <4> HIDE DEF E, q
      <4> QED BY <4>1
    <3>3. 1 \in DOMAIN q BY <3>1, <3>2
    <3> QED BY <3>3 DEF Entries
  <2>3. CASE e.id \notin r.known
    BY <1>3, <1>4, <2>3 DEF Seeds, NewSentenceRows
  <2>4. CASE e.id \in r.known
    <3>1. e.id \in SeedIds(sentences) BY <1>1, <2>4 DEF Loading
    <3>2. PICK k \in DOMAIN sentences :
            sentences[k].seed = e.id /\ e.id # None
      BY <3>1 DEF SeedIds
    <3>3. k \in Seeds(sentences)
      BY <1>0, <3>2 DEF SentencesFit, Seeds
    <3> QED BY <1>5, <3>3
  <2> QED BY <2>3, <2>4
<1>7. ASSUME Keyless(items', sentences')
      PROVE  /\ \E n \in DOMAIN items' : items'[n].lang = Japanese
             /\ \E dir \in Legacy : OldRows(dir, sentences')
  <2>1. Keyless(items, sentences) BY <1>7, LoadGrows, GrownIds
  <2>2. PICK n \in DOMAIN items : items[n].lang = Japanese
    BY <1>0, <2>1 DEF Old
  <2>3. PICK dir \in Legacy : OldRows(dir, sentences) BY <1>0, <2>1 DEF Old
  <2>4. \A k \in Seeds(sentences) :
          k \in Seeds(sentences') /\ sentences'[k] = sentences[k]
    BY <1>2, <1>5 DEF Seeds
  <2>5. OldRows(dir, sentences') BY <2>3, <2>4 DEF OldRows
  <2> QED BY <1>2, <2>2, <2>5
<1> QED BY <1>6, <1>7 DEF Old

\* What another load, which has read before, goes on from.
LEMMA LoadKeepsAhead ==
  ASSUME OneHistory, SeedInv, NEW p \in Scripts, LoadCommits(p),
         NEW r, Loads(r), Loading(r, items, sentences), Ahead(r, items)
  PROVE  Ahead(r, items')
<1> DEFINE s == run[p]
<1>0. RowsInv BY DEF SeedInv
<1>1. /\ \A n \in NewItemRows : items'[n].lang = s.lang
      /\ \A id \in NewIds(s) : \E n \in NewItemRows : items'[n].seed = id
      /\ NewIds(s) \cap SeedIds(items) = {}
      /\ \A n \in NewItemRows : items'[n].seed \in NewIds(s)
  BY <1>0, LoadAddsItems
<1>2. /\ \A n \in DOMAIN items : n \in DOMAIN items' /\ items'[n] = items[n]
  BY <1>0, LoadWrites
<1>3. Loads(s) /\ Loading(s, items, sentences) BY LoadKnowsTables
<1>4. SeedIds(items) \subseteq SeedIds(items') BY LoadGrows, GrownIds
<1> HIDE DEF s
<1>5. NewIds(s) \subseteq SeedIds(items')
  <2>1. None \notin NewIds(s) BY <1>3, FilesAssumption DEF Loads, NewIds
  <2> QED BY <1>1, <2>1 DEF SeedIds, NewItemRows
<1>6. CASE NewItemRows = {} \/ s.lang # r.lang
  <2>1. \A n \in DOMAIN items' : items'[n].lang = r.lang =>
          n \in DOMAIN items /\ items'[n] = items[n]
    BY <1>1, <1>2, <1>6 DEF NewItemRows
  <2> QED BY <1>4, <2>1 DEF Ahead
<1>7. CASE NewItemRows # {} /\ s.lang = r.lang
  <2>1. PICK b : b \in NewIds(s) BY <1>1, <1>7
  <2>2. \/ Ids(r.dir.items) \subseteq Ids(s.dir.items)
        \/ Ids(s.dir.items) \subseteq Ids(r.dir.items)
    BY <1>3, <1>7 DEF OneHistory, Loads
  <2>3. /\ DOMAIN r.rows \subseteq SeedIds(items)
        /\ DOMAIN s.rows \subseteq SeedIds(items)
    BY <1>3 DEF Loading
  <2>4. CASE Ids(r.dir.items) \subseteq Ids(s.dir.items)
    <3>1. NewIds(r) \subseteq SeedIds(items')
      BY <1>4, <1>5, <2>3, <2>4 DEF NewIds
    <3> QED BY <3>1 DEF Ahead
  <2>5. CASE Ids(s.dir.items) \subseteq Ids(r.dir.items)
    <3>1. b \in NewIds(r) BY <1>1, <2>1, <2>3, <2>5 DEF NewIds
    <3>2. b \in SeedIds(items') BY <1>5, <2>1
    <3> QED BY <3>1, <3>2 DEF Ahead
  <2> QED BY <2>2, <2>4, <2>5
<1> QED BY <1>6, <1>7

LEMMA IdleFits ==
  ASSUME NEW its, NEW ss
  PROVE  ScriptFits(Idle, its, ss)
BY DEF ScriptFits, Idle, LoadSteps, BackfillSteps

LEMMA LoadCommitsStep ==
  ASSUME OneHistory, SeedInv, NEW p \in Scripts, LoadCommits(p)
  PROVE  SeedInv'
<1>1. RowsInv' /\ Becomes(p, Idle)
  BY RowsLoadCommits, LoadWrites DEF SeedInv
<1>2. Tables(items', sentences')
  BY LoadKeepsItems, LoadKeepsSentences, LoadKeepsOld DEF Tables
<1>3. Grown(items, items', sentences, sentences') BY LoadGrows
<1>4. \A r : Loads(r) /\ Loading(r, items, sentences) /\ Ahead(r, items)
               => Ahead(r, items')
  BY LoadKeepsAhead
<1>5. ScriptFits(Idle, items', sentences') BY IdleFits
<1> QED BY <1>1, <1>2, <1>3, <1>4, <1>5, SeedStep

-----------------------------------------------------------------------------
(* The steps that only read *)

LEMMA ReadStep ==
  ASSUME SeedInv, NEW p \in Scripts, NEW r, Becomes(p, r), ScriptIs(r),
         ScriptFits(r, items, sentences), UNCHANGED <<items, sentences>>
  PROVE  SeedInv'
<1>1. RowsInv' BY RowsRead DEF SeedInv
<1>2. /\ run'[p] = r /\ \A q \in Scripts \ {p} : run'[q] = run[q]
  BY RunChanges DEF SeedInv
<1>3. \A q \in Scripts : ScriptFits(run'[q], items', sentences')
  BY <1>2 DEF SeedInv
<1> QED BY <1>1, <1>3 DEF SeedInv

LEMMA StopStep ==
  ASSUME SeedInv, NEW p \in Scripts, Becomes(p, Idle),
         UNCHANGED <<items, sentences>>
  PROVE  SeedInv'
BY ReadStep, IdleFits DEF ScriptIs

\* What a load that has read knows of the tables.
LEMMA LoadAtFits ==
  ASSUME NEW r, NEW at, NEW rows, NEW known, NEW order, NEW its, NEW ss,
         at \in LoadSteps,
         DOMAIN rows \subseteq SeedIds(its),
         \A id \in DOMAIN rows : /\ rows[id] \in DOMAIN its
                                 /\ its[rows[id]].seed = id,
         known \subseteq SeedIds(ss), order \in 0..Len(its),
         at \in {"hashes", "inserting"} =>
           Ahead(LoadAt(r, at, rows, known, order), its),
         at = "inserting" /\ r.lang = Japanese => ~Keyless(its, ss)
  PROVE  ScriptFits(LoadAt(r, at, rows, known, order), its, ss)
<1> DEFINE s == LoadAt(r, at, rows, known, order)
<1>1. /\ s.at = at /\ s.lang = r.lang /\ s.rows = rows /\ s.known = known
      /\ s.order = order
  BY DEF LoadAt
<1> HIDE DEF s
<1>2. Loading(s, its, ss) BY <1>1 DEF Loading
<1>3. LoadReady(s, its, ss) BY <1>1 DEF LoadReady, s
<1>4. s.at \notin BackfillSteps BY <1>1 DEF LoadSteps, BackfillSteps
<1> QED BY <1>2, <1>3, <1>4 DEF ScriptFits, s

LEMMA RowOfIdIs ==
  /\ DOMAIN RowOfId = SeedIds(items)
  /\ \A id \in SeedIds(items) : /\ RowOfId[id] \in DOMAIN items
                                /\ items[RowOfId[id]].seed = id
<1>1. ASSUME NEW id \in SeedIds(items)
      PROVE  \E n \in DOMAIN items : items[n].seed = id
  BY DEF SeedIds
<1> QED BY <1>1 DEF RowOfId

LEMMA MaxSeedOrderIs ==
  ASSUME IsList(items), ItemsFit(items), NEW l
  PROVE  /\ MaxSeedOrder(l) \in 0..Len(items)
         /\ \A n \in DOMAIN items :
              items[n].lang = l => items[n].order <= MaxSeedOrder(l)
<1> DEFINE S == SeedOrders(l) \cup {0}
           N == Len(items)
<1>1. N \in Nat BY ListIs
<1>2. \A n \in DOMAIN items : items[n].order \in 1..N BY DEF ItemsFit
<1>3. S \in SUBSET (0..N) /\ S # {}
  BY <1>1, <1>2 DEF SeedOrders
<1>4. \A n \in DOMAIN items : items[n].lang = l => items[n].order \in S
  BY DEF SeedOrders
<1> HIDE DEF S, N
<1>5. Greatest(S) \in S /\ \A y \in S : Greatest(S) >= y
  BY <1>1, <1>3, GreatestExists
<1>6. MaxSeedOrder(l) = Greatest(S) BY DEF MaxSeedOrder, S
<1>7. \A n \in DOMAIN items :
        items[n].lang = l => items[n].order <= Greatest(S)
  <2> TAKE n \in DOMAIN items
  <2> HAVE items[n].lang = l
  <2>1. items[n].order \in S /\ Greatest(S) \in S BY <1>4, <1>5
  <2>2. items[n].order \in Nat /\ Greatest(S) \in Nat
    <3>1. \A y \in S : y \in 0..N BY <1>3
    <3>2. \A y \in 0..N : y \in Nat BY <1>1
    <3> QED BY <2>1, <3>1, <3>2
  <2> QED BY <1>5, <2>1, <2>2
<1> QED BY <1>3, <1>5, <1>6, <1>7 DEF N

\* A load of Japanese files that meets none of their sentences: while rows have
\* no ids, the first sentence that the files share with the old ones is such.
LEMMA HashesFreeMeansKeyed ==
  ASSUME OneHistory, SeedInv, NEW r, Loads(r), Loading(r, items, sentences),
         HashesFree(r), r.lang = Japanese, Keyless(items, sentences)
  PROVE  FALSE
<1>1. /\ SentencesFit(items, sentences) /\ SentencesOnce(sentences)
      /\ Old(items, sentences)
  BY DEF SeedInv, Tables
<1>2. PICK old \in Legacy : OldRows(old, sentences) BY <1>1 DEF Old
<1>3. /\ Japanese \in Langs /\ old \in Directories[Japanese]
      /\ r.dir \in Directories[Japanese]
  BY LegacyAssumption DEF Langs, Loads
<1>4. PICK e \in Entries(r.dir.sentences), f \in Entries(old.sentences) :
        e.id = f.id
  <2>1. \E x \in Ids(r.dir.sentences) : x \in Ids(old.sentences)
    <3>1. \A d \in Directories[Japanese] : \E x : x \in Ids(d.sentences)
      <4> TAKE d \in Directories[Japanese]
      <4>1. d.sentences # <<>> /\ IsList(d.sentences)
        BY <1>3, FilesAssumption DEF OneHistory
      <4> DEFINE q == d.sentences
      <4>2. Len(q) \in Nat /\ DOMAIN q = 1..Len(q) BY <4>1, ListIs
      <4>3. Len(q) # 0
        <5> DEFINE E == Entries(q)
        <5>1. q \in Seq(E) /\ q # <<>> BY <4>1 DEF IsList
        <5> HIDE DEF E, q
        <5> QED BY <5>1
      <4>4. 1 \in DOMAIN q BY <4>2, <4>3
      <4> QED BY <4>4 DEF Ids
    <3>2. \/ Ids(r.dir.sentences) \subseteq Ids(old.sentences)
          \/ Ids(old.sentences) \subseteq Ids(r.dir.sentences)
      BY <1>3 DEF OneHistory
    <3> QED BY <1>3, <3>1, <3>2
  <2>2. PICK x \in Ids(r.dir.sentences) : x \in Ids(old.sentences) BY <2>1
  <2>3. PICK e \in Entries(r.dir.sentences) : e.id = x
    BY <1>3, <2>2, FileEntries
  <2>4. PICK f \in Entries(old.sentences) : f.id = x
    BY <1>3, <2>2, FileEntries
  <2> QED BY <2>3, <2>4
<1>5. PICK k \in Seeds(sentences) :
        /\ sentences[k].lang = Japanese /\ sentences[k].seed = None
        /\ sentences[k].text = f.text
  BY <1>2 DEF OldRows
<1>6. /\ e \in SentenceEntries(Japanese) /\ f \in SentenceEntries(Japanese)
      /\ e.id # None
  BY <1>3, FileEntries
<1>7. e.text = f.text BY <1>3, <1>4, <1>6, SameSentence
<1>8. e.id \notin r.known
  <2> SUFFICES ASSUME e.id \in r.known PROVE FALSE
    OBVIOUS
  <2>1. PICK j \in DOMAIN sentences : sentences[j].seed = e.id
    BY DEF Loading, SeedIds
  <2>2. /\ j \in Seeds(sentences) /\ sentences[j].lang = Japanese
        /\ sentences[j].text = e.text
    BY <1>1, <1>3, <1>6, <2>1, RowOfSentence
  <2>3. j = k BY <1>1, <1>5, <1>7, <2>2 DEF SentencesOnce
  <2> QED BY <1>5, <1>6, <2>1, <2>3
<1>9. k \in DOMAIN sentences BY DEF Seeds
<1>10. Normal[r.lang][sentences[k].text] # Normal[r.lang][e.text]
  BY <1>4, <1>5, <1>8, <1>9 DEF HashesFree
<1> QED BY <1>5, <1>7, <1>10

LEMMA LoadReadsStep ==
  ASSUME OneHistory, SeedInv, NEW p \in Scripts,
         \/ LoadSeesItems(p) \/ LoadSeesSentences(p) \/ LoadSeesOrder(p)
         \/ LoadChecksHashes(p)
  PROVE  SeedInv'
<1> DEFINE r == run[p]
<1>1. ScriptIs(r) /\ IsList(items) BY DEF SeedInv, RowsInv, RowsAre
<1>2. UNCHANGED <<items, sentences>>
  BY DEF LoadSeesItems, LoadSeesSentences, LoadSeesOrder, LoadChecksHashes
<1>3. Loads(r) => Loading(r, items, sentences) /\ LoadReady(r, items, sentences)
  BY DEF SeedInv, ScriptFits, Loads
<1>4. ItemsFit(items) /\ Old(items, sentences) BY DEF SeedInv, Tables
<1>5. Len(items) \in Nat /\ Len(items) \in 0..Len(items) BY <1>1, ListIs
<1>6. SUFFICES \/ Becomes(p, Idle)
               \/ \E at \in LoadSteps : \E rows, known, order :
                    /\ Loads(r) /\ Becomes(p, LoadAt(r, at, rows, known, order))
                    /\ ScriptFits(LoadAt(r, at, rows, known, order), items,
                                  sentences)
  BY <1>2, ReadStep, StopStep, ScriptGoesOn
<1>7. Loads(r) =>
        /\ DOMAIN r.rows \subseteq SeedIds(items)
        /\ \A id \in DOMAIN r.rows : /\ r.rows[id] \in DOMAIN items
                                     /\ items[r.rows[id]].seed = id
        /\ r.known \subseteq SeedIds(sentences) /\ r.order \in 0..Len(items)
  BY <1>3 DEF Loading
<1>8. {"sentences", "order", "hashes", "inserting"} \subseteq LoadSteps
  BY DEF LoadSteps
<1>9. CASE LoadSeesItems(p)
  <2>1. /\ Loads(r)
        /\ \/ Becomes(p, LoadAt(r, "sentences", RowOfId, r.known, r.order))
           \/ Becomes(p, LoadAt(r, "sentences", r.rows, r.known, Len(items)))
    BY <1>1, <1>9, LoadReads
  <2> HIDE DEF r
  <2>2. /\ ScriptFits(LoadAt(r, "sentences", RowOfId, r.known, r.order), items,
                      sentences)
        /\ ScriptFits(LoadAt(r, "sentences", r.rows, r.known, Len(items)),
                      items, sentences)
    BY <1>5, <1>7, <1>8, <2>1, RowOfIdIs, LoadAtFits
  <2> QED BY <1>8, <2>1, <2>2
<1>10. CASE LoadSeesSentences(p)
  <2>1. /\ Loads(r)
        /\ \/ Becomes(p, LoadAt(r, "order", r.rows, SeedIds(sentences),
                                r.order))
           \/ /\ FromSeed = {}
              /\ Becomes(p, LoadAt(r, "hashes", r.rows, r.known, r.order))
           \/ Becomes(p, Idle)
    BY <1>1, <1>10, LoadReads
  <2> HIDE DEF r
  <2>2. ScriptFits(LoadAt(r, "order", r.rows, SeedIds(sentences), r.order),
                   items, sentences)
    BY <1>7, <1>8, <2>1, LoadAtFits
  <2>3. ASSUME FromSeed = {}
        PROVE  ScriptFits(LoadAt(r, "hashes", r.rows, r.known, r.order), items,
                          sentences)
    <3>1. DOMAIN items = {} BY <1>4, <2>3 DEF Old, Seeds, FromSeed
    <3>2. Ahead(LoadAt(r, "hashes", r.rows, r.known, r.order), items)
      BY <3>1 DEF Ahead
    <3> QED BY <1>7, <1>8, <2>1, <3>2, LoadAtFits
  <2> QED BY <1>8, <2>1, <2>2, <2>3
<1>11. CASE LoadSeesOrder(p)
  <2> DEFINE s == LoadAt(r, "hashes", r.rows, r.known, MaxSeedOrder(r.lang))
  <2>1. Loads(r) /\ Becomes(p, s) BY <1>1, <1>11, LoadReads
  <2> HIDE DEF r
  <2>2. /\ MaxSeedOrder(r.lang) \in 0..Len(items)
        /\ \A n \in DOMAIN items :
             items[n].lang = r.lang => items[n].order <= MaxSeedOrder(r.lang)
    BY <1>1, <1>4, MaxSeedOrderIs
  <2>3. Ahead(s, items)
    <3>1. s.lang = r.lang /\ s.order = MaxSeedOrder(r.lang) BY DEF LoadAt
    <3> HIDE DEF s
    <3> QED BY <2>2, <3>1 DEF Ahead
  <2>4. ScriptFits(s, items, sentences)
    BY <1>7, <1>8, <2>1, <2>2, <2>3, LoadAtFits
  <2> QED BY <1>8, <2>1, <2>4
<1>12. CASE LoadChecksHashes(p)
  <2> DEFINE s == LoadAt(r, "inserting", r.rows, r.known, r.order)
  <2>1. /\ Loads(r) /\ r.at = "hashes"
        /\ \/ HashesFree(r) /\ Becomes(p, s)
           \/ Becomes(p, Idle)
    BY <1>1, <1>12, LoadReads
  <2>2. Loading(r, items, sentences) /\ Ahead(r, items)
    BY <1>3, <2>1 DEF LoadReady
  <2> HIDE DEF r
  <2>3. ASSUME HashesFree(r) PROVE ScriptFits(s, items, sentences)
    <3>1. r.lang = Japanese => ~Keyless(items, sentences)
      BY <2>1, <2>2, <2>3, HashesFreeMeansKeyed
    <3>2. Ahead(s, items)
      <4>1. /\ s.lang = r.lang /\ s.order = r.order /\ s.dir = r.dir
            /\ s.rows = r.rows
        BY DEF LoadAt
      <4> HIDE DEF s
      <4> QED BY <2>2, <4>1 DEF Ahead, NewIds
    <3> QED BY <1>7, <1>8, <2>1, <3>1, <3>2, LoadAtFits
  <2> QED BY <1>8, <2>1, <2>3
<1> QED BY <1>9, <1>10, <1>11, <1>12

LEMMA LoadOpensStep ==
  ASSUME SeedInv, NEW p \in Scripts, NEW l \in Langs,
         NEW dir \in Directories[l], NEW incremental,
         LoadParses(p, l, dir, incremental)
  PROVE  SeedInv'
<1> DEFINE s == [at |-> "items", lang |-> l, dir |-> dir,
                 incremental |-> incremental, rows |-> <<>>,
                 known |-> {}, order |-> 0]
<1>1. (Becomes(p, s) /\ Loads(s)) \/ Becomes(p, Idle) BY LoadOpens
<1>2. UNCHANGED <<items, sentences>> BY DEF LoadParses
<1>3. Len(items) \in Nat BY ListIs DEF SeedInv, RowsInv, RowsAre
<1>4. ScriptFits(s, items, sentences)
  BY <1>3 DEF ScriptFits, Loading, LoadReady, LoadSteps, BackfillSteps
<1> HIDE DEF s
<1> QED BY <1>1, <1>2, <1>4, ReadStep, StopStep DEF ScriptIs

-----------------------------------------------------------------------------
(* The backfill of ids *)

LEMMA BackfillAtFits ==
  ASSUME NEW r, NEW at, NEW agrees, NEW ids, NEW keys, NEW its, NEW ss,
         at \in BackfillSteps,
         LET s == BackfillAt(r, at, agrees, ids, keys) IN
         /\ at # "matching items" => IdsFit(s, its)
         /\ at = "matching sentences" /\ agrees =>
              /\ IdsReach(s, its)
              /\ Keyless(its, ss) => r.lang = Japanese
         /\ at = "keying" => IdsReach(s, its) /\ KeysFit(s, ss)
                                              /\ KeysReach(s, ss)
  PROVE  ScriptFits(BackfillAt(r, at, agrees, ids, keys), its, ss)
<1> DEFINE s == BackfillAt(r, at, agrees, ids, keys)
<1>1. s.at = at /\ s.lang = r.lang /\ s.agrees = agrees BY DEF BackfillAt
<1> HIDE DEF s
<1>2. /\ at # "matching items" => IdsFit(s, its)
      /\ at = "matching sentences" /\ agrees =>
           /\ IdsReach(s, its)
           /\ Keyless(its, ss) => r.lang = Japanese
      /\ at = "keying" => IdsReach(s, its) /\ KeysFit(s, ss) /\ KeysReach(s, ss)
  BY DEF s
<1>3. Backfilling(s, its, ss) BY <1>1, <1>2 DEF Backfilling
<1>4. s.at \notin LoadSteps BY <1>1 DEF LoadSteps, BackfillSteps
<1> QED BY <1>3, <1>4 DEF ScriptFits, s

\* Every seed sentence has a place among them.
LEMMA SeedRowsAll ==
  ASSUME IsList(sentences)
  PROVE  /\ Len(SeedRows) \in Nat /\ DOMAIN SeedRows = 1..Len(SeedRows)
         /\ \A k \in FromSeed : \E n \in DOMAIN SeedRows : SeedRows[n] = k
<1> DEFINE q == [n \in DOMAIN sentences |-> n]
           t == Filtered(q, FromSeed)
<1>1. Len(sentences) \in Nat /\ DOMAIN sentences = 1..Len(sentences)
  BY ListIs
<1>2. q \in Seq(Nat) /\ Len(q) = Len(sentences) BY <1>1
<1>3. \A n \in 1..Len(q) : q[n] = n BY <1>1, <1>2
<1>4. FromSeed \subseteq 1..Len(q) BY <1>1, <1>2 DEF FromSeed
<1> HIDE DEF q
<1>5. t \in Seq(Nat) /\ Picked(q, FromSeed, t, Len(q))
  BY <1>2, FilteredPicks
<1>6. t = SeedRows BY DEF SeedRows, q
<1> HIDE DEF t
<1>7. \A k \in FromSeed : \E n \in 1..Len(t) : t[n] = k
  <2> TAKE k \in FromSeed
  <2>1. PICK h \in [1..Len(t) -> 1..Len(q)] :
          /\ \A m \in 1..Len(t) : q[h[m]] \in FromSeed /\ t[m] = q[h[m]]
          /\ \A m \in 1..Len(q) : q[m] \in FromSeed =>
               \E n \in 1..Len(t) : h[n] = m
    BY <1>5 DEF Picked
  <2>2. PICK n \in 1..Len(t) : h[n] = k BY <1>3, <1>4, <2>1
  <2>3. t[n] = q[k] BY <2>1, <2>2
  <2> QED BY <1>3, <1>4, <2>3
<1> QED BY <1>5, <1>6, <1>7

\* The rows that match the items of a file are the rows of those items.
LEMMA MatchedItems ==
  ASSUME OneHistory, ItemsFit(items), NEW l \in Langs,
         NEW dir \in Directories[l], ItemsAgree(dir)
  PROVE  /\ \A n \in DOMAIN items : items[n].lang = l
         /\ \A n \in DOMAIN items : \E e \in ItemEntries(items[n].lang) :
              /\ e.id = dir.items[items[n].order].id
              /\ e.lemma = items[n].lemma /\ e.reading = items[n].reading
<1> SUFFICES ASSUME NEW n \in DOMAIN items
             PROVE  /\ items[n].lang = l
                    /\ \E e \in ItemEntries(items[n].lang) :
                         /\ e.id = dir.items[items[n].order].id
                         /\ e.lemma = items[n].lemma
                         /\ e.reading = items[n].reading
  OBVIOUS
<1> DEFINE k == items[n].lang
           f == dir.items[items[n].order]
<1>1. /\ items[n].order \in DOMAIN dir.items
      /\ items[n].lemma = f.lemma /\ items[n].reading = f.reading
  BY DEF ItemsAgree
<1>2. f \in ItemEntries(l)
  <2>1. f \in Entries(dir.items) BY <1>1 DEF Entries
  <2> HIDE DEF f
  <2> QED BY <2>1, FileEntries
<1>3. ItemFits(items[n]) BY DEF ItemsFit
<1>4. k \in Langs BY <1>3 DEF ItemFits
<1>5. PICK e \in ItemEntries(k) :
        items[n].lemma = e.lemma /\ items[n].reading = e.reading
  BY <1>3 DEF ItemFits
<1>6. e.lemma = f.lemma /\ e.reading = f.reading BY <1>1, <1>5
<1> HIDE DEF f
<1>7. e.id = f.id /\ k = l
  <2> HIDE DEF k
  <2>1. e.id = f.id BY <1>2, <1>4, <1>5, <1>6, SameItem
  <2>2. k = l BY <1>2, <1>4, <1>5, <2>1, SameItem
  <2> QED BY <2>1, <2>2
<1> QED BY <1>5, <1>7 DEF f

LEMMA BackfillItemsStep ==
  ASSUME OneHistory, SeedInv, NEW p \in Scripts, BackfillSeesItems(p)
  PROVE  SeedInv'
<1> DEFINE r == run[p]
           s == BackfillAt(r, "matching sentences", TRUE, ItemWrites(r.dir),
                           r.keys)
           t == BackfillAt(r, "matching sentences", FALSE, <<>>, r.keys)
<1>1. ScriptIs(r) BY DEF SeedInv, RowsInv
<1>2. /\ Backfills(r)
      /\ \/ ItemsAgree(r.dir) /\ Becomes(p, s)
         \/ Becomes(p, t)
  BY <1>1, BackfillReads
<1>3. UNCHANGED <<items, sentences>> BY DEF BackfillSeesItems
<1>4. ItemsFit(items) /\ Old(items, sentences) BY DEF SeedInv, Tables
<1>5. r.lang \in Langs /\ r.dir \in Directories[r.lang] BY <1>2 DEF Backfills
<1> HIDE DEF r
<1>6. "matching sentences" \in BackfillSteps BY DEF BackfillSteps
<1>7. ScriptIs(s) /\ ScriptIs(t) BY <1>2, <1>6, ScriptGoesOn
<1>8. ScriptFits(t, items, sentences)
  <2>1. IdsFit(t, items) BY DEF IdsFit, BackfillAt
  <2> QED BY <1>6, <2>1, BackfillAtFits
<1>9. ASSUME ItemsAgree(r.dir) PROVE ScriptFits(s, items, sentences)
  <2>1. s.ids = ItemWrites(r.dir) BY DEF BackfillAt
  <2>2. /\ \A n \in DOMAIN items : items[n].lang = r.lang
        /\ \A n \in DOMAIN items : \E e \in ItemEntries(items[n].lang) :
             /\ e.id = r.dir.items[items[n].order].id
             /\ e.lemma = items[n].lemma /\ e.reading = items[n].reading
    BY <1>4, <1>5, <1>9, MatchedItems
  <2>3. IdsFit(s, items)
    <3> HIDE DEF s
    <3> QED BY <2>1, <2>2 DEF IdsFit, ItemWrites
  <2>4. IdsReach(s, items)
    <3> HIDE DEF s
    <3> QED BY <2>1 DEF IdsReach, ItemWrites
  <2>5. Keyless(items, sentences) => r.lang = Japanese
    BY <1>4, <2>2 DEF Old
  <2> QED BY <1>6, <2>3, <2>4, <2>5, BackfillAtFits
<1> HIDE DEF s, t
<1> QED BY <1>2, <1>3, <1>7, <1>8, <1>9, ReadStep

LEMMA BackfillSentencesStep ==
  ASSUME OneHistory, SeedInv, NEW p \in Scripts, BackfillSeesSentences(p)
  PROVE  SeedInv'
<1> DEFINE r == run[p]
           keys == SentenceWrites(r.dir)
           s == BackfillAt(r, "keying", r.agrees, r.ids, keys)
<1>1. ScriptIs(r) BY DEF SeedInv, RowsInv
<1>2. /\ Backfills(r) /\ r.at = "matching sentences"
      /\ \/ r.agrees /\ SentencesAgree(r.dir) /\ Becomes(p, s)
         \/ Becomes(p, Idle)
  BY <1>1, BackfillReads
<1>3. UNCHANGED <<items, sentences>> BY DEF BackfillSeesSentences
<1>4. SentencesFit(items, sentences) BY DEF SeedInv, Tables
<1>5. r.lang \in Langs /\ r.dir \in Directories[r.lang] BY <1>2 DEF Backfills
<1>6. Backfilling(r, items, sentences)
  BY <1>2 DEF SeedInv, ScriptFits, BackfillSteps
<1>7. IsList(sentences) BY DEF SeedInv, RowsInv, RowsAre
<1> HIDE DEF r
<1>8. "keying" \in BackfillSteps BY DEF BackfillSteps
<1>9. ScriptIs(s) BY <1>2, <1>8, ScriptGoesOn
<1>10. ASSUME r.agrees, SentencesAgree(r.dir)
       PROVE  ScriptFits(s, items, sentences)
  <2>1. /\ IdsFit(r, items) /\ IdsReach(r, items)
        /\ Keyless(items, sentences) => r.lang = Japanese
    BY <1>2, <1>6, <1>10 DEF Backfilling
  <2>2. s.ids = r.ids /\ s.keys = keys BY DEF BackfillAt
  <2>3. keys = [k \in {m \in FromSeed : sentences[m].seed = None} |->
                  r.dir.sentences[CHOOSE n \in DOMAIN SeedRows :
                                    SeedRows[n] = k].id]
    BY DEF SentenceWrites
  <2> HIDE DEF s, keys
  <2>4. ASSUME NEW k \in FromSeed, sentences[k].seed = None
        PROVE  \E e \in SentenceEntries(sentences[k].lang) :
                 e.id = keys[k] /\ e.text = sentences[k].text
    <3> DEFINE n == CHOOSE m \in DOMAIN SeedRows : SeedRows[m] = k
               e == r.dir.sentences[n]
    <3>1. n \in DOMAIN SeedRows /\ SeedRows[n] = k
      BY <1>7, SeedRowsAll
    <3>2. keys[k] = e.id BY <2>3, <2>4
    <3> HIDE DEF n
    <3>3. n \in DOMAIN r.dir.sentences
      <4>1. IsList(r.dir.sentences) BY <1>5, FilesAssumption
      <4>2. DOMAIN r.dir.sentences = 1..Len(r.dir.sentences)
        BY <4>1, ListIs
      <4>3. Len(SeedRows) = Len(r.dir.sentences)
        BY <1>10 DEF SentencesAgree
      <4> QED BY <1>7, <3>1, <4>2, <4>3, SeedRowsAll
    <3>4. sentences[k].text = e.text
      BY <1>10, <3>1, <3>3 DEF SentencesAgree
    <3>5. e \in SentenceEntries(r.lang)
      <4>1. e \in Entries(r.dir.sentences) BY <3>3 DEF Entries
      <4> HIDE DEF e
      <4> QED BY <1>5, <4>1, FileEntries
    <3>6. sentences[k].lang = r.lang
      <4>1. k \in Seeds(sentences) BY DEF FromSeed, Seeds
      <4>2. r.lang = Japanese BY <2>1, <2>4, <4>1 DEF Keyless
      <4>3. SeedFits(sentences[k], items) BY <1>4, <4>1 DEF SentencesFit, Seeds
      <4> QED BY <2>4, <4>2, <4>3 DEF SeedFits
    <3> QED BY <3>2, <3>4, <3>5, <3>6
  <2>5. KeysFit(s, sentences)
    <3>1. \A k \in DOMAIN keys : k \in FromSeed /\ sentences[k].seed = None
      BY <2>3
    <3> QED BY <2>2, <2>4, <3>1 DEF KeysFit, FromSeed, Seeds
  <2>6. KeysReach(s, sentences)
    BY <2>2, <2>3 DEF KeysReach, FromSeed, Seeds
  <2>7. IdsFit(s, items) /\ IdsReach(s, items)
    BY <2>1, <2>2 DEF IdsFit, IdsReach
  <2> QED BY <1>8, <2>5, <2>6, <2>7, BackfillAtFits DEF s
<1> HIDE DEF s
<1> QED BY <1>2, <1>3, <1>9, <1>10, ReadStep, StopStep

LEMMA BackfillStartsStep ==
  ASSUME SeedInv, NEW p \in Scripts, NEW l \in Langs,
         NEW dir \in Directories[l], NEW apply, BackfillStarts(p, l, dir, apply)
  PROVE  SeedInv'
<1> DEFINE s == [at |-> "matching items", lang |-> l, dir |-> dir,
                 apply |-> apply, agrees |-> TRUE, ids |-> <<>>,
                 keys |-> <<>>]
<1>1. Becomes(p, s) /\ UNCHANGED <<items, sentences>> BY DEF BackfillStarts
<1>2. ScriptIs(s) BY DEF ScriptIs, Backfills, BackfillSteps
<1>3. ScriptFits(s, items, sentences)
  BY DEF ScriptFits, Backfilling, LoadSteps, BackfillSteps
<1> HIDE DEF s
<1> QED BY <1>1, <1>2, <1>3, ReadStep

\* Every row has an id after the backfill, that of its entry.
LEMMA BackfillWritesStep ==
  ASSUME OneHistory, SeedInv, NEW p \in Scripts, BackfillWrites(p)
  PROVE  SeedInv'
<1> DEFINE r == run[p]
<1>0. /\ RowsInv /\ ItemsFit(items) /\ SentencesFit(items, sentences)
      /\ Old(items, sentences) /\ ItemsOnce(items) /\ SentencesOnce(sentences)
  BY DEF SeedInv, Tables
<1>1. /\ Backfills(r) /\ r.at = "keying"
      /\ RowsAre(items', sentences')
      /\ Kept(items, items', sentences, sentences')
      /\ DOMAIN items' = DOMAIN items /\ Len(items') = Len(items)
      /\ \A n \in DOMAIN items :
           items'[n].seed = IF n \in DOMAIN r.ids /\ items[n].seed = None
                            THEN r.ids[n] ELSE items[n].seed
      /\ DOMAIN sentences' = DOMAIN sentences
      /\ \A n \in DOMAIN sentences :
           sentences'[n].seed =
             IF n \in DOMAIN r.keys /\ sentences[n].seed = None
             THEN r.keys[n] ELSE sentences[n].seed
      /\ Becomes(p, Idle)
  BY <1>0, BackfillKeysRows
<1>2. /\ IdsFit(r, items) /\ IdsReach(r, items)
      /\ KeysFit(r, sentences) /\ KeysReach(r, sentences)
  BY <1>1 DEF SeedInv, ScriptFits, Backfilling, BackfillSteps
<1> HIDE DEF r
<1>3. \A n \in DOMAIN items : KeptItem(items[n], items'[n]) BY <1>1 DEF Kept
<1>4. \A k \in DOMAIN sentences : KeptSentence(sentences[k], sentences'[k])
  BY <1>1 DEF Kept
<1>5. Seeds(sentences') = Seeds(sentences)
  BY <1>1, <1>4 DEF Seeds, KeptSentence
<1>6. \A l \in Langs : /\ \A e \in ItemEntries(l) : e.id # None
                       /\ \A e \in SentenceEntries(l) : e.id # None
  BY FileEntries DEF ItemEntries, SentenceEntries
<1>7. ASSUME NEW n \in DOMAIN items
      PROVE  /\ ItemFits(items'[n]) /\ items'[n].order \in 1..Len(items')
             /\ items'[n].seed # None
  <2> DEFINE row == items'[n]
             l == items[n].lang
  <2>1. /\ row.lang = l /\ row.lemma = items[n].lemma
        /\ row.reading = items[n].reading /\ row.order = items[n].order
    BY <1>3 DEF KeptItem
  <2>2. ItemFits(items[n]) /\ items[n].order \in 1..Len(items)
    BY <1>0 DEF ItemsFit
  <2>3. l \in Langs BY <2>2 DEF ItemFits
  <2>4. CASE items[n].seed = None
    <3>1. n \in DOMAIN r.ids BY <1>2, <2>4 DEF IdsReach
    <3>2. row.seed = r.ids[n] BY <1>1, <2>4, <3>1
    <3>3. PICK e \in ItemEntries(l) :
            /\ e.id = r.ids[n] /\ e.lemma = items[n].lemma
            /\ e.reading = items[n].reading
      BY <1>2, <3>1 DEF IdsFit
    <3>4. e.id # None BY <1>6, <2>3
    <3> HIDE DEF row, l
    <3>5. ItemFits(row) BY <2>1, <2>3, <3>2, <3>3, <3>4 DEF ItemFits
    <3> QED BY <1>1, <2>1, <2>2, <3>2, <3>3, <3>4, <3>5 DEF row
  <2>5. CASE items[n].seed # None
    <3>1. row.seed = items[n].seed BY <1>1, <2>5
    <3>2. ItemFits(row) BY <2>1, <2>2, <3>1 DEF ItemFits
    <3> QED BY <1>1, <2>1, <2>2, <2>5, <3>1, <3>2
  <2> QED BY <2>4, <2>5
<1>8. ASSUME NEW k \in Seeds(sentences)
      PROVE  /\ SeedFits(sentences'[k], items')
             /\ sentences'[k].seed # None
  <2> DEFINE s == sentences'[k]
             l == sentences[k].lang
  <2>1. k \in DOMAIN sentences BY DEF Seeds
  <2>2. /\ s.lang = l /\ s.text = sentences[k].text
        /\ s.uses = sentences[k].uses
    BY <1>4, <2>1 DEF KeptSentence
  <2>3. SeedFits(sentences[k], items) /\ l \in Langs
    BY <1>0 DEF SentencesFit, Seeds
  <2>4. SeedFits(sentences[k], items') BY <1>1, <2>3, KeptKeepsSeeds
  <2>5. PICK e \in SentenceEntries(l) :
          /\ sentences[k].text = e.text /\ sentences[k].seed \in {None, e.id}
          /\ UsesFit(sentences[k], e, items')
    BY <2>4 DEF SeedFits
  <2>6. UsesFit(s, e, items') BY <2>2, <2>5 DEF UsesFit
  <2>7. CASE sentences[k].seed = None
    <3>1. k \in DOMAIN r.keys BY <1>2, <2>7 DEF KeysReach
    <3>2. s.seed = r.keys[k] BY <1>1, <2>1, <2>7, <3>1
    <3>3. PICK f \in SentenceEntries(l) :
            f.id = r.keys[k] /\ f.text = sentences[k].text
      BY <1>2, <3>1 DEF KeysFit
    <3> HIDE DEF s, l
    <3>4. e.id = f.id
      <4>1. Normal[l][e.text] = Normal[l][f.text] BY <2>5, <3>3
      <4> QED BY <2>3, <4>1, SameSentence
    <3>5. f.id # None BY <1>6, <2>3
    <3>6. s.text = e.text /\ s.seed = e.id /\ s.seed # None
      BY <2>2, <2>5, <3>2, <3>3, <3>4, <3>5
    <3>7. SeedFits(s, items') BY <2>2, <2>6, <3>6 DEF SeedFits
    <3> QED BY <3>6, <3>7 DEF s
  <2>8. CASE sentences[k].seed # None
    <3>1. s.seed = sentences[k].seed BY <1>1, <2>1, <2>8
    <3>2. SeedFits(s, items')
      <4> HIDE DEF s, l
      <4> QED BY <2>2, <2>5, <2>6, <2>8, <3>1 DEF SeedFits
    <3> QED BY <2>8, <3>1, <3>2
  <2> QED BY <2>7, <2>8
<1>9. ItemsFit(items') BY <1>1, <1>7 DEF ItemsFit
<1>10. SentencesFit(items', sentences')
  <2> SUFFICES ASSUME NEW k \in DOMAIN sentences
               PROVE  /\ sentences'[k].lang \in Langs
                      /\ IF sentences'[k].source = "seed"
                         THEN SeedFits(sentences'[k], items')
                         ELSE sentences'[k].seed = None
    BY <1>1 DEF SentencesFit
  <2>1. /\ sentences'[k].lang = sentences[k].lang
        /\ sentences'[k].source = sentences[k].source
    BY <1>4 DEF KeptSentence
  <2>2. sentences[k].lang \in Langs BY <1>0 DEF SentencesFit
  <2>3. CASE sentences[k].source = "seed"
    <3>1. k \in Seeds(sentences) BY <2>3 DEF Seeds
    <3> QED BY <1>8, <2>1, <2>2, <2>3, <3>1
  <2>4. CASE sentences[k].source # "seed"
    <3>1. sentences[k].seed = None BY <1>0, <2>4 DEF SentencesFit
    <3>2. k \notin DOMAIN r.keys BY <1>2, <2>4 DEF KeysFit, Seeds
    <3>3. sentences'[k].seed = None BY <1>1, <3>1, <3>2
    <3> QED BY <2>1, <2>2, <2>4, <3>3
  <2> QED BY <2>3, <2>4
<1>11. ~Keyless(items', sentences')
  BY <1>1, <1>5, <1>7, <1>8 DEF Keyless
<1>12. Old(items', sentences')
  BY <1>0, <1>1, <1>5, <1>11 DEF Old
<1>13. ItemsOnce(items')
  BY <1>0, <1>1, <1>3 DEF ItemsOnce, KeptItem
<1>14. SentencesOnce(sentences')
  <2>1. \A k \in Seeds(sentences) : /\ sentences'[k].lang = sentences[k].lang
                                    /\ sentences'[k].text = sentences[k].text
    BY <1>4 DEF KeptSentence, Seeds
  <2> QED BY <1>0, <1>5, <2>1 DEF SentencesOnce
<1>15. Tables(items', sentences')
  BY <1>9, <1>10, <1>12, <1>13, <1>14 DEF Tables
<1>16. Grown(items, items', sentences, sentences')
  <2>1. IsList(items) /\ IsList(items') BY <1>0, <1>1 DEF RowsInv, RowsAre
  <2>2. Len(items) <= Len(items') BY <1>1, <2>1, ListIs
  <2> QED BY <1>1, <2>1, <2>2 DEF Grown, Seeds
<1>17. RowsInv' BY <1>0, <1>1, RowsWritten
<1>18. \A s : Ahead(s, items) => Ahead(s, items')
  BY <1>1, <1>16, GrownKeepsAhead
<1> QED BY <1>1, <1>15, <1>16, <1>17, <1>18, IdleFits, SeedStep

-----------------------------------------------------------------------------
(* Furigana, and the worker *)

\* A step that adds only sentences of the worker, and changes nothing of the
\* rows but their furigana.
LEMMA SameSeedsStep ==
  ASSUME SeedInv, RowsInv', Kept(items, items', sentences, sentences'),
         items' = items,
         \A k \in DOMAIN sentences : sentences'[k].seed = sentences[k].seed,
         \A k \in DOMAIN sentences' \ DOMAIN sentences :
           /\ sentences'[k].source = "generated"
           /\ sentences'[k].lang \in Langs /\ sentences'[k].seed = None,
         UNCHANGED run \/ \E p \in Scripts : Becomes(p, Idle)
  PROVE  SeedInv'
<1>1. /\ ItemsFit(items)
      /\ SentencesFit(items, sentences) /\ Old(items, sentences)
      /\ ItemsOnce(items) /\ SentencesOnce(sentences)
      /\ IsList(items)
  BY DEF SeedInv, Tables, RowsInv, RowsAre
<1>2. ASSUME NEW k \in DOMAIN sentences
      PROVE  /\ k \in DOMAIN sentences'
             /\ KeptSentence(sentences[k], sentences'[k])
  BY DEF Kept
<1>3. Seeds(sentences') = Seeds(sentences)
  BY <1>2 DEF Seeds, KeptSentence
<1>4. ASSUME NEW k \in Seeds(sentences)
      PROVE  /\ sentences'[k].lang = sentences[k].lang
             /\ sentences'[k].text = sentences[k].text
             /\ sentences'[k].uses = sentences[k].uses
             /\ sentences'[k].seed = sentences[k].seed
  BY <1>2 DEF Seeds, KeptSentence
<1>5. SentencesFit(items', sentences')
  <2> SUFFICES ASSUME NEW k \in DOMAIN sentences'
               PROVE  /\ sentences'[k].lang \in Langs
                      /\ IF sentences'[k].source = "seed"
                         THEN SeedFits(sentences'[k], items')
                         ELSE sentences'[k].seed = None
    BY DEF SentencesFit
  <2>1. CASE k \notin DOMAIN sentences
    BY <2>1
  <2>2. CASE k \in DOMAIN sentences
    <3> DEFINE s == sentences[k]
               s2 == sentences'[k]
    <3>1. /\ s2.lang = s.lang /\ s2.source = s.source /\ s2.text = s.text
          /\ s2.uses = s.uses /\ s2.seed = s.seed
      BY <1>2, <2>2 DEF KeptSentence
    <3>2. /\ s.lang \in Langs
          /\ IF s.source = "seed" THEN SeedFits(s, items) ELSE s.seed = None
      BY <1>1, <2>2 DEF SentencesFit
    <3> HIDE DEF s, s2
    <3>3. SeedFits(s, items) => SeedFits(s2, items)
      BY <3>1 DEF SeedFits, UsesFit
    <3> QED BY <3>1, <3>2, <3>3 DEF s2
  <2> QED BY <2>1, <2>2
<1>6. Old(items', sentences')
  <2>1. Keyless(items', sentences') <=> Keyless(items, sentences)
    BY <1>3, <1>4 DEF Keyless
  <2>2. \A dir \in Legacy : OldRows(dir, sentences) => OldRows(dir, sentences')
    BY <1>3, <1>4 DEF OldRows
  <2> QED BY <1>1, <1>3, <2>1, <2>2 DEF Old
<1>7. SentencesOnce(sentences')
  BY <1>1, <1>3, <1>4 DEF SentencesOnce
<1>8. Tables(items', sentences')
  BY <1>1, <1>5, <1>6, <1>7 DEF Tables
<1>9. Grown(items, items', sentences, sentences')
  <2>1. Len(items) <= Len(items') BY <1>1, ListIs
  <2> QED BY <1>1, <1>3, <2>1 DEF Grown, Seeds
<1>10. (\E p \in Scripts : Becomes(p, Idle)) =>
         \E p \in Scripts : \E r :
           Becomes(p, r) /\ ScriptFits(r, items', sentences')
  BY IdleFits
<1>11. \A r : Ahead(r, items) => Ahead(r, items') OBVIOUS
<1> QED BY <1>8, <1>9, <1>10, <1>11, SeedStep

LEMMA RubyStartsStep ==
  ASSUME SeedInv, NEW p \in Scripts, NEW apply, RubyStarts(p, apply)
  PROVE  SeedInv'
<1>1. \E s : /\ Becomes(p, s) /\ ScriptIs(s)
             /\ ScriptFits(s, items, sentences)
  <2>1. PICK failing \in Failures :
          LET computed == {n \in WithoutRuby : sentences[n].text \notin failing}
          IN  Becomes(p, IF computed = {} \/ ~apply THEN Idle
                         ELSE [at |-> "adding ruby", computed |-> computed])
    BY DEF RubyStarts
  <2> DEFINE computed == {n \in WithoutRuby : sentences[n].text \notin failing}
             c == [at |-> "adding ruby", computed |-> computed]
  <2>2. c.at = "adding ruby" OBVIOUS
  <2>3. Becomes(p, Idle) \/ Becomes(p, c) BY <2>1
  <2> HIDE DEF c
  <2>4. ScriptIs(c) /\ ScriptFits(c, items, sentences)
    BY <2>2 DEF ScriptIs, ScriptFits, LoadSteps, BackfillSteps
  <2>5. ScriptIs(Idle) /\ ScriptFits(Idle, items, sentences)
    BY IdleFits DEF ScriptIs
  <2> QED BY <2>3, <2>4, <2>5
<1>2. UNCHANGED <<items, sentences>> BY DEF RubyStarts
<1> QED BY <1>1, <1>2, ReadStep

LEMMA RubyWritesStep ==
  ASSUME SeedInv, NEW p \in Scripts, RubyWrites(p)
  PROVE  SeedInv'
<1>1. RowsInv BY DEF SeedInv
<1>2. /\ RowsAre(items', sentences')
      /\ Kept(items, items', sentences, sentences')
      /\ items' = items /\ DOMAIN sentences' = DOMAIN sentences
      /\ \A n \in DOMAIN sentences : sentences'[n].seed = sentences[n].seed
      /\ Becomes(p, Idle)
  BY <1>1, RubyAdds
<1>3. RowsInv' BY <1>1, <1>2, RowsWritten
<1> QED BY <1>2, <1>3, SameSeedsStep

LEMMA WorkerStoresStep ==
  ASSUME SeedInv, NEW l \in Langs, NEW text, WorkerStores(l, text)
  PROVE  SeedInv'
<1>1. RowsInv BY DEF SeedInv
<1>2. /\ RowsAre(items', sentences')
      /\ Kept(items, items', sentences, sentences')
      /\ items' = items /\ run' = run
      /\ \A n \in DOMAIN sentences :
           n \in DOMAIN sentences' /\ sentences'[n] = sentences[n]
      /\ \A n \in DOMAIN sentences' \ DOMAIN sentences :
           /\ sentences'[n].source = "generated"
           /\ sentences'[n].lang = l /\ sentences'[n].seed = None
  BY <1>1, WorkerAdds
<1>3. RowsInv' BY <1>1, <1>2 DEF RowsInv
<1> QED BY <1>2, <1>3, SameSeedsStep

LEMMA SeedNextStep ==
  ASSUME OneHistory, SeedInv, SeedNext
  PROVE  SeedInv'
<1>1. ASSUME NEW p \in Scripts, Load(p) PROVE SeedInv'
  BY <1>1, LoadOpensStep, LoadReadsStep, LoadCommitsStep DEF Load
<1>2. ASSUME NEW p \in Scripts, Backfill(p) PROVE SeedInv'
  BY <1>2, BackfillStartsStep, BackfillItemsStep, BackfillSentencesStep,
     BackfillWritesStep DEF Backfill
<1>3. ASSUME NEW p \in Scripts, Stops(p) PROVE SeedInv'
  BY <1>3, StopStep DEF Stops, Fails
<1>4. ASSUME NEW p \in Scripts,
             (\E apply \in BOOLEAN : RubyStarts(p, apply)) \/ RubyWrites(p)
      PROVE  SeedInv'
  BY <1>4, RubyStartsStep, RubyWritesStep
<1>5. ASSUME NEW l \in Langs, NEW text \in WorkerTexts[l], WorkerStores(l, text)
      PROVE  SeedInv'
  BY <1>5, WorkerStoresStep
<1> QED BY <1>1, <1>2, <1>3, <1>4, <1>5 DEF SeedNext

-----------------------------------------------------------------------------
(* The beginning *)

\* The rows of a database that was loaded before there were ids.
LEMMA UnkeyedRows ==
  ASSUME NEW dir \in Legacy, Unkeyed(dir)
  PROVE  /\ IsList(dir.items) /\ Len(items) = Len(dir.items)
         /\ DOMAIN items = DOMAIN dir.items
         /\ \A n \in DOMAIN items :
              /\ items[n].lang = Japanese /\ items[n].seed = None
              /\ items[n].lemma = dir.items[n].lemma
              /\ items[n].reading = dir.items[n].reading
              /\ items[n].order = n
         /\ DOMAIN sentences = DOMAIN dir.sentences
         /\ \A k \in DOMAIN sentences :
              LET s == sentences[k]
                  e == dir.sentences[k]
              IN  /\ s.lang = Japanese /\ s.source = "seed" /\ s.seed = None
                  /\ s.text = e.text /\ DOMAIN s.uses = DOMAIN e.uses
                  /\ \A i \in DOMAIN e.uses :
                       /\ s.uses[i].item \in DOMAIN items
                       /\ dir.items[s.uses[i].item].id = e.uses[i].item
<1> DEFINE rows == [id \in Ids(dir.items) |->
                      CHOOSE n \in DOMAIN dir.items : dir.items[n].id = id]
           item(n) == ItemRow(Japanese, dir.items[n], None, n)
           s(k) == SentenceRow(Japanese, dir.sentences[k], None, rows, None)
<1>1. /\ items = [n \in DOMAIN dir.items |-> item(n)]
      /\ sentences = [k \in DOMAIN dir.sentences |-> s(k)]
  BY DEF Unkeyed
<1>2. ASSUME NEW id \in Ids(dir.items)
      PROVE  rows[id] \in DOMAIN dir.items /\ dir.items[rows[id]].id = id
  BY DEF Ids
<1>3. ASSUME NEW k \in DOMAIN dir.sentences,
             NEW i \in DOMAIN dir.sentences[k].uses
      PROVE  dir.sentences[k].uses[i].item \in Ids(dir.items)
  BY LegacyAssumption DEF Valid, SentencesParse
<1>4. ASSUME NEW k \in DOMAIN dir.sentences
      PROVE  LET e == dir.sentences[k] IN
             /\ s(k).lang = Japanese /\ s(k).source = "seed"
             /\ s(k).seed = None
             /\ s(k).text = e.text /\ DOMAIN s(k).uses = DOMAIN e.uses
             /\ \A i \in DOMAIN e.uses :
                  s(k).uses[i].item = rows[e.uses[i].item]
  BY DEF SentenceRow
<1>5. \A n \in DOMAIN dir.items :
        /\ item(n).lang = Japanese /\ item(n).seed = None
        /\ item(n).lemma = dir.items[n].lemma
        /\ item(n).reading = dir.items[n].reading
        /\ item(n).order = n
  BY DEF ItemRow
<1> HIDE DEF rows, item, s
<1>6. /\ DOMAIN items = DOMAIN dir.items
      /\ \A n \in DOMAIN items : items[n] = item(n)
      /\ DOMAIN sentences = DOMAIN dir.sentences
      /\ \A k \in DOMAIN sentences : sentences[k] = s(k)
  BY <1>1
<1>7. IsList(dir.items) BY LegacyAssumption, FilesAssumption DEF Langs
<1>8. Len(items) = Len(dir.items)
  <2>1. Len(dir.items) \in Nat /\ DOMAIN dir.items = 1..Len(dir.items)
    BY <1>7, ListIs
  <2>2. items = [n \in 1..Len(dir.items) |-> item(n)] BY <1>1, <2>1
  <2>3. items = [n \in 1..Len(dir.items) |-> items[n]] BY <2>2
  <2> QED BY <2>1, <2>3, ListMade
<1>9. ASSUME NEW k \in DOMAIN sentences
      PROVE  LET e == dir.sentences[k] IN
             /\ DOMAIN sentences[k].uses = DOMAIN e.uses
             /\ \A i \in DOMAIN e.uses :
                  /\ sentences[k].uses[i].item \in DOMAIN items
                  /\ dir.items[sentences[k].uses[i].item].id = e.uses[i].item
  BY <1>2, <1>3, <1>4, <1>6
<1> QED BY <1>4, <1>5, <1>6, <1>7, <1>8, <1>9

LEMMA SomeEntry == ASSUME NEW q, IsList(q), q # <<>> PROVE DOMAIN q # {}
<1>1. /\ Len(q) \in Nat /\ DOMAIN q = 1..Len(q)
      /\ q = [n \in 1..Len(q) |-> q[n]]
  BY ListIs
<1>2. Len(q) = 0 => q = <<>>
  <2> DEFINE E == Entries(q)
  <2>1. q \in Seq(E) BY DEF IsList
  <2> HIDE DEF E
  <2> QED BY <2>1
<1>3. Len(q) # 0 => 1 \in 1..Len(q) BY <1>1
<1> QED BY <1>1, <1>2, <1>3

LEMMA SeedInitFits ==
  ASSUME OneHistory, SeedInit
  PROVE  SeedInv
<1>1. RowsInv BY RowsInit
<1>2. \A p \in Scripts : ScriptFits(run[p], items, sentences)
  BY IdleFits DEF SeedInit
<1>3. ASSUME items = <<>>, sentences = <<>>
      PROVE  Tables(items, sentences)
  <2>1. /\ DOMAIN items = {} /\ DOMAIN sentences = {} BY <1>3
  <2>2. Tables(items, sentences)
    BY <2>1 DEF Tables, ItemsFit, SentencesFit, Old, Keyless, Seeds, ItemsOnce,
                SentencesOnce
  <2> QED BY <2>2
<1>4. ASSUME NEW dir \in Legacy, Unkeyed(dir)
      PROVE  Tables(items, sentences)
  <2>1. /\ Japanese \in Langs /\ dir \in Directories[Japanese]
        /\ Valid(dir, Japanese) /\ HashesDiffer(dir, Japanese)
    BY LegacyAssumption DEF Langs
  <2>2. /\ IsList(dir.items) /\ Len(items) = Len(dir.items)
        /\ DOMAIN items = DOMAIN dir.items
    BY <1>4, UnkeyedRows
  <2>3. \A n \in DOMAIN items :
          /\ items[n].lang = Japanese /\ items[n].seed = None
          /\ items[n].lemma = dir.items[n].lemma
          /\ items[n].reading = dir.items[n].reading
          /\ items[n].order = n
    BY <1>4, UnkeyedRows
  <2>4. DOMAIN sentences = DOMAIN dir.sentences
    BY <1>4, UnkeyedRows
  <2>5. ASSUME NEW k \in DOMAIN sentences
        PROVE  LET s == sentences[k]
                   e == dir.sentences[k]
               IN  /\ s.lang = Japanese /\ s.source = "seed" /\ s.seed = None
                   /\ s.text = e.text /\ DOMAIN s.uses = DOMAIN e.uses
                   /\ \A i \in DOMAIN e.uses :
                        /\ s.uses[i].item \in DOMAIN items
                        /\ dir.items[s.uses[i].item].id = e.uses[i].item
    BY <1>4, UnkeyedRows
  <2>6. /\ \A n \in DOMAIN items : dir.items[n] \in ItemEntries(Japanese)
        /\ \A k \in DOMAIN sentences :
             dir.sentences[k] \in SentenceEntries(Japanese)
    BY <2>1, <2>2, <2>4 DEF ItemEntries, SentenceEntries, Entries
  <2>7. ItemsFit(items)
    <3> SUFFICES ASSUME NEW n \in DOMAIN items
                 PROVE  ItemFits(items[n]) /\ items[n].order \in 1..Len(items)
      BY DEF ItemsFit
    <3>1. n \in 1..Len(items) BY <2>2, ListIs
    <3> QED BY <2>1, <2>3, <2>6, <3>1 DEF ItemFits
  <2>8. SentencesFit(items, sentences)
    <3> SUFFICES ASSUME NEW k \in DOMAIN sentences
                 PROVE  SeedFits(sentences[k], items)
      BY <2>1, <2>5 DEF SentencesFit
    <3> DEFINE s == sentences[k]
               e == dir.sentences[k]
    <3>1. /\ s.lang = Japanese /\ s.source = "seed" /\ s.seed = None
          /\ s.text = e.text /\ DOMAIN s.uses = DOMAIN e.uses
          /\ \A i \in DOMAIN e.uses :
               /\ s.uses[i].item \in DOMAIN items
               /\ dir.items[s.uses[i].item].id = e.uses[i].item
      BY <2>5
    <3>2. e \in SentenceEntries(Japanese) BY <2>6
    <3> HIDE DEF s, e
    <3>3. \A i \in DOMAIN e.uses :
            IsItem(items[s.uses[i].item], Japanese, e.uses[i].item)
      BY <2>3, <2>6, <3>1 DEF IsItem
    <3>4. UsesFit(s, e, items) BY <3>1, <3>3 DEF UsesFit
    <3>5. SeedFits(s, items) BY <3>1, <3>2, <3>4 DEF SeedFits
    <3> QED BY <3>5 DEF s
  <2>9. Seeds(sentences) = DOMAIN sentences BY <2>5 DEF Seeds
  <2>10. Old(items, sentences)
    <3>1. OldRows(dir, sentences)
      BY <2>4, <2>5, <2>9 DEF OldRows, Entries
    <3>2. dir.sentences # <<>> BY <2>1 DEF OneHistory
    <3>3. PICK k \in DOMAIN sentences : TRUE
      <4>1. IsList(dir.sentences) BY <2>1, FilesAssumption
      <4>2. DOMAIN dir.sentences # {} BY <3>2, <4>1, SomeEntry
      <4> QED BY <2>4, <4>2
    <3>4. PICK i \in DOMAIN dir.sentences[k].uses : TRUE
      <4> DEFINE uses == dir.sentences[k].uses
      <4>1. uses # <<>> BY <2>1, <2>4 DEF Valid, SentencesParse
      <4>2. IsList(uses) BY <2>1, <2>4, FilesAssumption DEF Entries
      <4> HIDE DEF uses
      <4>3. DOMAIN uses # {} BY <4>1, <4>2, SomeEntry
      <4> QED BY <4>3 DEF uses
    <3>5. sentences[k].uses[i].item \in DOMAIN items BY <2>5
    <3> QED BY <2>3, <2>9, <3>1, <3>3, <3>5 DEF Old
  <2>11. ItemsOnce(items)
    <3> SUFFICES ASSUME NEW m \in DOMAIN items, NEW n \in DOMAIN items,
                        items[m].lemma = items[n].lemma
                 PROVE  m = n
      BY <2>3 DEF ItemsOnce
    <3>1. dir.items[m].lemma = dir.items[n].lemma BY <2>3
    <3>2. dir.items[m].id = dir.items[n].id
      BY <2>1, <2>6, <3>1, SameItem
    <3>3. UniqueIds(dir.items) BY <2>1 DEF Valid, ItemsParse
    <3> QED BY <2>2, <3>2, <3>3 DEF UniqueIds
  <2>12. SentencesOnce(sentences)
    BY <2>1, <2>4, <2>5, <2>9 DEF SentencesOnce, HashesDiffer
  <2> QED BY <2>7, <2>8, <2>10, <2>11, <2>12 DEF Tables
<1>5. Tables(items, sentences) BY <1>3, <1>4 DEF SeedInit
<1> QED BY <1>1, <1>2, <1>5 DEF SeedInv

\* What the scripts know of the tables, and the tables of the files, at any
\* time.
LEMMA SeedAlways == ASSUME OneHistory PROVE SeedSpec => []SeedInv
<1>1. SeedInit => SeedInv BY SeedInitFits
<1>2. SeedInv /\ [SeedNext]_seedVars => SeedInv'
  <2>1. ASSUME SeedInv, UNCHANGED seedVars PROVE SeedInv'
    <3>1. /\ items' = items /\ sentences' = sentences /\ run' = run
      BY <2>1 DEF seedVars
    <3>2. RowsInv' BY <2>1, <3>1 DEF SeedInv, RowsInv
    <3> QED BY <2>1, <3>1, <3>2 DEF SeedInv
  <2> QED BY <2>1, SeedNextStep
<1> QED BY <1>1, <1>2, PTL DEF SeedSpec

-----------------------------------------------------------------------------
(* The theorems *)

\* No item, no text of a seed sentence and no place in the order of a language
\* is in the database twice: for files of one history, however many loads and
\* backfills overlap, and whether or not the rows had ids before.
THEOREM NothingIsTwice == ASSUME OneHistory PROVE SeedSpec => []NothingTwice
<1>1. SeedInv => NothingTwice
  BY DEF SeedInv, Tables, ItemsOnce, SentencesOnce, NothingTwice, FromSeed,
         Seeds
<1> QED BY <1>1, SeedAlways, PTL

\* The row of an item is the only one that has the id.
LEMMA ItemHasId ==
  ASSUME OneHistory, NEW its, ItemsFit(its), ItemsOnce(its), NEW l \in Langs,
         NEW e \in ItemEntries(l), e.id # None,
         NEW m \in DOMAIN its, its[m].seed = e.id,
         NEW n \in DOMAIN its, IsItem(its[n], l, e.id)
  PROVE  its[n].seed = e.id
<1>1. its[m].lang = l /\ its[m].lemma = e.lemma BY RowOfItem
<1>2. PICK x \in ItemEntries(l) : x.id = e.id /\ x.lemma = its[n].lemma
  BY DEF IsItem
<1>3. x.lemma = e.lemma BY <1>2, SameItem
<1>4. its[n].lang = l BY DEF IsItem
<1>5. m = n BY <1>1, <1>2, <1>3, <1>4 DEF ItemsOnce
<1> QED BY <1>5

LEMMA LoadLeavesWhole ==
  ASSUME OneHistory, SeedInv, NEW p \in Scripts, LoadCommits(p),
         NEW l \in Langs, NEW dir \in Directories[l],
         run[p].lang = l, run[p].dir = dir
  PROVE  Whole(l, dir)'
<1> DEFINE r == run[p]
<1>1. /\ Loads(r) /\ Loading(r, items, sentences) /\ Valid(dir, l)
      /\ Grown(items, items', sentences, sentences')
  BY LoadKnowsTables, LoadGrows DEF Loads
<1>2. /\ ItemsFit(items') /\ ItemsOnce(items')
      /\ SentencesFit(items', sentences')
  BY LoadKeepsItems, LoadKeepsSentences
<1>3. RowsInv BY DEF SeedInv
<1>4. ASSUME NEW id \in Ids(dir.items)
      PROVE  /\ RowsOfFile(r)[id] \in DOMAIN items'
             /\ items'[RowsOfFile(r)[id]].seed = id
  BY LoadFindsRows
<1>5. ASSUME NEW e \in Entries(dir.items)
      PROVE  \E n \in DOMAIN items' : /\ items'[n].seed = e.id
                                      /\ items'[n].lang = l
                                      /\ items'[n].lemma = e.lemma
  <2>1. e \in ItemEntries(l) /\ e.id \in Ids(dir.items) /\ e.id # None
    BY FileEntries
  <2>2. PICK n \in DOMAIN items' : items'[n].seed = e.id BY <1>4, <2>1
  <2>3. items'[n].lang = l /\ items'[n].lemma = e.lemma
    BY <1>2, <2>1, <2>2, RowOfItem
  <2> QED BY <2>2, <2>3
<1>6. ASSUME NEW e \in Entries(dir.sentences)
      PROVE  \E n \in DOMAIN sentences' :
               LET s == sentences'[n] IN
               /\ s.seed = e.id
               /\ s.lang = l /\ s.text = e.text
               /\ DOMAIN s.uses = DOMAIN e.uses
               /\ \A i \in DOMAIN e.uses :
                    items'[s.uses[i].item].seed = e.uses[i].item
  <2>1. e \in SentenceEntries(l) /\ e.id # None BY FileEntries
  <2>2. ASSUME NEW i \in DOMAIN e.uses
        PROVE  e.uses[i].item \in Ids(dir.items)
    BY <1>1, UsesNamed
  <2>3. CASE e.id \notin r.known
    <3>1. PICK k \in NewSentenceRows :
            /\ sentences'[k].lang = l
            /\ sentences'[k].seed = e.id /\ sentences'[k].text = e.text
            /\ DOMAIN sentences'[k].uses = DOMAIN e.uses
            /\ \A i \in DOMAIN e.uses :
                 sentences'[k].uses[i].item = RowsOfFile(r)[e.uses[i].item]
      BY <1>3, <2>3, LoadAddsSentences
    <3>2. k \in DOMAIN sentences' BY DEF NewSentenceRows
    <3> QED BY <1>4, <2>2, <3>1, <3>2
  <2>4. CASE e.id \in r.known
    <3>1. e.id \in SeedIds(sentences')
      BY <1>1, <2>4, GrownIds DEF Loading
    <3>2. PICK k \in DOMAIN sentences' : sentences'[k].seed = e.id
      BY <3>1 DEF SeedIds
    <3>3. /\ sentences'[k].lang = l /\ sentences'[k].text = e.text
          /\ DOMAIN sentences'[k].uses = DOMAIN e.uses
          /\ \A i \in DOMAIN e.uses :
               /\ sentences'[k].uses[i].item \in DOMAIN items'
               /\ IsItem(items'[sentences'[k].uses[i].item], l,
                         e.uses[i].item)
      BY <1>2, <2>1, <3>2, RowOfSentence
    <3>4. ASSUME NEW i \in DOMAIN e.uses
          PROVE  items'[sentences'[k].uses[i].item].seed = e.uses[i].item
      <4>1. PICK x \in Entries(dir.items) : x.id = e.uses[i].item
        BY <2>2, FileEntries
      <4>2. x \in ItemEntries(l) /\ x.id \in Ids(dir.items) /\ x.id # None
        BY FileEntries
      <4>3. PICK m \in DOMAIN items' : items'[m].seed = x.id BY <1>4, <4>2
      <4>4. /\ sentences'[k].uses[i].item \in DOMAIN items'
            /\ IsItem(items'[sentences'[k].uses[i].item], l, x.id)
        BY <3>3, <4>1
      <4> QED BY <1>2, <4>1, <4>2, <4>3, <4>4, ItemHasId
    <3> QED BY <3>2, <3>3, <3>4
  <2> QED BY <2>3, <2>4
<1> QED BY <1>5, <1>6 DEF Whole

\* A load that ends well has left every entry of its files in the database,
\* under its id, with its own content, and its sentences about the right words:
\* for files of one history, whatever other scripts have done since it read.
THEOREM LoadsAreWhole == ASSUME OneHistory PROVE SeedSpec => LoadedWhole
<1>1. SeedSpec => []SeedInv BY SeedAlways
<1>2. SeedInv /\ [SeedNext]_seedVars =>
        [\A p \in Scripts, l \in Langs : \A dir \in Directories[l] :
           /\ Is(p, "inserting") /\ run[p].lang = l /\ run[p].dir = dir
           /\ LoadCommits(p)
           => Whole(l, dir)']_seedVars
  BY LoadLeavesWhole
<1> QED BY <1>1, <1>2, PTL DEF SeedSpec, LoadedWhole

=============================================================================
