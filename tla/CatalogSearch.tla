---------------------------- MODULE CatalogSearch ----------------------------
(***************************************************************************)
(* What the catalogue computes from entries (gui/internal/catalog): the    *)
(* image written to disk and read back (cache.go), the index built from it *)
(* and the pages, categories and rows it answers with (search.go).         *)
(*                                                                         *)
(* A name is a natural number and sorts like one.  A search text is what   *)
(* it matches: for a name, the kind of its best match in the package name, *)
(* the application name and the summary.                                   *)
(***************************************************************************)
EXTENDS Naturals, Sequences, FiniteSets, SequencesExt

CONSTANTS Buckets,      \* searchLenBuckets: lengths a rank tells apart
          NameLen(_),   \* the length of a name
          MaxInterned,  \* cacheMaxInterned: distinct strings an image can number
          MaxPage       \* MaxPageSize

None == 0

(* An entry has an application's name iff it has a type; a desktop application *)
(* is one the picker can be narrowed to (dep11App.IsApp).                      *)
IsApp(e) == e.type = "desktop-application"

(* The elements of S in the order of Less, each preceded by those that come before *)
(* it; and the elements of a sequence that pass a test, in their order.            *)
Sorted(S, Less(_, _)) ==
  [k \in 1..Cardinality(S) |-> CHOOSE x \in S : Cardinality({y \in S : Less(y, x)}) = k - 1]
Where(seq, Test(_)) == LET at == Sorted({i \in DOMAIN seq : Test(seq[i])}, <) IN [k \in DOMAIN at |-> seq[at[k]]]

-----------------------------------------------------------------------------
(* The image.  Sections and categories are numbered in a table of their own;  *)
(* number 1 is the empty string.                                              *)

(* cacheSortedUnique: by name, of equal names the last one given. *)
SortedUnique(es) ==
  LET last == {i \in DOMAIN es : es[i].name # None /\ \A j \in DOMAIN es : es[j].name = es[i].name => j <= i}
      order == Sorted(last, LAMBDA i, j : es[i].name < es[j].name)
  IN [k \in DOMAIN order |-> es[order[k]]]

(* cacheArena.intern *)
Interned(table, s) == IF \E i \in DOMAIN table : table[i] = s THEN table ELSE Append(table, s)
IdOf(table, s) == CHOOSE i \in DOMAIN table : table[i] = s

Strings(e) == <<e.section>> \o e.cats

(* cacheBuildImage: the table, the records that point into it and the counts. *)
BuildImage(es) ==
  LET table == FoldLeft(Interned, <<"">>, FlattenSeq([i \in DOMAIN es |-> Strings(es[i])]))
      record(e) == [name |-> e.name, from |-> e.from, type |-> e.type, desc |-> e.desc,
                    section |-> IdOf(table, e.section),
                    cats |-> [c \in DOMAIN e.cats |-> IdOf(table, e.cats[c])]]
  IN [ok |-> Len(table) <= MaxInterned, table |-> table, records |-> [i \in DOMAIN es |-> record(es[i])]]

(* CacheFromBytes and CacheFile.Entry: what the records say, an id outside the *)
(* table being the empty string.                                               *)
StringAt(img, id) == IF id \in DOMAIN img.table THEN img.table[id] ELSE ""
EntryAt(img, i) ==
  LET r == img.records[i]
  IN [name |-> r.name, from |-> r.from, type |-> r.type, desc |-> r.desc, section |-> StringAt(img, r.section),
      cats |-> Where([c \in DOMAIN r.cats |-> StringAt(img, r.cats[c])], LAMBDA s : s # "")]
Decode(img) == [i \in DOMAIN img.records |-> EntryAt(img, i)]

-----------------------------------------------------------------------------
(* The index.                                                              *)

(* newSearchIndex: rows by name, of equal names in the order given, and for *)
(* every category the rows that are in it.                                  *)
Ordered(es) ==
  LET order == Sorted(DOMAIN es, LAMBDA i, j : es[i].name < es[j].name \/ (es[i].name = es[j].name /\ i < j))
  IN [k \in DOMAIN es |-> es[order[k]]]

CategoryIds(e) == {<<"app", e.cats[c]>> : c \in DOMAIN e.cats} \cup
                  (IF e.section = "" THEN {} ELSE {<<"section", e.section>>})
Rows(rows, P(_)) == Sorted({k \in DOMAIN rows : P(rows[k])}, <)
Postings(rows, id) == Rows(rows, LAMBDA e : id \in CategoryIds(e))
NewSearchIndex(es) ==
  LET rows == Ordered(es)
  IN [rows |-> rows, appRows |-> Rows(rows, IsApp),
      postings |-> [id \in UNION {CategoryIds(rows[k]) : k \in DOMAIN rows} |-> Postings(rows, id)]]

(* searchCategories: application categories that are main ones, and sections. *)
Categories(ix, main) ==
  [id \in {c \in DOMAIN ix.postings : c[1] = "section" \/ c[2] \in main} |-> Len(ix.postings[id])]

(* Get *)
Get(ix, name) ==
  LET hits == {k \in DOMAIN ix.rows : ix.rows[k].name = name}
  IN IF hits = {} THEN None ELSE CHOOSE k \in hits : \A j \in hits : k <= j

-----------------------------------------------------------------------------
(* Search.                                                                 *)

Kinds == <<"exact", "prefix", "word", "sub">>
KindNo(kind) == CHOOSE k \in 1..4 : Kinds[k] = kind
Bucket(n) == IF n >= Buckets THEN Buckets - 1 ELSE n
NoRank == 10 * Buckets

(* searchRank: the tiers go name exact, application exact, name prefix and so  *)
(* on, a better one first; within a tier shorter names come first.  A summary  *)
(* counts only when neither name matches.                                      *)
Tier(kind, app) == IF kind = "none" THEN 10 ELSE 2 * (KindNo(kind) - 1) + (IF app THEN 1 ELSE 0)
SearchRank(e, text) ==
  LET m    == text[e.name]
      best == IF m.name = "exact" \/ e.type = "" \/ Tier(m.name, FALSE) < Tier(m.app, TRUE)
              THEN Tier(m.name, FALSE) ELSE Tier(m.app, TRUE)
  IN IF best < 10 THEN best * Buckets + Bucket(NameLen(e.name))
     ELSE CASE m.summary = "none" -> NoRank
            [] m.summary = "sub" -> 9 * Buckets
            [] OTHER -> 8 * Buckets

(* Query.Normalized *)
Normalized(q) == [q EXCEPT !.limit = IF q.limit = 0 \/ q.limit > MaxPage THEN MaxPage ELSE q.limit]

(* searchScope: the rows of the category, of the applications, or all. *)
Scope(ix, q) ==
  IF q.cat # <<>> THEN (IF q.cat \in DOMAIN ix.postings THEN ix.postings[q.cat] ELSE <<>>)
  ELSE IF q.apps THEN ix.appRows
  ELSE [k \in DOMAIN ix.rows |-> k]
\* Mutant of Filtered: a category is not narrowed to applications.
FilteredByScope(ix, q) == Scope(ix, q)

(* A category narrowed to applications is filtered row by row. *)
Filtered(ix, q) == IF q.cat # <<>> /\ q.apps
                   THEN Where(Scope(ix, q), LAMBDA k : IsApp(ix.rows[k])) ELSE Scope(ix, q)

Want(q, total) == IF q.offset >= total THEN 0
                  ELSE IF total - q.offset > q.limit THEN q.limit ELSE total - q.offset

(* searchBrowse: no text, so the rows are in order already. *)
SearchBrowse(ix, q) ==
  LET rows == Filtered(ix, q)
      want == Want(q, Len(rows))
  IN [total |-> Len(rows), rows |-> [j \in 1..want |-> rows[q.offset + j]]]

(* Search: one pass counts the rows of every rank, a second gives each row its *)
(* place, ranks in order and rows of a rank in the order they are met, and     *)
(* keeps those on the page.                                                    *)
SearchText(ix, q) ==
  LET hits  == Where(Filtered(ix, q), LAMBDA k : SearchRank(ix.rows[k], q.text) # NoRank)
      rank(k) == SearchRank(ix.rows[k], q.text)
      base  == [r \in 0..NoRank |-> Cardinality({k \in DOMAIN hits : rank(hits[k]) < r})]
      place == FoldLeft(LAMBDA acc, k : [next |-> [acc.next EXCEPT ![rank(k)] = @ + 1],
                                         pos |-> Append(acc.pos, acc.next[rank(k)])],
                        [next |-> base, pos |-> <<>>], hits).pos
      want  == Want(q, Len(hits))
  IN [total |-> Len(hits),
      rows |-> [j \in 1..want |-> hits[CHOOSE k \in DOMAIN hits : place[k] = q.offset + j - 1]]]

Search(ix, raw) == LET q == Normalized(raw)
                   IN IF q.text = <<>> THEN SearchBrowse(ix, q) ELSE SearchText(ix, q)
=============================================================================
