---------------------------- MODULE ImportRules ----------------------------
(***************************************************************************)
(* The rules of an import that look at more than one record: which row of  *)
(* the database a record stands for, when a record repeats another, and    *)
(* what the merge into the production tables does                          *)
(* (application/import/batchFlusher.ts, stagingMerger.ts and               *)
(* infrastructure/repositories/stagingRepository.ts).                      *)
(*                                                                         *)
(* Ids and natural keys are both members of Names, because a record        *)
(* without an id takes its natural key for one.  A table is a function     *)
(* from external ids to natural keys: email for users, slug for articles.  *)
(* A comment has no natural key and always an id; its id stands for both.  *)
(* What else a record holds is not told apart.                             *)
(***************************************************************************)
EXTENDS Naturals

CONSTANTS Names, NoName

ASSUME NamesAssumption == NoName \notin Names

Entities == {"users", "articles", "comments"}
Tables == [Entities -> [Names -> Names \cup {NoName}]]

Records == [good : {TRUE}, id : Names \cup {NoName}, key : Names,
            refs : [Entities -> SUBSET Names]]
Rows == [line : Nat \ {0}, id : Names, key : Names]

Has(t, i) == t[i] # NoName

(* The unique indexes on external_id, users.email and articles.slug; the   *)
(* key of a comment is its id.                                             *)
KeysUnique(t) == \A i, k \in Names : Has(t, i) /\ t[i] = t[k] => i = k
Sound(db) ==
  /\ \A e \in Entities : KeysUnique(db[e])
  /\ \A i \in Names : db["comments"][i] \in {i, NoName}

(* findExistingExternalIds: authors of articles, users and articles of     *)
(* comments.                                                               *)
Orphan(db, r) == \E e \in Entities : \E i \in r.refs[e] : ~Has(db[e], i)

(* findUserExternalIdsByEmail and findArticleExternalIdsBySlug             *)
Owners(db, e, k) == {i \in Names : db[e][i] = k}

(* existing.get(key) ?? data.id ?? key                                     *)
Resolved(db, e, r) ==
  LET owners == Owners(db, e, r.key) IN
  IF owners # {} THEN CHOOSE i \in owners : TRUE
  ELSE IF r.id # NoName THEN r.id ELSE r.key

(* ID_NATURAL_KEY_MISMATCH exists for users only.                          *)
Mismatch(db, e, r) ==
  e = "users" /\ \E i \in Owners(db, e, r.key) : r.id \notin {NoName, i}

(* DUPLICATE_NATURAL_KEY exists for users only: articles are left to       *)
(* SlugConflicts.                                                          *)
SameKey(e, rows, r) == e = "users" /\ \E s \in rows : s.key = r.key

(* Mutant: emails are compared within the batch only.                      *)
Accepted_BatchEmails(db, e, staged, batch, r) ==
  /\ ~Orphan(db, r)
  /\ ~SameKey(e, batch, r)
  /\ ~Mismatch(db, e, r)
  /\ \A s \in staged \cup batch : s.id # Resolved(db, e, r)

(* Mutant: an id that is not the owner's is no error.                      *)
Accepted_AnyId(db, e, staged, batch, r) ==
  /\ ~Orphan(db, r)
  /\ ~SameKey(e, staged \cup batch, r)
  /\ \A s \in staged \cup batch : s.id # Resolved(db, e, r)

(* One iteration of flushUsersBatch, flushArticlesBatch and                *)
(* flushCommentsBatch: is the record written to staging, or logged?  db is *)
(* what the batch read of the production tables when it began, staged the  *)
(* rows of earlier batches, batch those of this one.                       *)
Accepted(db, e, staged, batch, r) ==
  /\ ~Orphan(db, r)
  /\ ~SameKey(e, staged \cup batch, r)
  /\ ~Mismatch(db, e, r)
  /\ \A s \in staged \cup batch : s.id # Resolved(db, e, r)

(* findAndDeleteSlugConflicts: of the staged articles, those whose slug is *)
(* another article's, and of the rest those that repeat the slug of an     *)
(* earlier one.                                                            *)
SlugConflicts(t, rows) ==
  LET taken == {r \in rows : \E i \in Names : t[i] = r.key /\ i # r.id}
  IN taken \cup {r \in rows \ taken :
                   \E s \in rows \ taken : /\ s.line < r.line
                                           /\ s.key = r.key
                                           /\ s.id # r.id}

(* INSERT ... ON CONFLICT (external_id) DO UPDATE, a single statement.     *)
Merged(t, rows) ==
  [i \in Names |-> IF \E s \in rows : s.id = i
                   THEN (CHOOSE s \in rows : s.id = i).key ELSE t[i]]

(* PostgreSQL refuses the statement, and so all of it, when it would touch *)
(* a row twice or put a natural key to use twice: rows are taken by line,  *)
(* so a key is free again once an earlier line has moved its owner.        *)
MergeAccepts(t, rows) ==
  /\ \A r, s \in rows : r # s => r.id # s.id /\ r.key # s.key
  /\ \A r \in rows, i \in Names :
       t[i] = r.key /\ i # r.id => \E s \in rows : s.line < r.line /\ s.id = i
=============================================================================
