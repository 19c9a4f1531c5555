-------------------------- MODULE MCImportPipeline --------------------------
(* A and B are ids, e, f and g emails or slugs, U is a user and an article *)
(* that exist and V ones that do not.  A file holds up to three records    *)
(* when a job runs alone and up to two when two jobs meet.                 *)
EXTENDS ImportPipeline

CONSTANTS i, j, A, B, e, f, g, U, V

One == {i}
Two == {i, j}
AllNames == {A, B, e, f, g, U, V}

Refs(us, as) == [users |-> us, articles |-> as, comments |-> {}]
Rec(n, k, refs) == [good |-> TRUE, id |-> n, key |-> k, refs |-> refs]

Users == {Rec(n, k, Refs({}, {})) : n \in {A, B, NoName}, k \in {e, f}}
Articles == {Rec(n, k, Refs({U}, {})) : n \in {A, B, NoName}, k \in {e, f}}
Comments == {Rec(n, n, Refs({U}, {U})) : n \in {A, B}}
OrphanArticle == Rec(A, e, Refs({V}, {}))
OrphanComment == Rec(A, A, Refs({U}, {V}))

Files(records, n) == UNION {[1..m -> records] : m \in 0..n}
About(entity, files) == {[entity |-> entity, json |-> FALSE, file |-> s] : s \in files}
Json(input) == [input EXCEPT !.json = TRUE]

(* Three emails or slugs for two ids: a row may give up its key to another *)
(* while the file is imported, and what was refused fits the next time.    *)
Passes(refs) ==
  {s \in [1..3 -> {Rec(n, k, refs) : n \in {A, B}, k \in {e, f, g}}] :
     {s[n].key : n \in 1..3} = {e, f, g}}

(* A line that cannot be written, at any place of a batch.                 *)
Files3(records, refused) ==
  Files(records, 3) \cup Files(records \cup {refused}, 2)
  \cup {<<r, refused, s>> : r, s \in records}

(* JSON files, which may break off anywhere.                               *)
Broken == {<<Rec(A, e, Refs({}, {})), Rec(n, f, Refs({}, {}))>> : n \in {A, B}}

AnyFile == About("users", Files3(Users, Bad) \cup Passes(Refs({}, {})))
           \cup {Json(b) : b \in About("users", Broken)}
           \cup About("articles", Files3(Articles, OrphanArticle))
           \cup About("comments", Files3(Comments, OrphanComment))

NoRows == [n \in AllNames |-> NoName]

(* The rows that earlier imports can have left under the keys e and f, up  *)
(* to renaming A and B, and e and f: files are closed under both.          *)
Owned ==
  {NoRows,
   [NoRows EXCEPT ![A] = e],
   [NoRows EXCEPT ![e] = e],
   [NoRows EXCEPT ![A] = e, ![B] = f],
   [NoRows EXCEPT ![A] = e, ![f] = f],
   [NoRows EXCEPT ![e] = e, ![f] = f]}
WithU(t) == [t EXCEPT ![U] = U]

(* An import of users does not look at the articles, and one of articles   *)
(* only whether U and V are users: both tables may hold the same.          *)
AnyDatabase ==
  {[users |-> WithU(t), articles |-> WithU(t),
    comments |-> IF t = NoRows THEN NoRows ELSE [NoRows EXCEPT ![A] = A]] : t \in Owned}

(* Two imports meet: files that want the same ids and keys, in either      *)
(* order, and articles whose author another import brings.                 *)
Meeting(refs) ==
  {<<Rec(n, e, refs)>> : n \in {A, B, NoName}}
  \cup {<<Rec(A, f, refs)>>, <<Rec(A, e, refs), Rec(B, f, refs)>>,
        <<Rec(B, f, refs), Rec(A, e, refs)>>, <<Rec(A, f, refs), Rec(B, e, refs)>>}

MeetingFiles ==
  About("users", Meeting(Refs({}, {})) \cup {<<Rec(V, V, Refs({}, {}))>>})
  \cup About("articles", Meeting(Refs({U}, {}))
                          \cup {<<Rec(A, e, Refs({V}, {}))>>,
                                <<Rec(B, e, Refs({B}, {})), Rec(A, f, Refs({A}, {}))>>})

MeetingDatabases ==
  {[users |-> WithU(t), articles |-> t, comments |-> NoRows] :
     t \in {NoRows, [NoRows EXCEPT ![A] = e], [NoRows EXCEPT ![A] = e, ![B] = f]}}
=============================================================================
