---------------------------- MODULE SourceParsing -----------------------------
(* From the document of the source to identified records.                    *)
EXTENDS Integers, Sequences, FiniteSets, SequencesExt

(***************************************************************************)
(* parse() of packages/jobs/src/ingestion/source-adapter.ts: the upstream  *)
(* catalogue, a document of headings and tables, read line by line.        *)
(*                                                                         *)
(* A line is [level, name, row]: the level of its heading (0 for none), the*)
(* heading's text without emphasis, and otherwise its marks: the pipe, the *)
(* backslash, "-" for a run of dashes, "link" for a markdown link, "long"  *)
(* for a link whose text is over 200 characters, "w" for other text.       *)
(***************************************************************************)
CONSTANTS
  SourceLines,    \* the lines documents are made of
  MaxLines        \* bound: lines of a document

NoCategory == "none"
ASSUME SourceLinesAssumption == \A l \in SourceLines : l.name # NoCategory

VARIABLES
  document,           \* the lines read
  currentCategory, inTable,
  sourceRecords,      \* <<line number, category>> of each record, in order
  sourceFailures      \* <<line number, reason>> of each row given up

sourceVars == <<document, currentCategory, inTable, sourceRecords, sourceFailures>>

sourceInit ==
  /\ document = <<>> /\ currentCategory = NoCategory /\ inTable = FALSE
  /\ sourceRecords = <<>> /\ sourceFailures = <<>>

-----------------------------------------------------------------------------
isRow(line) == line.level = 0 /\ line.row # <<>> /\ line.row[1] = "|"

(* The outer pipes go, escaped or not; the rest is cut at the others.        *)
splitRow(row) ==
  LET left == IF row # <<>> /\ row[1] = "|" THEN Tail(row) ELSE row
      inner == IF left # <<>> /\ Last(left) = "|" THEN Front(left) ELSE left
      cuts == SetToSortSeq({i \in 1..Len(inner) : inner[i] = "|" /\ (i = 1 \/ inner[i - 1] # "\\")}, <)
  IN  [n \in 1..(Len(cuts) + 1) |->
         SubSeq(inner, IF n = 1 THEN 1 ELSE cuts[n - 1] + 1,
                       IF n > Len(cuts) THEN Len(inner) ELSE cuts[n] - 1)]

isSeparatorRow(line) ==
  /\ line.level = 0 /\ line.row # <<>>
  /\ \A n \in 1..Len(splitRow(line.row)) : splitRow(line.row)[n] = <<"-">>

(* Whether a link is found in a cell, and whether its text may be a name.    *)
parseMarkdownLink(cell) ==
  [href |-> \E i \in 1..Len(cell) : cell[i] \in {"link", "long"},
   fits |-> \A i \in 1..Len(cell) : cell[i] = "long" => \E j \in 1..(i - 1) : cell[j] = "link"]

(* What a row of a table becomes.                                            *)
reading(line, category) ==
  LET cells == splitRow(line.row)
      link == parseMarkdownLink(cells[1])
  IN  CASE Len(cells) < 5 -> "columns"
        [] ~link.href -> "no documentation URL"
        [] ~link.fits \/ category = "" -> "schema"
        [] OTHER -> "record"

-----------------------------------------------------------------------------
(* A level-3 heading begins a category.                                      *)
beginCategory(line) ==
  /\ line.level = 3
  /\ currentCategory' = line.name /\ inTable' = FALSE /\ UNCHANGED <<sourceRecords, sourceFailures>>

(* Mutant: headings above a category do not end it.                          *)
endSectionNot(line) ==
  /\ line.level \in {1, 2}
  /\ inTable' = FALSE /\ UNCHANGED <<currentCategory, sourceRecords, sourceFailures>>

(* A level-1 or level-2 heading ends the catalogue.                          *)
endSection(line) ==
  /\ line.level \in {1, 2}
  /\ currentCategory' = NoCategory /\ inTable' = FALSE /\ UNCHANGED <<sourceRecords, sourceFailures>>

beginTable(line) ==
  /\ isSeparatorRow(line)
  /\ inTable' = TRUE /\ UNCHANGED <<currentCategory, sourceRecords, sourceFailures>>

(* Text, rows outside the catalogue and the rows above a separator.          *)
skipLine(line) ==
  /\ line.level \in {0, 4} /\ ~isSeparatorRow(line)
  /\ ~isRow(line) \/ currentCategory = NoCategory \/ ~inTable
  /\ UNCHANGED <<currentCategory, inTable, sourceRecords, sourceFailures>>

(* Mutant: a row that is too short ends the table.                           *)
takeRowStopping(line) ==
  /\ isRow(line) /\ ~isSeparatorRow(line) /\ currentCategory # NoCategory /\ inTable
  /\ LET outcome == reading(line, currentCategory) number == Len(document) + 1
     IN  IF outcome = "record"
         THEN /\ sourceRecords' = Append(sourceRecords, <<number, currentCategory>>)
              /\ UNCHANGED <<sourceFailures, inTable>>
         ELSE /\ sourceFailures' = Append(sourceFailures, <<number, outcome>>) /\ UNCHANGED sourceRecords
              /\ inTable' = (outcome # "columns")
  /\ UNCHANGED currentCategory

(* A row becomes a record of the category, or a failure with its reason.     *)
takeRow(line) ==
  /\ isRow(line) /\ ~isSeparatorRow(line) /\ currentCategory # NoCategory /\ inTable
  /\ LET outcome == reading(line, currentCategory) number == Len(document) + 1
     IN  IF outcome = "record"
         THEN sourceRecords' = Append(sourceRecords, <<number, currentCategory>>) /\ UNCHANGED sourceFailures
         ELSE sourceFailures' = Append(sourceFailures, <<number, outcome>>) /\ UNCHANGED sourceRecords
  /\ UNCHANGED <<currentCategory, inTable>>

parseLine(line) ==
  /\ Len(document) < MaxLines /\ document' = Append(document, line)
  /\ beginCategory(line) \/ endSection(line) \/ beginTable(line) \/ skipLine(line) \/ takeRow(line)

sourceNext == \E line \in SourceLines : parseLine(line)

-----------------------------------------------------------------------------
(* Properties                                                                *)

(* The heading a line stands under: the last of level 1 to 3 before it.      *)
headingOf(i) ==
  LET above == {j \in 1..(i - 1) : document[j].level \in 1..3}
  IN  IF above = {} THEN 0 ELSE CHOOSE j \in above : \A k \in above : k =< j

(* The rows of the catalogue: those below a separator below a category.      *)
tableRows ==
  {i \in 1..Len(document) :
     LET h == headingOf(i)
     IN  /\ isRow(document[i]) /\ ~isSeparatorRow(document[i])
         /\ h # 0 /\ document[h].level = 3
         /\ \E s \in (h + 1)..(i - 1) : isSeparatorRow(document[s])}

(* "Must not throw on malformed rows" (source-adapter.ts:38), and must not   *)
(* lose any: each row of the catalogue's tables is one record, under the     *)
(* heading it stands under, or one failure, in the document's order; nothing *)
(* before the first category or after the section's end is either.  A pipe   *)
(* that is escaped inside a cell is no column (source-adapter.ts:45-46).     *)
EveryRowAccounted ==
  LET pipes(i) == {p \in 2..(Len(document[i].row) - 1) :
                     document[i].row[p] = "|" /\ document[i].row[p - 1] # "\\"}
      good(i) == /\ Cardinality(pipes(i)) >= 4 /\ document[headingOf(i)].name # ""
                 /\ \E p \in 1..Len(document[i].row) :
                      document[i].row[p] = "link" /\ \A q \in pipes(i) : p < q
      inOrder(rows) == SetToSortSeq(rows, <)
  IN  /\ sourceRecords = [n \in 1..Len(inOrder({i \in tableRows : good(i)})) |->
                            LET i == inOrder({j \in tableRows : good(j)})[n]
                            IN  <<i, document[headingOf(i)].name>>]
      /\ [n \in 1..Len(sourceFailures) |-> sourceFailures[n][1]] = inOrder({i \in tableRows : ~good(i)})

-----------------------------------------------------------------------------
(***************************************************************************)
(* packages/jobs/src/ingestion/normalizer.ts: what identifies a source     *)
(* record, and how the batch of an import is given slugs.                  *)
(*                                                                         *)
(* A URL is the record of its parts; a slug is the sequence of its words,  *)
(* so that a suffix is one more word.  An import reads the slugs of the    *)
(* database, resolves its batch, and writes the rows one chunk after the   *)
(* other, of which some may be lost; every import may list its records in  *)
(* another order.  Rows are never deleted, and an update keeps the slug    *)
(* the row has (persist.ts:218-230).                                       *)
(***************************************************************************)
CONSTANTS
  Batch,          \* the records: fingerprint -> [slug, label], label the provider's first
  SeedRows,       \* slugs the seed has put in the database, with their fingerprints
  SlugNumbers,    \* the numbers tried, in order; "2" to "50" in the code
  MaxImports,     \* bound: imports
  Hosts, Paths    \* parts of URLs

(* Slugs are words; a fingerprint is told apart from the words of a slug, as *)
(* the last resort supposes.                                                 *)
ASSUME NormalizerAssumption ==
  /\ IsFiniteSet(DOMAIN Batch) /\ "nobody" \notin DOMAIN Batch /\ DOMAIN Batch \subseteq STRING
  /\ \A f \in DOMAIN Batch : /\ Batch[f].slug \in Seq(STRING) \ {<<>>} /\ Batch[f].label \in STRING
                            /\ {Last(Batch[f].slug), Batch[f].label} \cap DOMAIN Batch = {}
  /\ SlugNumbers \in Seq(STRING) /\ Range(SlugNumbers) \cap DOMAIN Batch = {}
  /\ \A slug \in DOMAIN SeedRows : Last(slug) \notin DOMAIN Batch /\ SeedRows[slug] # "nobody"

VARIABLES
  owner,      \* apis: slug -> fingerprint
  plan,       \* unique: the resolved rows still to be written, [fingerprint, slug]
  imports,    \* imports begun
  clash,      \* a row was rejected by the UNIQUE constraint of slugs
  link         \* a URL to canonicalise

slugVars == <<owner, plan, imports, clash>>
normalizerVars == <<slugVars, link>>

-----------------------------------------------------------------------------
(* Identity                                                                  *)

Schemes == {"https", "http", "ftp"}
Ports == {"default", "other"}
Tracking == {"utm_source", "ref"}
NotUrl == [scheme |-> "none"]

(* www: how often the host begins with "www."; slashes: at the end of the    *)
(* path; encoded: the query is written in a form URLSearchParams would write *)
(* otherwise.  The case of the host, a default port, a trailing dot and the  *)
(* fragment are dropped outright and left out.                               *)
Urls ==
  [scheme : Schemes, www : 0..2, host : Hosts, port : Ports, path : Paths, slashes : 0..2,
   keys : SUBSET (Tracking \cup {"q"}), encoded : BOOLEAN]

(* Mutant: the slashes of a path are taken for part of it.                   *)
canonicalizeUrlRoot(u) ==
  IF u.scheme \notin {"https", "http"} THEN NotUrl
  ELSE [u EXCEPT !.www = IF @ > 0 THEN @ - 1 ELSE 0, !.slashes = IF u.path = "/" THEN 0 ELSE @,
                 !.keys = @ \ Tracking, !.encoded = @ /\ u.keys \cap Tracking = {}]

(* canonicalizeUrl(): one "www." is taken off, a path loses its slashes, and *)
(* deleting a tracking parameter writes the rest of the query anew.          *)
canonicalizeUrl(u) ==
  IF u.scheme \notin {"https", "http"} THEN NotUrl
  ELSE [u EXCEPT !.www = IF @ > 0 THEN @ - 1 ELSE 0, !.slashes = 0,
                 !.keys = @ \ Tracking, !.encoded = @ /\ u.keys \cap Tracking = {}]

(* hostOf(): the provider; once more without "www.".                         *)
hostOf(u) == <<u.host, IF u.www > 0 THEN u.www - 1 ELSE 0>>

(* fingerprintOf(): a hash, taken for its arguments; the name is its slug.   *)
fingerprintOf(sourceName, canonical, slug) == <<sourceName, canonical, slug>>

(* normalize(): no usable URL, no record.                                    *)
normalize(sourceName, u, slug) ==
  IF canonicalizeUrl(u) = NotUrl THEN NotUrl
  ELSE [fingerprint |-> fingerprintOf(sourceName, canonicalizeUrl(u), slug),
        provider |-> hostOf(canonicalizeUrl(u))]

(* The records to normalise, one after the other.                            *)
readLink(u) == link = NotUrl /\ link' = u /\ UNCHANGED slugVars

-----------------------------------------------------------------------------
(* Slugs                                                                     *)

noOwner == "nobody"
ownerIn(rows, slug) == IF slug \in DOMAIN rows THEN rows[slug] ELSE noOwner

normalizerInit ==
  /\ owner = SeedRows
  /\ plan = <<>> /\ imports = 0 /\ clash = FALSE
  /\ link = NotUrl

(* Mutant: only slugs of this batch are minded.                              *)
isTakenHere(claims, reserved, slug, fingerprint) == slug \in claims

(* Mutant: a slug in the database is taken even for the row that has it.     *)
isTakenByAny(claims, reserved, slug, fingerprint) ==
  slug \in claims \/ ownerIn(reserved, slug) # noOwner

(* isTaken(): claimed in this pass, or another row's.                        *)
isTaken(claims, reserved, slug, fingerprint) ==
  slug \in claims \/ ownerIn(reserved, slug) \notin {noOwner, fingerprint}

(* The slug itself, the provider's label, then numbers.                      *)
candidates(slug, label) ==
  <<slug>> \o (IF <<label>> = slug THEN <<>> ELSE <<Append(slug, label)>>)
           \o [i \in 1..Len(SlugNumbers) |-> Append(slug, SlugNumbers[i])]

(* The first candidate not taken, or the fingerprint as a last resort.       *)
resolved(fingerprint, claims, reserved) ==
  LET api == Batch[fingerprint]
      tried == candidates(api.slug, api.label)
      open == {i \in 1..Len(tried) : ~isTaken(claims, reserved, tried[i], fingerprint)}
  IN  IF open = {} THEN Append(api.slug, fingerprint) ELSE tried[Min(open)]

(* resolveSlugCollisions(): the batch in order, each record minding the      *)
(* claims of those before it.                                                *)
resolveSlugCollisions(order, reserved) ==
  LET slugs[n \in 1..Len(order)] == resolved(order[n], {slugs[m] : m \in 1..(n - 1)}, reserved)
  IN  [n \in 1..Len(order) |-> [fingerprint |-> order[n], slug |-> slugs[n]]]

(* execute() reads the slugs there are and resolves its batch.               *)
resolveBatch(order) ==
  /\ plan = <<>> /\ imports < MaxImports /\ imports' = imports + 1
  /\ plan' = resolveSlugCollisions(order, owner)
  /\ UNCHANGED <<owner, clash, link>>

(* The row is updated when the fingerprint is there, and keeps its slug;     *)
(* otherwise it is inserted, unless its slug is another row's.               *)
writeRow ==
  LET row == Head(plan)
      known == \E slug \in DOMAIN owner : owner[slug] = row.fingerprint
      rejected == ~known /\ row.slug \in DOMAIN owner
  IN  /\ plan # <<>> /\ plan' = Tail(plan)
      /\ owner' = IF known \/ rejected THEN owner
                  ELSE [s \in DOMAIN owner \cup {row.slug} |->
                          IF s = row.slug THEN row.fingerprint ELSE owner[s]]
      /\ clash' = (clash \/ rejected)
      /\ UNCHANGED <<imports, link>>

(* Its chunk fails for another reason and is passed over.                    *)
loseRow == plan # <<>> /\ plan' = Tail(plan) /\ UNCHANGED <<owner, imports, clash, link>>

(* A batch need not list every record.                                       *)
Orders == UNION {SetToSeqs(s) : s \in SUBSET DOMAIN Batch \ {{}}}

slugsNext == (\E order \in Orders : resolveBatch(order)) \/ writeRow \/ loseRow

linksNext == \E u \in Urls : readLink(u)

-----------------------------------------------------------------------------
(* Properties                                                                *)

(* Slugs carry a UNIQUE constraint, and collisions are resolved "before      *)
(* insert or the row is rejected" (normalizer.ts:227-237): whatever orders   *)
(* the imports list their records in and whatever rows were lost on the way, *)
(* no two rows of a plan share a slug, none is another row's in the          *)
(* database, no insert is ever rejected, and a row with the plain slug of    *)
(* its record is planned with it again.                                      *)
SlugsNeverClash ==
  /\ ~clash
  /\ \A i, j \in 1..Len(plan) : plan[i].slug = plan[j].slug => i = j
  /\ \A i \in 1..Len(plan) :
       LET o == ownerIn(owner, plan[i].slug)
       IN  o \in {noOwner, plan[i].fingerprint}
  /\ \A i \in 1..Len(plan) :
       LET f == plan[i].fingerprint
       IN  ownerIn(owner, Batch[f].slug) = f => plan[i].slug = Batch[f].slug

(* Copies of a link that differ in the "www." of the host, the trailing      *)
(* slashes or tracking parameters are one API of one provider                *)
(* (normalizer.ts:62-69), and what points elsewhere is another.  A query     *)
(* that URLSearchParams would write otherwise is the exception: it is        *)
(* rewritten only when something is deleted from it.                         *)
CopiesShareIdentity ==
  link # NotUrl /\ link.www < 2 /\ ~link.encoded =>
    /\ \A www \in 0..1, slashes \in 0..2, tracked \in SUBSET Tracking :
         normalize("s", link, <<"x">>) =
           normalize("s", [link EXCEPT !.www = www, !.slashes = slashes,
                                      !.keys = (@ \ Tracking) \cup tracked], <<"x">>)
    /\ normalize("s", link, <<"x">>) # NotUrl =>
         \A other \in Urls :
           other.www < 2 /\ ~other.encoded
           /\ normalize("s", other, <<"x">>) = normalize("s", link, <<"x">>) =>
                /\ <<other.scheme, other.host, other.port, other.path>> =
                     <<link.scheme, link.host, link.port, link.path>>
                /\ other.keys \ Tracking = link.keys \ Tracking
=============================================================================
