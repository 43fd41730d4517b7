------------------------------ MODULE TextSearch ------------------------------
(* The text structures of packages/algorithms/src.                           *)
EXTENDS Integers, Sequences, FiniteSets, SequencesExt, FiniteSetsExt, Functions

(***************************************************************************)
(* Two pure algorithms of packages/algorithms/src: editDistance() with its *)
(* rolling rows and early exit (text.ts), over texts typed character by    *)
(* character, and BloomFilter (bloom-filter.ts), whose hashes are a given  *)
(* function from values to bits.                                           *)
(***************************************************************************)
CONSTANTS
  Alphabet,        \* characters
  MaxLength,       \* bound: length of a text
  MaxDistance,     \* the largest maxDistance asked for
  BloomBits,       \* value -> the bits baseHashes() and combinedHash() give it
  BloomLimit       \* bound: values added

ASSUME TextAssumption == MaxLength \in Nat /\ MaxDistance \in Nat /\ BloomLimit \in Nat

VARIABLES
  textA, textB,    \* the two texts
  bits,            \* the bits set
  bloomCount,      \* itemCount
  added            \* history: the values added

textVars == <<textA, textB, bits, bloomCount, added>>
bloomVars == <<bits, bloomCount, added>>

textInit == textA = <<>> /\ textB = <<>> /\ bits = {} /\ bloomCount = 0 /\ added = {}

typeChar(c) ==
  /\ \/ Len(textA) < MaxLength /\ textA' = Append(textA, c) /\ UNCHANGED textB
     \/ Len(textB) < MaxLength /\ textB' = Append(textB, c) /\ UNCHANGED textA
  /\ UNCHANGED bloomVars

abs(n) == IF n < 0 THEN -n ELSE n

(* One row of the table from the previous one, over the shorter text.        *)
nextRow(previous, source, c, j) ==
  LET row[i \in 0..Len(source)] ==
        IF i = 0 THEN j
        ELSE Min({row[i - 1] + 1, previous[i] + 1, previous[i - 1] + IF source[i] = c THEN 0 ELSE 1})
  IN row

(* Mutant: the early exit looks at the last cell of the row, not the least.  *)
rowOverLast(row, n, maxDistance) == row[n] > maxDistance

(* The early exit of a row.                                                  *)
rowOver(row, n, maxDistance) == Min({row[i] : i \in 0..n}) > maxDistance

(* editDistance()                                                            *)
editDistance(a, b, maxDistance) ==
  LET source == IF Len(a) > Len(b) THEN b ELSE a
      target == IF Len(a) > Len(b) THEN a ELSE b
      rows[j \in 0..Len(target)] ==
        IF j = 0 THEN [over |-> FALSE, row |-> [i \in 0..Len(source) |-> i]]
        ELSE LET r == rows[j - 1] IN
             IF r.over THEN r
             ELSE LET n == nextRow(r.row, source, target[j], j)
                  IN [over |-> rowOver(n, Len(source), maxDistance), row |-> n]
      end == rows[Len(target)]
  IN CASE a = b -> 0
       [] a # b /\ a = <<>> -> Len(b)
       [] a # b /\ b = <<>> -> Len(a)
       [] OTHER -> IF abs(Len(a) - Len(b)) > maxDistance \/ end.over THEN maxDistance + 1
                   ELSE end.row[Len(source)]

(* BloomFilter.has()                                                         *)
bloomHas(v) == BloomBits[v] \subseteq bits

(* add(), addAndCheck(): the latter adds only what seems new.                *)
bloomAdd(v) ==
  /\ bloomCount < BloomLimit
  /\ bits' = bits \cup BloomBits[v] /\ bloomCount' = bloomCount + 1 /\ added' = added \cup {v}
  /\ UNCHANGED <<textA, textB>>

bloomAddAndCheck(v) ==
  /\ IF bloomHas(v) THEN UNCHANGED <<bits, bloomCount>>
     ELSE bloomCount < BloomLimit /\ bits' = bits \cup BloomBits[v] /\ bloomCount' = bloomCount + 1
  /\ added' = added \cup {v}
  /\ UNCHANGED <<textA, textB>>

bloomClear == bits' = {} /\ bloomCount' = 0 /\ added' = {} /\ UNCHANGED <<textA, textB>>

typingNext == \E c \in Alphabet : typeChar(c)
bloomNext == \/ \E v \in DOMAIN BloomBits : bloomAdd(v) \/ bloomAddAndCheck(v)
             \/ bloomClear

-----------------------------------------------------------------------------
(* The least number of insertions, deletions and substitutions, by the       *)
(* recurrence on the texts' last characters.                                 *)
distance(a, b) ==
  LET d[i \in 0..Len(a), j \in 0..Len(b)] ==
        CASE i = 0 -> j
          [] i # 0 /\ j = 0 -> i
          [] OTHER -> IF a[i] = b[j] THEN d[i - 1, j - 1]
                      ELSE 1 + Min({d[i - 1, j], d[i, j - 1], d[i - 1, j - 1]})
  IN d[Len(a), Len(b)]

(* editDistance() is the Levenshtein distance, and with a bound it answers   *)
(* maxDistance + 1 exactly for the texts further apart, except that an empty *)
(* text is compared before the bound is looked at: "early exit once the best *)
(* possible distance exceeds maxDistance" (text.ts:117-118) never loses a    *)
(* match.  It is symmetric.                                                  *)
DistanceExact ==
  LET d == distance(textA, textB) IN
  \A m \in 0..MaxDistance :
    /\ editDistance(textA, textB, m) =
         IF d <= m \/ textA = <<>> \/ textB = <<>> THEN d ELSE m + 1
    /\ editDistance(textB, textA, m) = editDistance(textA, textB, m)

(* "No false negatives" (bloom-filter.ts:10): a value once added is found    *)
(* until the filter is cleared, whatever was added besides.                  *)
NoFalseNegatives == \A v \in added : bloomHas(v)

-----------------------------------------------------------------------------
(***************************************************************************)
(* packages/algorithms/src/trie.ts: terms with scores, and at every node   *)
(* (a prefix) the cached best completions beneath it.  A term is a key and *)
(* a spelling: insert() looks its node up by the lower-cased key, but      *)
(* mergeBest() recognises a term by its spelling.  Terms compete only at   *)
(* nodes on their paths, so the nodes are those of the given keys.         *)
(***************************************************************************)
CONSTANTS
  TrieKeys,         \* the keys: sequences of characters
  TrieSpellings,    \* ways of writing a key
  TrieScores,
  MaxSuggestions,   \* maxSuggestionsPerNode
  MaxInserts        \* bound: terms inserted

ASSUME TrieAssumption ==
  MaxSuggestions \in Nat \ {0} /\ MaxInserts \in Nat /\ TrieScores \subseteq Nat

trieNodes == UNION {Prefixes(k) : k \in TrieKeys}

VARIABLES
  terminal,   \* the entry that ends at each node, if there is one
  cached,     \* the best list of each node
  termCount,  \* count
  inserts,    \* bound
  demoted     \* history: a key was inserted anew with a lower score or another spelling

trieVars == <<terminal, cached, termCount, inserts, demoted>>

noTerm == [key |-> <<>>, spelling |-> "none", score |-> 0]

trieInit ==
  /\ terminal = [p \in trieNodes |-> noTerm] /\ cached = [p \in trieNodes |-> <<>>]
  /\ termCount = 0 /\ inserts = 0 /\ demoted = FALSE

sameTerm(e, f) == e.key = f.key /\ e.spelling = f.spelling

(* Mutant: the entry it had is left where it was.                            *)
mergeBestTwice(old, e) ==
  LET higherOnes == SelectSeq(old, LAMBDA f : f.score >= e.score)
      lowerOnes == SelectSeq(old, LAMBDA f : f.score < e.score)
      longer == higherOnes \o <<e>> \o lowerOnes
  IN IF Len(higherOnes) < MaxSuggestions
     THEN SubSeq(longer, 1, IF Len(longer) > MaxSuggestions THEN MaxSuggestions ELSE Len(longer))
     ELSE old

(* mergeBest(): the term's old entry goes; the new one comes before the      *)
(* first lower score, unless the list is full of better ones.                *)
mergeBest(old, e) ==
  LET others == SelectSeq(old, LAMBDA f : ~sameTerm(f, e))
      higherOnes == SelectSeq(others, LAMBDA f : f.score >= e.score)
      lowerOnes == SelectSeq(others, LAMBDA f : f.score < e.score)
      longer == higherOnes \o <<e>> \o lowerOnes
  IN IF Len(higherOnes) < MaxSuggestions
     THEN SubSeq(longer, 1, IF Len(longer) > MaxSuggestions THEN MaxSuggestions ELSE Len(longer))
     ELSE others

(* insert(): the terminal, and every node on the path.                       *)
trieInsert(e) ==
  /\ inserts < MaxInserts /\ inserts' = inserts + 1
  /\ e.key # <<>>
  /\ termCount' = IF terminal[e.key] = noTerm THEN termCount + 1 ELSE termCount
  /\ terminal' = [terminal EXCEPT ![e.key] = e]
  /\ cached' = [p \in trieNodes |-> IF IsPrefix(p, e.key) THEN mergeBest(cached[p], e) ELSE cached[p]]
  /\ demoted' = (demoted \/ /\ terminal[e.key] # noTerm
                            /\ ~sameTerm(terminal[e.key], e) \/ e.score < terminal[e.key].score)

(* clear(): only the root is kept, and a new node starts empty.              *)
trieClear ==
  /\ terminal' = [p \in trieNodes |-> noTerm] /\ cached' = [p \in trieNodes |-> <<>>]
  /\ termCount' = 0 /\ demoted' = FALSE
  /\ UNCHANGED inserts

trieNext ==
  \/ \E k \in TrieKeys, w \in TrieSpellings, s \in TrieScores :
       trieInsert([key |-> k, spelling |-> w, score |-> s])
  \/ trieClear

(* get(), suggest() and collect()                                            *)
suggest(p, limit) == SubSeq(cached[p], 1, IF Len(cached[p]) < limit THEN Len(cached[p]) ELSE limit)
collect(p) == {terminal[q] : q \in {r \in trieNodes : IsPrefix(p, r)}} \ {noTerm}

-----------------------------------------------------------------------------
(* "Each node keeps the best-scoring completions beneath it" (trie.ts:9):    *)
(* at every node the suggestions are terms of its subtree, best first, none  *)
(* twice, and no better term is missing, as long as no term was put in again *)
(* with a lower score or spelled differently: the list forgets the terms it  *)
(* has no room for, and cannot bring them back.                              *)
SuggestsBest ==
  /\ termCount = Cardinality(collect(<<>>))
  /\ \A p \in trieNodes :
       LET s == suggest(p, MaxSuggestions) IN
       /\ \A i, j \in 1..Len(s) : i < j => s[i].score >= s[j].score /\ ~sameTerm(s[i], s[j])
       /\ ~demoted => /\ Range(s) \subseteq collect(p)
                      /\ Len(s) = MaxSuggestions \/ Len(s) = Cardinality(collect(p))
                      /\ \A e \in collect(p) \ Range(s) : e.score <= Last(s).score

-----------------------------------------------------------------------------
(***************************************************************************)
(* packages/algorithms/src/inverted-index.ts: postings from terms to       *)
(* documents, kept beside the stored documents.  analyze() has turned a    *)
(* text into the terms of a bag; the BM25 arithmetic is left out, so of    *)
(* what search() ranks the model keeps which documents are candidates and  *)
(* with which terms they matched.                                          *)
(***************************************************************************)
CONSTANTS
  DocIds,
  IndexTerms,
  MaxFrequency   \* bound: weighted occurrences of a term in a document

ASSUME IndexAssumption == IsFiniteSet(IndexTerms) /\ MaxFrequency \in Nat \ {0}

VARIABLES
  postings,      \* term -> (document -> frequency); no term maps to nothing
  documents,     \* document -> [length, terms]
  totalLength,
  texts          \* history: the text each indexed document has

indexVars == <<postings, documents, totalLength, texts>>

indexInit == postings = <<>> /\ documents = <<>> /\ totalLength = 0 /\ texts = <<>>

(* A text: how often each of its terms occurs; it may have none.             *)
Texts == UNION {[ts -> 1..MaxFrequency] : ts \in SUBSET IndexTerms}

put(f, x, y) == [z \in DOMAIN f \cup {x} |-> IF z = x THEN y ELSE f[z]]
sumOf(f) == FoldFunction(+, 0, f)

(* Mutant: an emptied posting list is kept, and so is a posting the removed  *)
(* document shares with another one.                                         *)
postingsWithoutLazily(id) ==
  [t \in DOMAIN postings |-> IF DOMAIN postings[t] = {id} THEN <<>> ELSE postings[t]]

(* remove(): the document's terms lose its posting, and emptied lists go.    *)
postingsWithout(id) ==
  LET own == IF id \in DOMAIN documents THEN documents[id].terms ELSE {}
      left == [t \in DOMAIN postings |->
                 IF t \in own THEN Restrict(postings[t], DOMAIN postings[t] \ {id}) ELSE postings[t]]
  IN Restrict(left, {t \in DOMAIN left : DOMAIN left[t] # {}})
lengthWithout(id) == totalLength - IF id \in DOMAIN documents THEN documents[id].length ELSE 0

indexRemove(id) ==
  /\ id \in DOMAIN documents
  /\ postings' = postingsWithout(id) /\ totalLength' = lengthWithout(id)
  /\ documents' = Restrict(documents, DOMAIN documents \ {id})
  /\ texts' = Restrict(texts, DOMAIN texts \ {id})

(* add(): remove(), then the new postings.                                   *)
indexAdd(id, text) ==
  LET kept == postingsWithout(id)
      bucket(t) == IF t \in DOMAIN kept THEN kept[t] ELSE <<>>
  IN /\ postings' = [t \in DOMAIN kept \cup DOMAIN text |->
                       IF t \in DOMAIN text THEN put(bucket(t), id, text[t]) ELSE kept[t]]
     /\ documents' = put(documents, id, [length |-> sumOf(text), terms |-> DOMAIN text])
     /\ totalLength' = lengthWithout(id) + sumOf(text)
     /\ texts' = put(texts, id, text)

indexClear == postings' = <<>> /\ documents' = <<>> /\ totalLength' = 0 /\ texts' = <<>>

indexNext ==
  \/ \E id \in DocIds : indexRemove(id) \/ \E text \in Texts : indexAdd(id, text)
  \/ indexClear

(* search(): the candidates of a query of distinct terms, each with the      *)
(* terms it matched.  (A query that repeats a term counts it twice, and      *)
(* with requireAll no document can match it.)                                *)
matched(id, terms) == {t \in terms \cap DOMAIN postings : id \in DOMAIN postings[t]}
searchIndex(terms, requireAll) ==
  {id \in DOMAIN documents :
     IF requireAll THEN Cardinality(matched(id, terms)) >= Cardinality(terms) /\ terms # {}
     ELSE matched(id, terms) # {}}

-----------------------------------------------------------------------------
(* "Re-adding the same id is safe: the previous postings are removed first"  *)
(* (inverted-index.ts:102-103): after any additions, replacements and        *)
(* removals a search finds exactly the documents whose present text has one  *)
(* of the terms, or all of them; and the postings hold their frequencies and *)
(* nothing else.                                                             *)
PresentTextFound ==
  /\ \A q \in SUBSET IndexTerms :
       /\ searchIndex(q, FALSE) = {id \in DOMAIN texts : q \cap DOMAIN texts[id] # {}}
       /\ q # {} => searchIndex(q, TRUE) = {id \in DOMAIN texts : q \subseteq DOMAIN texts[id]}
  /\ DOMAIN postings = UNION {DOMAIN texts[id] : id \in DOMAIN texts}
  /\ \A t \in DOMAIN postings : \A id \in DOMAIN postings[t] : postings[t][id] = texts[id][t]

(* So it is, and the lengths add up.                                         *)
FindsPresentText ==
  /\ PresentTextFound
  /\ totalLength = FoldFunction(+, 0, [id \in DOMAIN texts |-> sumOf(texts[id])])
=============================================================================
